------------------------- MODULE DStringRefinement --------------------------
(***************************************************************************)
(* DString.tla implements StringValues.tla, for every alphabet, all texts  *)
(* and callbacks and any number of strings, as long as size_t is not       *)
(* exceeded: slices that share buffers behave as values.                   *)
(***************************************************************************)
EXTENDS DStringProofs

\* The text of a slice of the buffers h.
TextIn(h, str) ==
    IF str.buf = 0 THEN <<>>
    ELSE Part(h[str.buf], str.off, str.len)

-----------------------------------------------------------------------------
(* The ways calls end.                                                     *)

LEMMA TextsAre ==
    ASSUME IInv
    PROVE  /\ Texts \in Seq(Seq(Alphabet))
           /\ Len(Texts) = Len(strs) /\ Len(strs) \in Nat
           /\ DOMAIN Texts = Index /\ Index = 1 .. Len(strs)
           /\ \A i \in Index : Texts[i] = Text(strs[i]) /\ Texts[i] = TextIn(heap, strs[i])
<1>1. Len(strs) \in Nat /\ DOMAIN strs = 1 .. Len(strs)
  BY LenProperties DEF IInv
<1>2. \A i \in Index : Text(strs[i]) \in Seq(Alphabet)
  BY TextIs
<1>3. Texts \in [1 .. Len(strs) -> Seq(Alphabet)]
  BY <1>1, <1>2 DEF Texts, Index
<1>4. Texts \in Seq(Seq(Alphabet)) /\ Len(Texts) = Len(strs)
  BY <1>1, <1>3, FunctionIsSeq
<1>. QED
  BY <1>1, <1>4 DEF Texts, Text, TextIn, Part, Index

\* A string that is added, and buffers that leave the others as they are.
LEMMA TextAdded ==
    ASSUME IInv, NEW str, strs' = Append(strs, str),
           TextIn(heap', str) \in Seq(Alphabet),
           \A i \in Index : TextIn(heap', strs[i]) = Texts[i]
    PROVE  Texts' = Append(Texts, TextIn(heap', str))
<1>. DEFINE n == Len(strs)
            text == TextIn(heap', str)
            next == [i \in DOMAIN strs' |-> TextIn(heap', strs'[i])]
            T == Seq(Alphabet)
            old == Texts
<1>1. /\ old \in Seq(T) /\ Len(old) = n /\ n \in Nat
      /\ Index = 1 .. n
  BY TextsAre
<1>2. /\ DOMAIN strs' = 1 .. n + 1
      /\ \A i \in 1 .. n : strs'[i] = strs[i]
      /\ strs'[n + 1] = str
  <2>1. strs \in Seq(Slices \cup {str}) /\ str \in Slices \cup {str}
    BY SeqMonotonic DEF IInv
  <2>. QED
    BY <1>1, <2>1, AppendProperties, LenProperties
<1>3. Texts' = next
  BY DEF Texts, Text, TextIn, Part
<1>. HIDE DEF n, text, old
<1>4. \A i \in 1 .. n : next[i] = old[i]
  BY <1>1, <1>2 DEF old
<1>5. next[n + 1] = text
  BY <1>1, <1>2 DEF text
<1>6. text \in T
  BY DEF text
<1>7. /\ Append(old, text) \in Seq(T)
      /\ Len(Append(old, text)) = n + 1
      /\ \A i \in 1 .. n : Append(old, text)[i] = old[i]
      /\ Append(old, text)[n + 1] = text
  BY <1>1, <1>6, AppendProperties
<1>8. next \in Seq(T) /\ Len(next) = n + 1
  <2>1. DOMAIN next = 1 .. n + 1
    BY <1>2
  <2>2. \A i \in 1 .. n + 1 : i \in 1 .. n \/ i = n + 1
    BY <1>1
  <2>3. \A i \in 1 .. n : old[i] \in T
    BY <1>1, ElementOfSeq
  <2>4. \A i \in 1 .. n + 1 : next[i] \in T
    BY <1>4, <1>5, <1>6, <2>2, <2>3
  <2>5. next = [i \in 1 .. n + 1 |-> TextIn(heap', strs'[i])]
    BY <1>2
  <2>. HIDE DEF T
  <2>6. next \in [1 .. n + 1 -> T]
    BY <2>4, <2>5
  <2>. QED
    BY <1>1, <2>6, FunctionIsSeq
<1>9. \A i \in 1 .. n + 1 : next[i] = Append(old, text)[i]
  <2>1. \A i \in 1 .. n + 1 : i \in 1 .. n \/ i = n + 1
    BY <1>1
  <2>. HIDE DEF next
  <2>. QED
    BY <1>4, <1>5, <1>7, <2>1
<1>. HIDE DEF next, T
<1>10. next = Append(old, text)
  BY <1>7, <1>8, <1>9, SeqEqual
<1>. QED
  BY <1>3, <1>10 DEF old, text

\* A new string that shares its buffer, or has none.
LEMMA Shared ==
    ASSUME IInv, NEW str, TextIn(heap, str) \in Seq(Alphabet), Returns(str)
    PROVE  Values!Yields(TextIn(heap, str))
<1>1. heap' = heap /\ strs' = Append(strs, str) /\ answer' = answer
  BY DEF Returns
<1>2. \A i \in Index : TextIn(heap', strs[i]) = Texts[i]
  BY <1>1, TextsAre
<1>3. Texts' = Append(Texts, TextIn(heap, str))
  <2>1. TextIn(heap', str) = TextIn(heap, str)
    BY <1>1
  <2>. QED
    BY <1>1, <1>2, <2>1, TextAdded
<1>. QED
  BY <1>1, <1>3 DEF Values!Yields

LEMMA EmptyShared == ASSUME IInv, Returns(TN_EMPTY_STRING) PROVE Values!Yields(<<>>)
<1>1. TextIn(heap, TN_EMPTY_STRING) = <<>>
  BY DEF TextIn, TN_EMPTY_STRING, Slice
<1>2. <<>> \in Seq(Alphabet)
  BY EmptySeq
<1>. QED
  BY <1>1, <1>2, Shared

LEMMA StringShared ==
    ASSUME IInv, NEW i \in Index, Returns(strs[i])
    PROVE  Values!Yields(Text(strs[i]))
<1>1. Text(strs[i]) \in Seq(Alphabet) /\ TextIn(heap, strs[i]) = Text(strs[i])
  BY TextIs, TextsAre
<1>. QED
  BY <1>1, Shared

\* The text of part of a string is part of its text.
LEMMA TextOfPart ==
    ASSUME IInv, NEW i \in Index, NEW from \in Nat, NEW len \in Nat,
           from + len <= strs[i].len
    PROVE  TextIn(heap, Slice(strs[i].buf, strs[i].off + from, len))
               = Part(Text(strs[i]), from, len)
<1>. DEFINE str == strs[i]
            part == Slice(str.buf, str.off + from, len)
            text == Text(str)
<1>1. /\ str.buf \in Nat /\ str.off \in Nat /\ str.len \in Nat
      /\ LiesIn(str, heap)
      /\ text \in Seq(Alphabet) /\ Len(text) = str.len
  BY TextIs DEF Slices
<1>2. part.buf = str.buf /\ part.off = str.off + from /\ part.len = len
  BY DEF Slice
<1>. HIDE DEF str, part
<1>3. from + len <= str.len
  BY DEF str
<1>4. CASE str.buf = 0
  <2>1. str.len = 0 /\ text = <<>> /\ TextIn(heap, part) = <<>>
    BY <1>1, <1>2, <1>4 DEF LiesIn, Text, TextIn
  <2>2. len = 0 /\ from = 0
    BY <1>3, <2>1
  <2>. HIDE DEF text
  <2>3. Part(text, from, len) = <<>>
    BY <2>2, SubSeqEmpty DEF Part
  <2>. QED
    BY <2>1, <2>3 DEF str, part, text
<1>5. CASE str.buf # 0
  <2>. DEFINE buf == heap[str.buf]
  <2>1. str.buf \in 1 .. Len(heap) /\ str.off + str.len < Len(buf)
    BY <1>1, <1>5 DEF LiesIn
  <2>2. buf \in Seq(Alphabet) /\ Len(buf) \in Nat
    BY <2>1, ElementOfSeq, LenProperties DEF IInv
  <2>3. /\ text = Part(buf, str.off, str.len)
        /\ TextIn(heap, part) = Part(buf, str.off + from, len)
    BY <1>2, <1>5 DEF Text, TextIn, Part
  <2>. HIDE DEF buf, text
  <2>4. str.off \in Nat /\ str.len \in Nat /\ str.off + str.len <= Len(buf)
    BY <1>1, <2>1, <2>2
  <2>5. Part(Part(buf, str.off, str.len), from, len) = Part(buf, str.off + from, len)
    BY <1>3, <2>2, <2>4, PartOfPart
  <2>. QED
    BY <2>3, <2>5 DEF str, part, text
<1>. QED
  BY <1>4, <1>5

LEMMA PartShared ==
    ASSUME IInv, NEW i \in Index, NEW from \in Nat, NEW len \in Nat,
           from + len <= strs[i].len,
           Returns(Slice(strs[i].buf, strs[i].off + from, len))
    PROVE  Values!Yields(Part(Text(strs[i]), from, len))
<1>. DEFINE text == Text(strs[i])
<1>1. text \in Seq(Alphabet) /\ Len(text) = strs[i].len /\ strs[i].len \in Nat
  BY TextIs, Numbers
<1>2. from + len <= Len(text)
  BY <1>1
<1>. HIDE DEF text
<1>3. Part(text, from, len) \in Seq(Alphabet)
  BY <1>1, <1>2, PartIs
<1>. QED
  BY <1>3, TextOfPart, Shared DEF text

\* A string of a new buffer.
LEMMA NewText ==
    ASSUME IInv, NEW buffer \in Seq(Alphabet), NEW len \in Nat, len <= Len(buffer),
           heap' = Append(heap, buffer),
           strs' = Append(strs, Slice(Len(heap) + 1, 0, len))
    PROVE  Texts' = Append(Texts, Part(buffer, 0, len))
<1>. DEFINE str == Slice(Len(heap) + 1, 0, len)
<1>1. /\ Len(heap) \in Nat
      /\ \A n \in 1 .. Len(heap) : heap'[n] = heap[n]
      /\ heap'[Len(heap) + 1] = buffer
  BY AppendProperties, LenProperties DEF IInv
<1>2. TextIn(heap', str) = Part(buffer, 0, len)
  BY <1>1 DEF TextIn, Slice
<1>3. Part(buffer, 0, len) \in Seq(Alphabet)
  BY PartIs
<1>4. ASSUME NEW i \in Index PROVE TextIn(heap', strs[i]) = Texts[i]
  <2>1. strs[i].buf \in Nat /\ LiesIn(strs[i], heap) /\ Texts[i] = TextIn(heap, strs[i])
    BY TextIs, TextsAre DEF Slices
  <2>2. strs[i].buf # 0 => strs[i].buf \in 1 .. Len(heap)
    BY <2>1 DEF LiesIn
  <2>. QED
    BY <1>1, <2>1, <2>2 DEF TextIn
<1>. HIDE DEF str
<1>5. Texts' = Append(Texts, TextIn(heap', str))
  BY <1>2, <1>3, <1>4, TextAdded DEF str
<1>. QED
  BY <1>2, <1>5

LEMMA Built ==
    ASSUME IInv, NEW size \in Nat, NEW cells \in Seq(Alphabet), NEW len \in Nat,
           len <= Len(cells), Len(cells) <= size, Builds(size, cells, len)
    PROVE  Values!Yields(Part(cells, 0, len))
<1>1. Len(cells) \in Nat
  BY LenProperties
<1>2. PICK junk \in Junk :
          heap' = Append(heap, [k \in 1 .. size |->
                      IF k <= Len(cells) THEN cells[k] ELSE junk])
  <2>1. ~ (Len(cells) > size)
    BY <1>1
  <2>. QED
    BY <2>1, Zenon DEF Builds
<1>3. strs' = Append(strs, Slice(Len(heap) + 1, 0, len)) /\ answer' = answer
  BY <1>1 DEF Builds
<1>. DEFINE buffer == [k \in 1 .. size |-> IF k <= Len(cells) THEN cells[k] ELSE junk]
<1>4. ASSUME NEW k \in 1 .. size PROVE (IF k <= Len(cells) THEN cells[k] ELSE junk) \in Alphabet
  <2>1. k <= Len(cells) => cells[k] \in Alphabet
    BY <1>1, ElementOfSeq
  <2>. QED
    BY <2>1, Numbers
<1>5. buffer \in Seq(Alphabet) /\ Len(buffer) = size
  <2>1. buffer \in [1 .. size -> Alphabet]
    BY <1>4
  <2>. HIDE DEF buffer
  <2>. QED
    BY <2>1, FunctionIsSeq
<1>6. \A k \in 1 .. len : buffer[k] = cells[k]
  BY <1>1
<1>7. heap' = Append(heap, buffer)
  BY <1>2
<1>. HIDE DEF buffer
<1>8. len <= Len(buffer)
  BY <1>1, <1>5
<1>9. Texts' = Append(Texts, Part(buffer, 0, len))
  BY <1>3, <1>5, <1>7, <1>8, NewText
<1>10. /\ Part(buffer, 0, len) \in Seq(Alphabet) /\ Len(Part(buffer, 0, len)) = len
       /\ \A k \in 1 .. len : Part(buffer, 0, len)[k] = buffer[0 + k]
  BY <1>5, <1>8, PartIs
<1>11. /\ Part(cells, 0, len) \in Seq(Alphabet) /\ Len(Part(cells, 0, len)) = len
       /\ \A k \in 1 .. len : Part(cells, 0, len)[k] = cells[0 + k]
  BY PartIs
<1>12. \A k \in 1 .. len : Part(buffer, 0, len)[k] = Part(cells, 0, len)[k]
  BY <1>6, <1>10, <1>11
<1>13. Part(buffer, 0, len) = Part(cells, 0, len)
  BY <1>10, <1>11, <1>12, SeqEqual
<1>. QED
  BY <1>3, <1>9, <1>13 DEF Values!Yields

\* What is before the NUL.
LEMMA BeforeNul ==
    ASSUME NEW text \in Seq(Alphabet), NEW ch \in Alphabet
    PROVE  Part(Append(text, ch), 0, Len(text)) = text
<1>. DEFINE cells == Append(text, ch)
            n == Len(text)
<1>1. /\ cells \in Seq(Alphabet) /\ Len(cells) = n + 1 /\ n \in Nat
      /\ \A k \in 1 .. n : cells[k] = text[k]
  BY AppendProperties, LenProperties
<1>. HIDE DEF cells, n
<1>2. n <= Len(cells)
  BY <1>1
<1>3. /\ Part(cells, 0, n) \in Seq(Alphabet) /\ Len(Part(cells, 0, n)) = n
      /\ \A k \in 1 .. n : Part(cells, 0, n)[k] = cells[0 + k]
  BY <1>1, <1>2, PartIs
<1>4. \A k \in 1 .. n : Part(cells, 0, n)[k] = text[k]
  BY <1>1, <1>3
<1>5. Part(cells, 0, n) = text
  BY <1>3, <1>4, SeqEqual DEF n
<1>. QED
  BY <1>5 DEF cells, n

LEMMA TextYielded ==
    ASSUME IInv, NEW text \in Seq(Alphabet), BuildsText(text)
    PROVE  Values!Yields(text)
<1>. DEFINE cells == Append(text, 0)
            n == Len(text)
            size == n + 1
<1>1. cells \in Seq(Alphabet) /\ Len(cells) = size /\ n \in Nat /\ n + 1 \in Nat
  BY WithNul
<1>2. Builds(size, cells, n)
  BY DEF BuildsText
<1>3. Part(cells, 0, n) = text
  BY Numbers, BeforeNul
<1>. HIDE DEF cells, n
<1>4. n <= Len(cells) /\ Len(cells) <= size /\ size \in Nat
  BY <1>1
<1>. HIDE DEF size
<1>5. Values!Yields(Part(cells, 0, n))
  BY <1>1, <1>2, <1>4, Built
<1>. QED
  BY <1>3, <1>5

LEMMA DuplicateYielded ==
    ASSUME IInv, NEW text \in Seq(Alphabet), Dup(text)
    PROVE  Values!Yields(text)
BY EmptyShared, TextYielded DEF Dup

LEMMA Answered ==
    ASSUME NEW found, NEW value, Answers(found, value)
    PROVE  Values!Answers(found, value)
BY DEF Answers, Values!Answers, Texts, Text

-----------------------------------------------------------------------------
(* Strings from and to the client's memory, and formatting.                *)

\* StringValues has these operators from FiniteSetsExt as well.
LEMMA SameBounds == \A S : Values!Min(S) = Min(S) /\ Values!Max(S) = Max(S)
BY DEF Min, Max, Values!Min, Values!Max

\* Where a loop stops is the first place to stop at, if there is any.
LEMMA StopsThere ==
    ASSUME NEW from \in Nat, NEW to \in Nat, from <= to, NEW S \in SUBSET (from .. to - 1)
    PROVE  /\ Min(S \cup {to}) \in from .. to
           /\ \A m \in S : Min(S \cup {to}) <= m
           /\ Min(S \cup {to}) < to => Min(S \cup {to}) \in S
<1>1. S \cup {to} \in SUBSET Nat /\ S \cup {to} # {}
  OBVIOUS
<1>2. Min(S \cup {to}) \in S \cup {to}
  BY <1>1, LeastOf
<1>. QED
  BY <1>2, StopsWithin

\* The characters before the first NUL, if any.
LEMMA UpToNulIs ==
    ASSUME NEW text \in Seq(Alphabet), NEW n \in 0 .. Len(text),
           \A k \in 1 .. n : text[k] # 0,
           n < Len(text) => text[n + 1] = 0
    PROVE  Values!UpToNUL(text) = Part(text, 0, n)
<1>. DEFINE S == {k \in 1 .. Len(text) : text[k] = 0}
<1>1. Len(text) \in Nat /\ n \in Nat
  BY LenProperties
<1>2. Values!UpToNUL(text) = IF S # {} THEN SubSeq(text, 1, Min(S) - 1) ELSE text
  <2>1. Values!Contains(text, 0) <=> S # {}
    BY DEF Values!Contains
  <2>2. S # {} => Values!SelectInSeq(text, LAMBDA c : c = 0) = Min(S)
    BY SameBounds DEF Values!SelectInSeq
  <2>. QED
    BY <2>1, <2>2 DEF Values!UpToNUL
<1>3. CASE n = Len(text)
  <2>1. S = {}
    BY <1>3
  <2>2. SubSeq(text, 1, Len(text)) = text
    BY SubSeqFull
  <2>3. Part(text, 0, n) = SubSeq(text, 1, Len(text))
    BY <1>1, <1>3 DEF Part
  <2>. QED
    BY <1>2, <2>1, <2>2, <2>3
<1>4. CASE n # Len(text)
  <2>1. n + 1 \in S /\ S \in SUBSET Nat
    BY <1>1, <1>4
  <2>2. \A k \in S : ~ (k <= n)
    BY <1>1
  <2>3. Min(S) \in S /\ Min(S) <= n + 1
    BY <2>1, LeastOf
  <2>4. Min(S) = n + 1
    BY <1>1, <2>1, <2>2, <2>3
  <2>5. Min(S) - 1 = n /\ 0 + n = n /\ 0 + 1 = 1
    BY <1>1, <2>4
  <2>. QED
    BY <1>2, <2>1, <2>5 DEF Part
<1>. QED
  BY <1>3, <1>4

\* What a C function sees of a text that a NUL follows.
LEMMA CStringUpToNul ==
    ASSUME NEW buf \in Seq(Alphabet), NEW off \in Nat, NEW len \in Nat,
           off + len < Len(buf), buf[off + len + 1] = 0
    PROVE  /\ CStringAt(buf, off) = Values!UpToNUL(Part(buf, off, len))
           /\ CStringAt(buf, off) = Part(buf, off, Len(CStringAt(buf, off)))
           /\ Len(CStringAt(buf, off)) \in 0 .. len
<1>. DEFINE S == {i \in off .. Len(buf) - 1 : buf[i + 1] = 0}
            to == Min(S \cup {Len(buf)})
            n == to - off
<1>1. Len(buf) \in Nat
  BY LenProperties
<1>2. off <= Len(buf) /\ S \in SUBSET (off .. Len(buf) - 1) /\ off + len \in S
  BY <1>1
<1>3. CStringAt(buf, off) = SubSeq(buf, off + 1, to)
  BY DEF CStringAt, StopsAt
<1>. HIDE DEF S
<1>4. to \in off .. Len(buf) /\ (\A m \in S : to <= m) /\ (to < Len(buf) => to \in S)
  BY <1>1, <1>2, StopsThere
<1>. HIDE DEF to
<1>5. to <= off + len /\ to \in S
  BY <1>1, <1>2, <1>4
<1>6. n \in 0 .. len /\ off + n = to /\ n \in Nat /\ off + n <= Len(buf)
  BY <1>1, <1>4, <1>5
<1>7. ASSUME NEW k \in 1 .. n PROVE buf[off + k] # 0
  <2>1. off + k - 1 \in off .. Len(buf) - 1 /\ (off + k - 1) + 1 = off + k /\ ~ (to <= off + k - 1)
    BY <1>1, <1>4, <1>6
  <2>2. off + k - 1 \notin S
    BY <1>4, <2>1
  <2>. QED
    BY <2>1, <2>2 DEF S
<1>8. buf[off + n + 1] = 0
  BY <1>5, <1>6 DEF S
<1>9. CStringAt(buf, off) = Part(buf, off, n)
  BY <1>3, <1>6 DEF Part
<1>. HIDE DEF n
<1>10. Len(CStringAt(buf, off)) = n
  BY <1>6, <1>9, PartIs
<1>. DEFINE text == Part(buf, off, len)
<1>11. off + len <= Len(buf)
  BY <1>1
<1>12. text \in Seq(Alphabet) /\ Len(text) = len /\ \A k \in 1 .. len : text[k] = buf[off + k]
  BY <1>11, PartIs
<1>13. Part(text, 0, n) = Part(buf, off, n)
  <2>1. 0 + n <= len /\ off + 0 = off
    BY <1>6
  <2>. QED
    BY <1>6, <1>11, <2>1, PartOfPart
<1>. HIDE DEF text
<1>14. Values!UpToNUL(text) = Part(text, 0, n)
  <2>1. n \in 0 .. Len(text)
    BY <1>6, <1>12
  <2>2. \A k \in 1 .. n : k \in 1 .. len
    BY <1>6
  <2>3. \A k \in 1 .. n : text[k] # 0
    BY <1>7, <1>12, <2>2
  <2>4. n < len => n + 1 \in 1 .. len /\ off + (n + 1) = off + n + 1
    BY <1>6
  <2>5. n < Len(text) => text[n + 1] = 0
    BY <1>8, <1>12, <2>4
  <2>. QED
    BY <1>12, <2>1, <2>3, <2>5, UpToNulIs
<1>. QED
  BY <1>6, <1>9, <1>10, <1>13, <1>14 DEF text

LEMMA CStringOfTextIs ==
    ASSUME NEW text \in Seq(Alphabet)
    PROVE  /\ CStringAt(Append(text, 0), 0) = Values!UpToNUL(text)
           /\ CStringAt(Append(text, 0), 0)
                  = Part(Append(text, 0), 0, Len(CStringAt(Append(text, 0), 0)))
           /\ Len(CStringAt(Append(text, 0), 0)) \in 0 .. Len(text)
<1>. DEFINE buf == Append(text, 0)
            n == Len(text)
<1>1. buf \in Seq(Alphabet) /\ Len(buf) = n + 1 /\ buf[n + 1] = 0 /\ n \in Nat
  BY WithNul
<1>2. Part(buf, 0, n) = text
  BY Numbers, BeforeNul
<1>. HIDE DEF buf, n
<1>3. 0 + n < Len(buf) /\ buf[0 + n + 1] = 0
  BY <1>1
<1>4. /\ CStringAt(buf, 0) = Values!UpToNUL(Part(buf, 0, n))
      /\ CStringAt(buf, 0) = Part(buf, 0, Len(CStringAt(buf, 0)))
      /\ Len(CStringAt(buf, 0)) \in 0 .. n
  BY <1>1, <1>3, CStringUpToNul
<1>. QED
  BY <1>2, <1>4 DEF buf, n

LEMMA MadeCopies ==
    ASSUME IInv, NEW text \in Literals,
           \/ TN_STRING_LITERAL(text) \/ tn_cstr2str(text)
           \/ tn_strdup(text) \/ tn_strdupmem(text)
    PROVE  Values!Copy
<1>. DEFINE cstring == CStringAt(Append(text, 0), 0)
<1>1. /\ text \in Seq(Alphabet)
      /\ cstring \in Seq(Alphabet)
      /\ cstring = Values!UpToNUL(text)
  BY ClientTexts, CStringOfTextIs
<1>2. CASE TN_STRING_LITERAL(text)
  <2>1. Values!Yields(text)
    BY <1>1, <1>2, TextYielded DEF TN_STRING_LITERAL
  <2>2. call' = [name |-> "literal", on |-> <<>>, with |-> <<text>>]
    BY <1>2 DEF TN_STRING_LITERAL, Calls
  <2>. QED
    BY <2>1, <2>2 DEF Values!Copy, Values!Calls, Values!Other
<1>3. CASE tn_cstr2str(text)
  <2>. DEFINE cells == Append(text, 0)
              len == Len(cstring)
              size == Len(text) + 1
  <2>1. /\ cells \in Seq(Alphabet) /\ Len(cells) = size
        /\ Len(text) \in Nat
        /\ len \in 0 .. Len(text)
        /\ cstring = Part(cells, 0, len)
    BY <1>1, WithNul, CStringOfTextIs
  <2>2. Builds(size, cells, len)
    BY <1>3 DEF tn_cstr2str
  <2>. HIDE DEF cells, cstring, len
  <2>3. size \in Nat /\ len \in Nat /\ len <= Len(cells) /\ Len(cells) <= size
    BY <2>1
  <2>4. Values!Yields(cstring)
    BY <2>1, <2>2, <2>3, Built
  <2>5. call' = [name |-> "cstr2str", on |-> <<>>, with |-> <<text>>]
    BY <1>3 DEF tn_cstr2str, Calls
  <2>. QED
    BY <1>1, <2>4, <2>5 DEF Values!Copy, Values!Calls, Values!Other
<1>4. CASE tn_strdup(text)
  <2>1. Values!Yields(cstring)
    BY <1>1, <1>4, DuplicateYielded DEF tn_strdup
  <2>2. call' = [name |-> "strdup", on |-> <<>>, with |-> <<text>>]
    BY <1>4 DEF tn_strdup, Calls
  <2>. HIDE DEF cstring
  <2>. QED
    BY <1>1, <2>1, <2>2 DEF Values!Copy, Values!Calls, Values!Other
<1>5. CASE tn_strdupmem(text)
  <2>1. Values!Yields(text)
    BY <1>1, <1>5, DuplicateYielded DEF tn_strdupmem
  <2>2. call' = [name |-> "strdupmem", on |-> <<>>, with |-> <<text>>]
    BY <1>5 DEF tn_strdupmem, Calls
  <2>. QED
    BY <2>1, <2>2 DEF Values!Copy, Values!Calls, Values!Other
<1>. QED
  BY <1>2, <1>3, <1>4, <1>5

LEMMA Formats ==
    ASSUME IInv,
           \/ \E text \in Formatted : tn_strvprintf(text)
           \/ Fails
           \/ \E text \in Times : tn_strftime(text)
           \/ GrowBuffer
    PROVE  [Values!Format]_(Values!vars)
<1>1. ASSUME NEW text \in Formatted, tn_strvprintf(text) PROVE Values!Format
  <2>. DEFINE cstring == CStringAt(Append(text, 0), 0)
  <2>1. /\ text \in Seq(Alphabet)
        /\ cstring \in Seq(Alphabet)
        /\ cstring = Values!UpToNUL(text)
    BY ClientTexts, CStringOfTextIs
  <2>2. Values!Yields(text) \/ Values!Yields(cstring)
    BY <1>1, <2>1, TextYielded, DuplicateYielded DEF tn_strvprintf
  <2>3. call' = [name |-> "strprintf", on |-> <<>>, with |-> <<text>>]
    BY <1>1 DEF tn_strvprintf, Calls
  <2>. HIDE DEF cstring
  <2>. QED
    BY <2>1, <2>2, <2>3 DEF Values!Format, Values!Calls, Values!Other
<1>2. CASE Fails
  BY <1>2 DEF Fails, Calls, Values!Format, Values!Calls, Texts, Text
<1>3. ASSUME NEW text \in Times, tn_strftime(text)
      PROVE  [Values!Format]_(Values!vars)
  <2>1. CASE Expands(text, ShortBuf)
    <3>1. Values!Yields(text)
      BY <1>3, <2>1, ClientTexts, DuplicateYielded DEF tn_strftime
    <3>2. call' = [name |-> "strftime", on |-> <<>>, with |-> <<text>>]
      BY <1>3, <2>1 DEF tn_strftime, Calls
    <3>. QED
      BY <3>1, <3>2 DEF Values!Format, Values!Calls, Values!Other
  <2>2. CASE ~ Expands(text, ShortBuf)
    BY <1>3, <2>2 DEF tn_strftime, Values!vars, Texts, Text
  <2>. QED
    BY <2>1, <2>2
<1>4. CASE GrowBuffer
  <2>1. CASE UNCHANGED <<heap, strs, call>>
    BY <1>4, <2>1 DEF GrowBuffer, Values!vars, Texts, Text
  <2>2. CASE /\ heap' = Append(heap, Append(job.text, 0))
             /\ strs' = Append(strs, Slice(Len(heap) + 1, 0, Len(job.text)))
             /\ call' = [name |-> "strftime", on |-> <<>>, with |-> <<job.text>>]
    <3>. DEFINE text == job.text
                buffer == Append(text, 0)
                n == Len(text)
    <3>1. /\ text \in Seq(Alphabet)
          /\ buffer \in Seq(Alphabet) /\ Len(buffer) = n + 1 /\ n \in Nat
          /\ Part(buffer, 0, n) = text
      <4>1. text \in Seq(Alphabet)
        BY DEF IInv
      <4>. QED
        BY <4>1, WithNul, BeforeNul, Numbers
    <3>2. heap' = Append(heap, buffer) /\ strs' = Append(strs, Slice(Len(heap) + 1, 0, n))
      BY <2>2
    <3>3. answer' = answer /\ call'.name = "strftime" /\ call'.with[1] = text
      BY <1>4, <2>2 DEF GrowBuffer
    <3>. HIDE DEF text, buffer, n
    <3>4. n <= Len(buffer)
      BY <3>1
    <3>5. Texts' = Append(Texts, text)
      BY <3>1, <3>2, <3>4, NewText
    <3>. QED
      BY <3>3, <3>5 DEF Values!Format, Values!Calls, Values!Other, Values!Yields
  <2>. QED
    BY <1>4, <2>1, <2>2 DEF GrowBuffer
<1>. QED
  BY <1>1, <1>2, <1>3, <1>4

LEMMA Str2CstrCopies == ASSUME IInv, NEW i \in Index, tn_str2cstr(i) PROVE Values!Copy
<1>. DEFINE str == strs[i]
            text == Text(str)
            chars == Append(text, 0)
            len == Len(CStringAt(chars, 0))
<1>1. /\ str \in Slices /\ LiesIn(str, heap)
      /\ text \in Seq(Alphabet)
      /\ Len(text) = str.len
  BY TextIs
<1>2. call' = [name |-> "str2cstr", on |-> <<i>>, with |-> <<>>]
  BY DEF tn_str2cstr, Calls
<1>3. call'.name = "str2cstr" /\ Values!String(1) = text
  <2>1. call'.on[1] = i
    BY <1>2
  <2>. QED
    BY <1>2, <2>1, TextsAre DEF Values!String
<1>4. Values!Yields(Values!UpToNUL(text))
  <2>1. CASE str.buf = 0
    <3>1. text = <<>> /\ Builds(1, <<0>>, 0)
      BY <2>1 DEF tn_str2cstr, Text
    <3>2. <<0>> \in Seq(Alphabet) /\ Len(<<0>>) = 1
      BY Numbers, OneAndTwo
    <3>3. Values!Yields(Part(<<0>>, 0, 0))
      <4>. DEFINE cells == <<0>>
                  size == 1
                  none == 0
      <4>1. /\ cells \in Seq(Alphabet) /\ Len(cells) = size /\ Builds(size, cells, none)
            /\ size \in Nat /\ none \in Nat /\ none <= size /\ size <= size
        BY <3>1, <3>2
      <4>. HIDE DEF cells, size, none
      <4>2. Values!Yields(Part(cells, 0, none))
        BY <4>1, Built
      <4>. QED
        BY <4>2 DEF cells, none
    <3>4. Part(<<0>>, 0, 0) = <<>>
      BY SubSeqEmpty DEF Part
    <3>5. Values!UpToNUL(<<>>) = <<>>
      BY DEF Values!UpToNUL, Values!Contains
    <3>. QED
      BY <3>1, <3>3, <3>4, <3>5
  <2>2. CASE str.buf # 0 /\ ~ Terminated(str)
    <3>1. Builds(str.len + 1, chars, len)
      BY <2>2 DEF tn_str2cstr
    <3>2. /\ chars \in Seq(Alphabet) /\ Len(chars) = str.len + 1 /\ str.len \in Nat
          /\ CStringAt(chars, 0) = Values!UpToNUL(text)
          /\ CStringAt(chars, 0) = Part(chars, 0, len)
          /\ len \in 0 .. str.len
      BY <1>1, WithNul, CStringOfTextIs
    <3>. DEFINE size == str.len + 1
    <3>. HIDE DEF str, chars, len, text
    <3>3. size \in Nat /\ len \in Nat /\ len <= Len(chars) /\ Len(chars) <= size
      BY <3>2
    <3>4. Builds(size, chars, len)
      BY <3>1
    <3>. HIDE DEF size
    <3>5. Values!Yields(Part(chars, 0, len))
      BY <3>2, <3>3, <3>4, Built
    <3>. QED
      BY <3>2, <3>5
  <2>3. CASE str.buf # 0 /\ Terminated(str)
    <3>. DEFINE buf == heap[str.buf]
                n == Len(CStringAt(buf, str.off))
    <3>1. Returns(Slice(str.buf, str.off, n))
      BY <2>3 DEF tn_str2cstr
    <3>2. /\ str.buf \in 1 .. Len(heap)
          /\ str.off + str.len < Len(buf)
          /\ str.off \in Nat /\ str.len \in Nat
      <4>1. str.buf \in Nat /\ str.off \in Nat /\ str.len \in Nat
        BY <1>1 DEF Slices
      <4>. QED
        BY <1>1, <2>3, <4>1 DEF LiesIn
    <3>3. buf \in Seq(Alphabet)
      BY <3>2, ElementOfSeq DEF IInv
    <3>4. buf[str.off + str.len + 1] = 0
      BY <2>3 DEF Terminated
    <3>5. text = Part(buf, str.off, str.len)
      BY <2>3 DEF Text, Part
    <3>. HIDE DEF buf, n
    <3>6. /\ CStringAt(buf, str.off) = Values!UpToNUL(text)
          /\ CStringAt(buf, str.off) = Part(buf, str.off, n)
          /\ n \in 0 .. str.len
      <4>. DEFINE off == str.off
                  l == str.len
      <4>1. /\ off \in Nat /\ l \in Nat /\ off + l < Len(buf) /\ buf[off + l + 1] = 0
            /\ text = Part(buf, off, l)
        BY <3>2, <3>4, <3>5
      <4>. HIDE DEF off, l, text
      <4>2. /\ CStringAt(buf, off) = Values!UpToNUL(Part(buf, off, l))
            /\ CStringAt(buf, off) = Part(buf, off, Len(CStringAt(buf, off)))
            /\ Len(CStringAt(buf, off)) \in 0 .. l
        BY <3>3, <4>1, CStringUpToNul
      <4>. QED
        BY <4>1, <4>2 DEF off, l, n
    <3>7. TextIn(heap, Slice(str.buf, str.off, n)) = Part(buf, str.off, n)
      BY <2>3 DEF TextIn, Slice, buf
    <3>8. Part(buf, str.off, n) \in Seq(Alphabet)
      <4>1. n \in Nat /\ str.off + n <= Len(buf)
        <5>1. Len(buf) \in Nat
          BY <3>3, LenProperties
        <5>. QED
          BY <3>2, <3>6, <5>1
      <4>. DEFINE off == str.off
      <4>2. off \in Nat /\ off + n <= Len(buf)
        BY <3>2, <4>1
      <4>. HIDE DEF off
      <4>3. Part(buf, off, n) \in Seq(Alphabet)
        BY <3>3, <4>1, <4>2, PartIs
      <4>. QED
        BY <4>3 DEF off
    <3>. QED
      BY <3>1, <3>6, <3>7, <3>8, Shared
  <2>. QED
    BY <2>1, <2>2, <2>3
<1>. HIDE DEF text
<1>. QED
  BY <1>3, <1>4 DEF Values!Copy, Values!Calls

-----------------------------------------------------------------------------
(* Concatenation.                                                          *)

\* What a call of one or two strings is given.
LEMMA GivenOne ==
    ASSUME IInv, NEW name, NEW i \in Index, NEW with, Calls(name, <<i>>, with)
    PROVE  /\ Values!Calls(name)
           /\ Values!String(1) = Text(strs[i])
           /\ \A k : Values!Other(k) = with[k]
<1>1. call' = [name |-> name, on |-> <<i>>, with |-> with]
  BY DEF Calls
<1>2. call'.name = name /\ call'.on[1] = i /\ call'.with = with
  BY <1>1
<1>. QED
  BY <1>2, TextsAre DEF Values!Calls, Values!String, Values!Other

LEMMA GivenTwo ==
    ASSUME IInv, NEW name, NEW i \in Index, NEW j \in Index, NEW with,
           Calls(name, <<i, j>>, with)
    PROVE  /\ Values!Calls(name)
           /\ Values!String(1) = Text(strs[i])
           /\ Values!String(2) = Text(strs[j])
           /\ \A k : Values!Other(k) = with[k]
<1>1. call' = [name |-> name, on |-> <<i, j>>, with |-> with]
  BY DEF Calls
<1>2. call'.name = name /\ call'.on[1] = i /\ call'.on[2] = j /\ call'.with = with
  BY <1>1
<1>. QED
  BY <1>2, TextsAre DEF Values!Calls, Values!String, Values!Other

LEMMA EmptyText ==
    ASSUME NEW text \in Seq(Alphabet)
    PROVE  /\ Len(text) = 0 <=> text = <<>>
           /\ text \o <<>> = text /\ <<>> \o text = text
BY EmptySeq, ConcatEmptySeq

LEMMA StrcatConcatenates ==
    ASSUME IInv, NEW i \in Index, NEW j \in Index, tn_strcat(i, j)
    PROVE  Values!Concatenate
<1>. DEFINE text1 == Text(strs[i])
            text2 == Text(strs[j])
<1>1. /\ text1 \in Seq(Alphabet) /\ Len(text1) = strs[i].len
      /\ text2 \in Seq(Alphabet) /\ Len(text2) = strs[j].len
  BY TextIs
<1>2. /\ Values!Calls("strcat")
      /\ Values!String(1) = text1 /\ Values!String(2) = text2
  BY GivenTwo DEF tn_strcat
<1>3. \/ strs[j].len = 0 /\ Returns(strs[i])
      \/ strs[i].len = 0 /\ Returns(strs[j])
      \/ BuildsText(text1 \o text2)
  BY DEF tn_strcat
<1>4. /\ Returns(strs[i]) => Values!Yields(text1)
      /\ Returns(strs[j]) => Values!Yields(text2)
  BY StringShared
<1>. HIDE DEF text1, text2
<1>5. text1 \o text2 \in Seq(Alphabet)
  BY <1>1, ConcatProperties
<1>6. Values!Yields(text1 \o text2)
  <2>1. CASE strs[j].len = 0 /\ Returns(strs[i])
    BY <1>1, <1>4, <2>1, EmptyText
  <2>2. CASE strs[i].len = 0 /\ Returns(strs[j])
    BY <1>1, <1>4, <2>2, EmptyText
  <2>3. CASE BuildsText(text1 \o text2)
    BY <1>5, <2>3, TextYielded
  <2>. QED
    BY <1>3, <2>1, <2>2, <2>3
<1>. QED
  BY <1>2, <1>6 DEF Values!Concatenate

LEMMA StraddchConcatenates ==
    ASSUME IInv, NEW i \in Index, NEW ch \in Characters, tn_straddch(i, ch)
    PROVE  Values!Concatenate
<1>. DEFINE text == Text(strs[i])
            more == Append(text, ch)
            cells == Append(more, 0)
            n == strs[i].len
            len == n + 1
            size == n + 2
<1>1. text \in Seq(Alphabet) /\ Len(text) = n /\ n \in Nat
  BY TextIs DEF Slices
<1>2. ch \in Alphabet
  BY Numbers
<1>3. Values!Calls("straddch") /\ Values!String(1) = text /\ Values!Other(1) = ch
  <2>1. Calls("straddch", <<i>>, <<ch>>)
    BY DEF tn_straddch
  <2>. QED
    BY <2>1, GivenOne
<1>4. text \o <<ch, 0>> = cells
  BY <1>1, <1>2, Numbers
<1>5. Builds(size, cells, len)
  BY <1>4 DEF tn_straddch
<1>. HIDE DEF text, n
<1>6. more \in Seq(Alphabet) /\ Len(more) = len
  BY <1>1, <1>2, AppendProperties
<1>. HIDE DEF more
<1>7. cells \in Seq(Alphabet) /\ Len(cells) = len + 1 /\ Part(cells, 0, len) = more
  BY <1>6, WithNul, BeforeNul, Numbers
<1>8. len \in Nat /\ size \in Nat /\ size = len + 1
  BY <1>1
<1>. HIDE DEF cells, len, size
<1>9. len <= Len(cells) /\ Len(cells) <= size
  BY <1>7, <1>8
<1>10. Values!Yields(Part(cells, 0, len))
  BY <1>5, <1>7, <1>8, <1>9, Built
<1>. QED
  BY <1>3, <1>7, <1>10 DEF Values!Concatenate, more

LEMMA SameFlatten == \A seqs : Values!FlattenSeq(seqs) = FlattenSeq(seqs)
BY DEF FlattenSeq, Values!FlattenSeq

\* Grouping does not matter.
Regroups(a, b, c) == a \o (b \o c) = (a \o b) \o c

LEMMA Regrouped ==
    ASSUME NEW a \in Seq(Alphabet), NEW b \in Seq(Alphabet), NEW c \in Seq(Alphabet)
    PROVE  Regroups(a, b, c)
BY ConcatAssociative DEF Regroups

\* A loop that adds a separator and the next text, and what it computes.
Joins(n, texts, sep, chars) ==
    /\ chars[0] = texts[1]
    /\ \A i \in 1 .. n : chars[i] = chars[i - 1] \o sep \o texts[i + 1]

LEMMA JoinedIs ==
    ASSUME NEW n \in Nat, NEW texts \in Seq(Seq(Alphabet)), Len(texts) = n + 1,
           NEW sep \in Seq(Alphabet), NEW chars, Joins(n, texts, sep, chars)
    PROVE  Values!Joined(Head(texts), Tail(texts), sep) = chars[n]
<1>. DEFINE T == Seq(Alphabet)
            rest == Tail(texts)
            first == texts[1]
            seqs == [k \in 1 .. n |-> sep \o texts[k + 1]]
<1>0. /\ chars[0] = first
      /\ \A i \in 1 .. n : chars[i] = chars[i - 1] \o sep \o texts[i + 1]
  BY DEF Joins
<1>1. \A k \in 1 .. n + 1 : texts[k] \in T
  BY ElementOfSeq
<1>2. Head(texts) = first /\ DOMAIN rest = 1 .. n /\ \A k \in 1 .. n : rest[k] = texts[k + 1]
  <2>1. texts # <<>>
    BY EmptySeq
  <2>2. /\ Head(texts) = first /\ rest \in Seq(T) /\ Len(rest) = n
        /\ \A k \in 1 .. Len(rest) : rest[k] = texts[k + 1]
    BY <2>1, HeadTailProperties
  <2>. QED
    BY <2>2, LenProperties
<1>3. Values!Joined(Head(texts), rest, sep) = first \o FlattenSeq(seqs)
  <2>1. [k \in DOMAIN rest |-> sep \o rest[k]] = seqs
    BY <1>2
  <2>. HIDE DEF seqs, rest
  <2>. QED
    BY <1>2, <2>1, SameFlatten DEF Values!Joined
<1>4. first \in T /\ \A k \in 1 .. n : texts[k + 1] \in T /\ sep \o texts[k + 1] \in T
  <2>1. 1 \in 1 .. n + 1 /\ \A k \in 1 .. n : k + 1 \in 1 .. n + 1
    OBVIOUS
  <2>2. first \in T /\ \A k \in 1 .. n : texts[k + 1] \in T
    BY <1>1, <2>1
  <2>. QED
    BY <2>2, ConcatProperties
<1>5. seqs \in Seq(T) /\ Len(seqs) = n
  <2>1. seqs \in [1 .. n -> T]
    BY <1>4
  <2>. HIDE DEF seqs, T
  <2>. QED
    BY <2>1, FunctionIsSeq
<1>6. \A k \in 1 .. n : seqs[k] = sep \o texts[k + 1]
  OBVIOUS
<1>. HIDE DEF seqs, rest, first
<1>7. PICK f : f \in Concatenations(n, Alphabet, seqs)
  BY <1>5, Flattening
<1>8. FlattenSeq(seqs) = f[n]
  BY <1>5, <1>7, Flattening
<1>9. /\ \A i \in 0 .. n : f[i] \in T
      /\ f[0] = <<>> /\ \A i \in 1 .. n : f[i] = f[i - 1] \o seqs[i]
  BY <1>7 DEF Concatenations
<1>. DEFINE g == [i \in 0 .. n |-> first \o f[i]]
<1>10. Alike(n, g, chars)
  <2>1. g[0] = chars[0]
    <3>1. 0 \in 0 .. n /\ f[0] = <<>> /\ first \o <<>> = first
      BY <1>4, <1>9, ConcatEmptySeq
    <3>2. g[0] = first \o f[0]
      BY <3>1
    <3>. QED
      BY <1>0, <3>1, <3>2
  <2>2. ASSUME NEW i \in 1 .. n, g[i - 1] = chars[i - 1] PROVE g[i] = chars[i]
    <3>1. i \in 0 .. n /\ i - 1 \in 0 .. n
      OBVIOUS
    <3>2. f[i] = f[i - 1] \o (sep \o texts[i + 1]) /\ f[i - 1] \in T
      BY <1>6, <1>9, <3>1
    <3>3. g[i] = first \o f[i] /\ g[i - 1] = first \o f[i - 1]
      BY <3>1
    <3>4. chars[i] = (chars[i - 1] \o sep) \o texts[i + 1] /\ texts[i + 1] \in T
      BY <1>0, <1>4
    <3>. HIDE DEF g
    <3>5. first \o (f[i - 1] \o (sep \o texts[i + 1]))
              = ((first \o f[i - 1]) \o sep) \o texts[i + 1]
      <4>. DEFINE b == f[i - 1]
                  d == texts[i + 1]
                  s == sep \o d
                  t == first \o b
      <4>1. first \in Seq(Alphabet) /\ b \in Seq(Alphabet) /\ d \in Seq(Alphabet)
        BY <1>4, <3>2, <3>4
      <4>. HIDE DEF b, d
      <4>5. s \in Seq(Alphabet)
        BY <4>1, ConcatProperties
      <4>6. t \in Seq(Alphabet)
        BY <4>1, ConcatProperties
      <4>2. Regroups(t, sep, d)
        <5>. HIDE DEF t
        <5>. QED
          BY <4>1, <4>6, Regrouped
      <4>3. Regroups(first, b, s)
        <5>. HIDE DEF s
        <5>. QED
          BY <4>1, <4>5, Regrouped
      <4>4. first \o (b \o (sep \o d)) = ((first \o b) \o sep) \o d
        BY <4>2, <4>3 DEF Regroups
      <4>. QED
        BY <4>4 DEF b, d
    <3>. QED
      BY <2>2, <3>2, <3>3, <3>4, <3>5
  <2>. HIDE DEF g
  <2>. QED
    BY <2>1, <2>2 DEF Alike
<1>11. g[n] = first \o f[n]
  OBVIOUS
<1>. HIDE DEF g
<1>12. g[n] = chars[n]
  BY <1>10, AlikeAgree
<1>. QED
  BY <1>3, <1>8, <1>11, <1>12 DEF rest

LEMMA StrcatsConcatenates ==
    ASSUME NoWrap, IInv, NEW n \in 0 .. MaxJoined, NEW sep \in Index,
           NEW args \in [1 .. n -> Index], tn_strcats(args, sep)
    PROVE  Values!Concatenate
<1>. DEFINE on == <<sep>> \o args
            texts == [k \in 1 .. n |-> Text(strs[args[k]])]
            given == [k \in 1 .. Len(call'.on) - 1 |-> Values!String(k + 1)]
            joined == IF given = <<>> THEN <<>>
                      ELSE Values!Joined(Head(given), Tail(given), Values!String(1))
            between == Text(strs[sep])
<1>0. n \in Nat
  BY DStringAssumption
<1>1. args \in Seq(Index) /\ Len(args) = n
  BY <1>0, FunctionIsSeq
<1>2. Len(on) = n + 1 /\ on[1] = sep /\ \A k \in 1 .. n : on[k + 1] = args[k]
  <2>1. <<sep>> \in Seq(Index) /\ Len(<<sep>>) = 1 /\ <<sep>>[1] = sep
    BY OneAndTwo
  <2>. DEFINE one == <<sep>>
              I == Index
  <2>2. one \in Seq(I) /\ Len(one) = 1 /\ one[1] = sep /\ args \in Seq(I)
    BY <1>1, <2>1
  <2>. HIDE DEF one, I
  <2>3. /\ Len(one \o args) = 1 + n
        /\ \A k \in 1 .. 1 + n : (one \o args)[k] = IF k <= 1 THEN one[k] ELSE args[k - 1]
    <3>1. /\ Len(one \o args) = Len(one) + Len(args)
          /\ \A k \in 1 .. Len(one) + Len(args) :
                 (one \o args)[k] = IF k <= Len(one) THEN one[k] ELSE args[k - Len(one)]
      BY <1>1, <2>2, ConcatProperties
    <3>. QED
      BY <1>1, <2>2, <3>1
  <2>4. (one \o args)[1] = sep
    BY <2>2, <2>3
  <2>5. ASSUME NEW k \in 1 .. n PROVE (one \o args)[k + 1] = args[k]
    <3>1. k + 1 \in 1 .. 1 + n /\ ~ (k + 1 <= 1) /\ (k + 1) - 1 = k
      OBVIOUS
    <3>. QED
      BY <2>3, <3>1
  <2>6. Len(one \o args) = n + 1
    BY <2>3
  <2>. QED
    BY <2>4, <2>5, <2>6 DEF one
<1>3. call' = [name |-> "strcats", on |-> on, with |-> <<>>]
  BY DEF tn_strcats, Calls
<1>4. call'.on = on /\ Values!Calls("strcats")
  BY <1>3 DEF Values!Calls
<1>5. between \in Seq(Alphabet) /\ Texts[sep] = between
  BY TextIs, TextsAre
<1>6. \A k \in 1 .. n : /\ args[k] \in Index
                        /\ Text(strs[args[k]]) \in Seq(Alphabet)
                        /\ Texts[args[k]] = Text(strs[args[k]])
  BY TextIs, TextsAre
<1>. HIDE DEF on
<1>7. given = texts /\ Values!String(1) = between
  <2>1. Len(call'.on) - 1 = n
    BY <1>2, <1>4
  <2>2. \A k \in 1 .. n : Values!String(k + 1) = Text(strs[args[k]])
    BY <1>2, <1>4, <1>6 DEF Values!String
  <2>3. Values!String(1) = between
    BY <1>2, <1>4, <1>5 DEF Values!String
  <2>4. given = [k \in 1 .. n |-> Values!String(k + 1)]
    BY <2>1
  <2>. HIDE DEF given, between
  <2>5. [k \in 1 .. n |-> Values!String(k + 1)] = texts
    BY <2>2
  <2>. QED
    BY <2>3, <2>4, <2>5
<1>8. texts \in Seq(Seq(Alphabet)) /\ Len(texts) = n /\ \A k \in 1 .. n : texts[k] = Text(strs[args[k]])
  <2>1. texts \in [1 .. n -> Seq(Alphabet)]
    BY <1>6
  <2>2. \A k \in 1 .. n : texts[k] = Text(strs[args[k]])
    OBVIOUS
  <2>. HIDE DEF texts
  <2>. QED
    BY <2>1, <2>2, FunctionIsSeq
<1>9. Values!Yields(joined) => Values!Concatenate
  BY <1>4 DEF Values!Concatenate
<1>10. joined = IF texts = <<>> THEN <<>>
                ELSE Values!Joined(Head(texts), Tail(texts), between)
  BY <1>7
<1>. HIDE DEF joined, given, texts
<1>11. CASE n = 0
  <2>1. Returns(TN_EMPTY_STRING)
    BY <1>1, <1>11 DEF tn_strcats
  <2>2. texts = <<>>
    BY <1>8, <1>11, EmptySeq
  <2>3. joined = <<>>
    BY <1>10, <2>2
  <2>. QED
    BY <1>9, <2>1, <2>3, EmptyShared
<1>12. CASE n # 0
  <2>. DEFINE N == n - 1
              chars == CharsOfAll(args, sep)
              len == LengthOfAll(args, sep)[N]
  <2>1. N \in Nat /\ n = N + 1 /\ n \in Nat \ {0} /\ 0 \in 0 .. N /\ texts # <<>>
    BY <1>8, <1>12, EmptySeq
  <2>2. \A i \in 0 .. N :
            chars[i] = IF i = 0 THEN Text(strs[args[i + 1]])
                       ELSE chars[i - 1] \o between \o Text(strs[args[i + 1]])
    <3>1. chars = [i \in 0 .. N |->
                       IF i = 0 THEN Text(strs[args[i + 1]])
                       ELSE chars[i - 1] \o between \o Text(strs[args[i + 1]])]
      BY <2>1, CharsAre
    <3>. HIDE DEF chars, N, between
    <3>. QED
      BY <3>1
  <2>3. len \in Nat /\ chars[N] \in Seq(Alphabet) /\ Len(chars[N]) = len
    BY <2>1, LoopsAgree
  <2>4. \/ n = 1 /\ Returns(strs[args[1]])
        \/ n > 1 /\ Builds(len + 1, Append(chars[N], 0), len)
    <3>1. \/ n = 1 /\ Returns(strs[args[1]])
          \/ n > 1 /\ BuildsCounted(len, chars[N])
      BY <1>1, <1>12 DEF tn_strcats
    <3>2. len + 1 < SizeMod
      BY <1>12, JoinedFit
    <3>. HIDE DEF N, chars, len
    <3>. QED
      BY <2>3, <3>1, <3>2, Counted
  <2>. HIDE DEF N, chars, len, between
  <2>5. chars[0] = texts[1] /\ chars[0] = Text(strs[args[1]])
    <3>1. 0 + 1 = 1 /\ 1 \in 1 .. n
      BY <2>1
    <3>. QED
      BY <1>8, <2>1, <2>2, <3>1
  <2>6. ASSUME NEW i \in 1 .. N PROVE chars[i] = chars[i - 1] \o between \o texts[i + 1]
    <3>1. i \in 0 .. N /\ i # 0 /\ i + 1 \in 1 .. n
      BY <2>1
    <3>. QED
      BY <1>8, <2>2, <3>1
  <2>11. Joins(N, texts, between, chars)
    BY <2>5, <2>6 DEF Joins
  <2>7. Values!Joined(Head(texts), Tail(texts), between) = chars[N]
    <3>1. Len(texts) = N + 1
      BY <1>8, <2>1
    <3>. QED
      BY <1>5, <1>8, <2>1, <2>11, <3>1, JoinedIs
  <2>8. joined = chars[N]
    BY <1>10, <2>1, <2>7
  <2>9. CASE n = 1 /\ Returns(strs[args[1]])
    <3>1. N = 0 /\ 1 \in 1 .. n
      BY <2>1, <2>9
    <3>2. Values!Yields(Text(strs[args[1]]))
      BY <1>6, <2>9, <3>1, StringShared
    <3>. QED
      BY <1>9, <2>5, <2>8, <3>1, <3>2
  <2>10. CASE Builds(len + 1, Append(chars[N], 0), len)
    <3>. DEFINE text == chars[N]
    <3>1. BuildsText(text)
      BY <2>3, <2>10 DEF BuildsText
    <3>2. text \in Seq(Alphabet)
      BY <2>3
    <3>. HIDE DEF text
    <3>3. Values!Yields(text)
      BY <3>1, <3>2, TextYielded
    <3>. QED
      BY <1>9, <2>8, <3>3 DEF text
  <2>. QED
    BY <2>4, <2>9, <2>10
<1>. QED
  BY <1>11, <1>12

LEMMA Remainder ==
    ASSUME NEW m \in Nat \ {0}, NEW q \in Nat, NEW r \in 0 .. m - 1
    PROVE  (m * q + r) % m = r
OBVIOUS

\* Copies of a text one after the other.
Copies(text, m, n) == [k \in 1 .. m * n |-> text[((k - 1) % m) + 1]]

LEMMA CopiesAre ==
    ASSUME NEW text \in Seq(Alphabet), NEW m \in Nat \ {0}, Len(text) = m, NEW n \in Nat
    PROVE  /\ Copies(text, m, n) \in Seq(Alphabet)
           /\ Len(Copies(text, m, n)) = m * n
           /\ \A k \in 1 .. m * n : Copies(text, m, n)[k] = text[((k - 1) % m) + 1]
<1>. DEFINE N == m * n
            copies == Copies(text, m, n)
<1>1. N \in Nat
  OBVIOUS
<1>2. copies = [k \in 1 .. N |-> text[((k - 1) % m) + 1]]
  BY DEF Copies
<1>. HIDE DEF N, copies
<1>3. ASSUME NEW k \in 1 .. N PROVE text[((k - 1) % m) + 1] \in Alphabet
  <2>1. (k - 1) % m \in 0 .. m - 1
    BY <1>1
  <2>2. ((k - 1) % m) + 1 \in 1 .. m
    BY <2>1
  <2>. QED
    BY <2>2, ElementOfSeq
<1>4. copies \in [1 .. N -> Alphabet]
  BY <1>2, <1>3
<1>5. \A k \in 1 .. N : copies[k] = text[((k - 1) % m) + 1]
  BY <1>2
<1>6. copies \in Seq(Alphabet) /\ Len(copies) = N
  BY <1>1, <1>4, FunctionIsSeq
<1>. QED
  BY <1>5, <1>6 DEF N, copies

LEMMA OneMoreCopy ==
    ASSUME NEW text \in Seq(Alphabet), NEW m \in Nat \ {0}, Len(text) = m, NEW n \in Nat
    PROVE  Copies(text, m, n + 1) = Copies(text, m, n) \o text
<1>. DEFINE N == m * n
            M == m * (n + 1)
            s == Copies(text, m, n)
            t == Copies(text, m, n + 1)
<1>1. N \in Nat /\ M \in Nat /\ M = N + m /\ n + 1 \in Nat
  OBVIOUS
<1>2. /\ s \in Seq(Alphabet) /\ Len(s) = N
      /\ \A k \in 1 .. N : s[k] = text[((k - 1) % m) + 1]
  BY CopiesAre
<1>3. /\ t \in Seq(Alphabet) /\ Len(t) = M
      /\ \A k \in 1 .. M : t[k] = text[((k - 1) % m) + 1]
  BY <1>1, CopiesAre
<1>4. ASSUME NEW j \in 1 .. m PROVE ((N + j - 1) % m) + 1 = j
  <2>1. j - 1 \in 0 .. m - 1 /\ N + j - 1 = m * n + (j - 1)
    OBVIOUS
  <2>2. (m * n + (j - 1)) % m = j - 1
    BY <2>1, Remainder
  <2>. QED
    BY <2>1, <2>2
<1>. HIDE DEF N, M, s, t
<1>5. /\ s \o text \in Seq(Alphabet) /\ Len(s \o text) = M
      /\ \A k \in 1 .. M : (s \o text)[k] = IF k <= N THEN s[k] ELSE text[k - N]
  BY <1>1, <1>2, ConcatProperties
<1>6. ASSUME NEW k \in 1 .. M PROVE t[k] = (s \o text)[k]
  <2>1. CASE k <= N
    <3>1. k \in 1 .. N
      BY <1>1, <2>1
    <3>2. s[k] = text[((k - 1) % m) + 1] /\ t[k] = text[((k - 1) % m) + 1]
      BY <1>2, <1>3, <3>1
    <3>. QED
      BY <1>5, <2>1, <3>2
  <2>2. CASE ~ (k <= N)
    <3>. DEFINE j == k - N
    <3>1. j \in 1 .. m /\ N + j - 1 = k - 1
      BY <1>1, <2>2
    <3>2. (s \o text)[k] = text[j]
      BY <1>5, <2>2
    <3>. HIDE DEF j
    <3>3. ((k - 1) % m) + 1 = j
      BY <1>4, <3>1
    <3>. QED
      BY <1>3, <3>2, <3>3
  <2>. QED
    BY <2>1, <2>2
<1>. DEFINE u == s \o text
<1>. HIDE DEF u
<1>7. t = u
  BY <1>3, <1>5, <1>6, SeqEqual DEF u
<1>. QED
  BY <1>7 DEF t, s, u

LEMMA CopiesFlatten ==
    ASSUME NEW text \in Seq(Alphabet), NEW m \in Nat \ {0}, Len(text) = m, NEW n \in Nat
    PROVE  FlattenSeq([k \in 1 .. n |-> text]) = Copies(text, m, n)
<1>. DEFINE T == Seq(Alphabet)
            seqs == [k \in 1 .. n |-> text]
            f == [i \in 0 .. n |-> Copies(text, m, i)]
<1>1. seqs \in Seq(T) /\ Len(seqs) = n /\ \A k \in 1 .. n : seqs[k] = text
  <2>1. seqs \in [1 .. n -> T] /\ \A k \in 1 .. n : seqs[k] = text
    OBVIOUS
  <2>. HIDE DEF seqs, T
  <2>. QED
    BY <2>1, FunctionIsSeq
<1>. HIDE DEF seqs
<1>2. f \in [0 .. n -> T]
  <2>1. \A i \in 0 .. n : Copies(text, m, i) \in T
    BY CopiesAre
  <2>. QED
    BY <2>1
<1>3. f[0] = <<>>
  <2>1. Copies(text, m, 0) \in Seq(Alphabet) /\ Len(Copies(text, m, 0)) = m * 0
    BY CopiesAre
  <2>2. Copies(text, m, 0) = <<>>
    BY <2>1, EmptyText
  <2>. QED
    BY <2>2
<1>4. ASSUME NEW i \in 1 .. n PROVE f[i] = f[i - 1] \o seqs[i]
  <2>. DEFINE j == i - 1
  <2>1. j \in Nat /\ i = j + 1 /\ j \in 0 .. n /\ i \in 0 .. n
    OBVIOUS
  <2>. HIDE DEF j
  <2>2. Copies(text, m, j + 1) = Copies(text, m, j) \o text
    BY <2>1, OneMoreCopy
  <2>3. f[i] = f[j] \o seqs[i]
    BY <1>1, <2>1, <2>2
  <2>. QED
    BY <2>3 DEF j
<1>5. f[n] = Copies(text, m, n)
  OBVIOUS
<1>. HIDE DEF f, T
<1>6. f \in Concatenations(n, Alphabet, seqs)
  BY <1>2, <1>3, <1>4 DEF Concatenations, T
<1>7. FlattenSeq(seqs) = f[n]
  BY <1>1, <1>6, Flattening DEF T
<1>. QED
  BY <1>5, <1>7 DEF seqs

LEMMA StrrepeatConcatenates ==
    ASSUME NoWrap, IInv, NEW i \in Index, NEW n \in Counts, tn_strrepeat(i, n)
    PROVE  Values!Concatenate
<1>. DEFINE text == Text(strs[i])
            m == strs[i].len
            len == m * n
            chars == [k \in 1 .. len |-> text[((k - 1) % m) + 1]]
            copies == Copies(text, m, n)
            flat == FlattenSeq([k \in 1 .. n |-> text])
<1>1. text \in Seq(Alphabet) /\ Len(text) = m /\ m \in Nat /\ m \in 0 .. MaxText /\ n \in Nat
  BY TextIs, Numbers DEF Slices
<1>2. Values!Calls("strrepeat") /\ Values!String(1) = text /\ Values!Other(1) = n
  <2>1. Calls("strrepeat", <<i>>, <<n>>)
    BY DEF tn_strrepeat
  <2>. QED
    BY <2>1, GivenOne
<1>3. Values!Yields(flat) => Values!Concatenate
  <2>. HIDE DEF text
  <2>1. Values!FlattenSeq([k \in 1 .. Values!Other(1) |-> Values!String(1)]) = flat
    BY <1>2, SameFlatten
  <2>. HIDE DEF flat
  <2>. QED
    BY <1>2, <2>1 DEF Values!Concatenate
<1>4. \/ (n = 0 \/ m = 0) /\ Returns(TN_EMPTY_STRING)
      \/ m # 0 /\ n = 1 /\ Returns(strs[i])
      \/ /\ m # 0
         /\ BuildsCounted(len, copies)
  <2>1. copies = chars
    BY DEF Copies
  <2>. QED
    BY <2>1 DEF tn_strrepeat
<1>5. Returns(strs[i]) => Values!Yields(text)
  BY StringShared
<1>. HIDE DEF text, m, chars, copies
<1>6. m # 0 => /\ copies \in Seq(Alphabet) /\ Len(copies) = len
               /\ flat = copies
  BY <1>1, CopiesAre, CopiesFlatten DEF copies
<1>7. CASE (n = 0 \/ m = 0) /\ Returns(TN_EMPTY_STRING)
  <2>1. flat = <<>>
    <3>1. CASE m # 0
      <4>1. n = 0
        BY <1>7, <3>1
      <4>2. Len(copies) = 0
        BY <1>1, <1>6, <3>1, <4>1
      <4>. QED
        BY <1>6, <3>1, <4>2, EmptyText
    <3>2. CASE m = 0
      <4>. DEFINE seqs == [k \in 1 .. n |-> text]
                  none == [k \in 0 .. n |-> <<>>]
                  T == Seq(Alphabet)
      <4>1. text = <<>> /\ text \o text = text
        BY <1>1, <3>2, EmptyText
      <4>2. seqs \in Seq(T) /\ Len(seqs) = n /\ \A k \in 1 .. n : seqs[k] = text
        <5>1. seqs \in [1 .. n -> T] /\ \A k \in 1 .. n : seqs[k] = text
          BY <1>1
        <5>. HIDE DEF seqs, T
        <5>. QED
          BY <1>1, <5>1, FunctionIsSeq
      <4>. HIDE DEF seqs
      <4>3. none \in Concatenations(n, Alphabet, seqs)
        <5>1. none \in [0 .. n -> T] /\ none[0] = text
          BY <1>1, <4>1, EmptySeq
        <5>2. \A k \in 1 .. n : none[k] = text /\ none[k - 1] = text
          BY <1>1, <4>1
        <5>3. \A k \in 1 .. n : none[k] = none[k - 1] \o seqs[k]
          BY <4>1, <4>2, <5>2
        <5>. HIDE DEF none
        <5>. QED
          BY <4>1, <5>1, <5>3 DEF Concatenations
      <4>4. none[n] = <<>>
        BY <1>1
      <4>. HIDE DEF none
      <4>5. FlattenSeq(seqs) = none[n]
        BY <1>1, <4>2, <4>3, Flattening
      <4>. QED
        BY <4>4, <4>5 DEF seqs
    <3>. QED
      BY <3>1, <3>2
  <2>2. Values!Yields(<<>>)
    BY <1>7, EmptyShared
  <2>. QED
    BY <1>3, <2>1, <2>2
<1>8. CASE m # 0 /\ n = 1 /\ Returns(strs[i])
  <2>1. copies = text
    <3>1. /\ copies \in Seq(Alphabet) /\ Len(copies) = m
          /\ \A k \in 1 .. m : copies[k] = text[((k - 1) % m) + 1]
      <4>1. m * n = m
        BY <1>1, <1>8
      <4>2. len = m
        BY <4>1
      <4>3. m \in Nat \ {0} /\ \A k \in 1 .. len : copies[k] = text[((k - 1) % m) + 1]
        BY <1>1, <1>8, CopiesAre DEF copies
      <4>. HIDE DEF len
      <4>. QED
        BY <1>6, <1>8, <4>2, <4>3
    <3>2. ASSUME NEW k \in 1 .. m PROVE copies[k] = text[k]
      <4>1. k - 1 \in 0 .. m - 1
        BY <1>1
      <4>2. (m * 0 + (k - 1)) % m = k - 1 /\ m * 0 + (k - 1) = k - 1
        BY <1>1, <1>8, <4>1, Remainder
      <4>3. ((k - 1) % m) + 1 = k
        BY <4>2
      <4>. QED
        BY <3>1, <4>3
    <3>. QED
      BY <1>1, <3>1, <3>2, SeqEqual
  <2>. QED
    BY <1>3, <1>5, <1>6, <1>8, <2>1
<1>9. CASE m # 0 /\ BuildsCounted(len, copies)
  <2>1. len \in Nat /\ len + 1 < SizeMod
    <3>1. m <= MaxText /\ (MaxText * n) + 1 < SizeMod /\ MaxText \in Nat
      BY <1>1, Numbers DEF NoWrap
    <3>2. m * n <= MaxText * n
      BY <1>1, <3>1
    <3>. QED
      BY <1>1, <3>1, <3>2, Numbers
  <2>. HIDE DEF len
  <2>3. BuildsText(copies)
    BY <1>6, <1>9, <2>1, Counted DEF BuildsText
  <2>4. Values!Yields(copies)
    BY <1>6, <1>9, <2>3, TextYielded
  <2>. QED
    BY <1>3, <1>6, <1>9, <2>4
<1>. QED
  BY <1>4, <1>7, <1>8, <1>9

-----------------------------------------------------------------------------
(* Parts of a string.                                                      *)

LEMMA LesserIs ==
    ASSUME NEW m \in Nat, NEW n \in Nat
    PROVE  Min({m, n}) = IF m <= n THEN m ELSE n
<1>1. {m, n} \in SUBSET Nat /\ {m, n} # {}
  OBVIOUS
<1>2. Min({m, n}) \in {m, n} /\ Min({m, n}) <= m /\ Min({m, n}) <= n
  BY <1>1, LeastOf
<1>. QED
  BY <1>2

\* Beginnings and ends of a text.
LEMMA Ends ==
    ASSUME NEW text \in Seq(Alphabet), NEW n \in Nat, Len(text) = n
    PROVE  /\ Part(text, 0, n) = text
           /\ \A pos \in 0 .. n : /\ SubSeq(text, 1, pos) = Part(text, 0, pos)
                                  /\ SubSeq(text, pos + 1, n) = Part(text, pos, n - pos)
           /\ \A pos \in Nat : pos >= n => SubSeq(text, pos + 1, n) = <<>>
           /\ Part(text, n, 0) = <<>> /\ Part(text, 0, 0) = <<>>
<1>1. Part(text, 0, n) = text
  BY SubSeqFull DEF Part
<1>2. ASSUME NEW pos \in 0 .. n
      PROVE  /\ SubSeq(text, 1, pos) = Part(text, 0, pos)
             /\ SubSeq(text, pos + 1, n) = Part(text, pos, n - pos)
  <2>1. 0 + 1 = 1 /\ 0 + pos = pos /\ pos + (n - pos) = n
    OBVIOUS
  <2>. QED
    BY <2>1 DEF Part
<1>3. \A pos \in Nat : pos >= n => SubSeq(text, pos + 1, n) = <<>>
  BY SubSeqEmpty
<1>4. Part(text, n, 0) = <<>> /\ Part(text, 0, 0) = <<>>
  BY SubSeqEmpty DEF Part
<1>. QED
  BY <1>1, <1>2, <1>3, <1>4

LEMMA SubstrTakes ==
    ASSUME NoWrap, IInv, NEW i \in Index, NEW pos \in Sizes, NEW len \in Sizes,
           tn_substr(i, pos, len)
    PROVE  Values!Part
<1>. DEFINE text == Text(strs[i])
            n == strs[i].len
            len1 == IF Plus(pos, len) > n THEN n - pos ELSE len
            within == Values!Within(text, pos, len)
            to == Min({pos + len, n})
            part == Slice(strs[i].buf, strs[i].off + pos, len1)
<1>1. /\ text \in Seq(Alphabet) /\ Len(text) = n /\ n \in Nat
      /\ pos \in Nat /\ len \in Nat /\ pos + len < SizeMod
  BY TextIs, Numbers DEF Slices, NoWrap
<1>2. Plus(pos, len) = pos + len
  BY <1>1, Numbers DEF Plus
<1>3. /\ Values!Calls("substr") /\ Values!String(1) = text
      /\ Values!Other(1) = pos /\ Values!Other(2) = len
  <2>1. Calls("substr", <<i>>, <<pos, len>>)
    BY DEF tn_substr
  <2>. QED
    BY <2>1, GivenOne
<1>4. within = SubSeq(text, pos + 1, to)
  <2>1. within = SubSeq(text, pos + 1, Min({pos + len, Len(text)}))
    BY SameBounds DEF Values!Within
  <2>. QED
    BY <1>1, <2>1
<1>5. to = IF pos + len <= n THEN pos + len ELSE n
  BY <1>1, LesserIs
<1>6. /\ (pos >= n \/ len1 = 0) => Returns(TN_EMPTY_STRING)
      /\ ~ (pos >= n \/ len1 = 0) => Returns(part)
  BY DEF tn_substr
<1>7. Values!Yields(within) => Values!Part
  BY <1>3 DEF Values!Part
<1>. HIDE DEF text, n, to, within
<1>8. CASE pos >= n \/ len1 = 0
  <2>1. to < pos + 1
    BY <1>1, <1>2, <1>5, <1>8
  <2>2. to \in Int /\ pos + 1 \in Int
    BY <1>1, <1>5
  <2>3. within = <<>>
    BY <1>4, <2>1, <2>2, SubSeqEmpty
  <2>. QED
    BY <1>6, <1>7, <1>8, <2>3, EmptyShared
<1>9. CASE ~ (pos >= n \/ len1 = 0)
  <2>1. len1 \in Nat /\ pos + len1 <= n /\ pos + len1 = to
    BY <1>1, <1>2, <1>5, <1>9
  <2>2. Returns(part)
    BY <1>6, <1>9
  <2>. HIDE DEF len1
  <2>3. pos + len1 <= strs[i].len
    BY <2>1 DEF n
  <2>4. Values!Yields(Part(Text(strs[i]), pos, len1))
    BY <1>1, <2>1, <2>2, <2>3, PartShared
  <2>5. within = Part(text, pos, len1)
    BY <1>4, <2>1 DEF Part
  <2>. QED
    BY <1>7, <2>4, <2>5 DEF text
<1>. QED
  BY <1>8, <1>9

LEMMA StrcutTakes ==
    ASSUME NoWrap, IInv, NEW i \in Index, NEW pos \in Sizes, NEW len \in Sizes,
           tn_strcut(i, pos, len)
    PROVE  Values!Part
<1>. DEFINE str == strs[i]
            text == Text(str)
            n == str.len
            newlen == (n - len) % SizeMod
            end == pos + len
            before == SubSeq(text, 1, pos)
            after == SubSeq(text, end + 1, n)
            chars == before \o after
            without == Values!Without(text, pos, len)
<1>1. /\ text \in Seq(Alphabet) /\ Len(text) = n /\ n \in Nat /\ n \in 0 .. MaxText
      /\ str.off \in Nat
      /\ pos \in Nat /\ len \in Nat /\ end < SizeMod
  BY TextIs, Numbers DEF Slices, NoWrap
<1>2. Plus(pos, len) = end
  BY <1>1, Numbers DEF Plus
<1>3. /\ Values!Calls("strcut") /\ Values!String(1) = text
      /\ Values!Other(1) = pos /\ Values!Other(2) = len
  <2>1. Calls("strcut", <<i>>, <<pos, len>>)
    BY DEF tn_strcut
  <2>. QED
    BY <2>1, GivenOne
<1>4. without = SubSeq(text, 1, Min({pos, n})) \o after
  <2>1. without = SubSeq(text, 1, Min({pos, Len(text)})) \o SubSeq(text, end + 1, Len(text))
    BY SameBounds DEF Values!Without
  <2>. QED
    BY <1>1, <2>1
<1>5. Min({pos, n}) = IF pos <= n THEN pos ELSE n
  BY <1>1, LesserIs
<1>6. \/ (pos >= n \/ len = 0) /\ Returns(str)
      \/ /\ pos < n /\ end >= n
         /\ Returns(IF pos = 0 THEN TN_EMPTY_STRING ELSE Slice(str.buf, str.off, pos))
      \/ /\ pos < n /\ end < n /\ pos = 0
         /\ Returns(Slice(str.buf, str.off + len, n - len))
      \/ pos < n /\ end < n /\ Builds(newlen + 1, chars, newlen)
  BY <1>2 DEF tn_strcut
<1>7. Values!Yields(without) => Values!Part
  BY <1>3 DEF Values!Part
<1>8. Returns(str) => Values!Yields(text)
  BY StringShared
<1>. HIDE DEF without, text, n
<1>9. CASE (pos >= n \/ len = 0) /\ Returns(str)
  <2>1. without = text
    <3>1. CASE pos >= n
      <4>1. end \in Nat /\ end >= n /\ Min({pos, n}) = n
        BY <1>1, <1>5, <3>1
      <4>2. after = <<>> /\ SubSeq(text, 1, n) = text
        <5>. HIDE DEF end
        <5>. QED
          BY <1>1, <4>1, Ends, SubSeqFull
      <4>. HIDE DEF after
      <4>. QED
        BY <1>1, <1>4, <4>1, <4>2, ConcatEmptySeq
    <3>2. CASE pos < n /\ len = 0
      <4>1. end = pos /\ Min({pos, n}) = pos
        BY <1>1, <1>5, <3>2
      <4>2. without = SubSeq(text, 1, pos) \o SubSeq(text, pos + 1, n)
        BY <1>4, <4>1
      <4>3. 1 \in 1 .. Len(text) + 1 /\ pos \in 1 - 1 .. Len(text) /\ n \in pos .. Len(text)
        BY <1>1, <3>2
      <4>4. without = SubSeq(text, 1, n)
        BY <1>1, <4>2, <4>3, ConcatAdjacentSubSeq
      <4>. QED
        BY <1>1, <4>4, SubSeqFull
    <3>. QED
      BY <1>1, <1>9, <3>1, <3>2
  <2>. QED
    BY <1>7, <1>8, <1>9, <2>1
<1>10. CASE /\ pos < n /\ end >= n
            /\ Returns(IF pos = 0 THEN TN_EMPTY_STRING ELSE Slice(str.buf, str.off, pos))
  <2>1. end \in Nat /\ end >= n /\ Min({pos, n}) = pos /\ pos \in 0 .. n
    BY <1>1, <1>5, <1>10
  <2>7. after = <<>>
    <3>. HIDE DEF end
    <3>. QED
      BY <1>1, <2>1, Ends
  <2>2. before = Part(text, 0, pos)
    BY <1>1, <2>1, Ends
  <2>3. Part(text, 0, pos) \in Seq(Alphabet)
    <3>1. 0 + pos <= Len(text)
      BY <1>1, <1>10
    <3>. QED
      BY <1>1, <3>1, PartIs
  <2>4. without = Part(text, 0, pos)
    <3>1. without = before \o after
      BY <1>4, <2>1
    <3>. HIDE DEF before, after
    <3>. QED
      BY <2>2, <2>3, <2>7, <3>1, ConcatEmptySeq
  <2>5. CASE pos = 0
    <3>1. without = <<>>
      BY <1>1, <2>4, <2>5, Ends
    <3>2. Returns(TN_EMPTY_STRING)
      BY <1>10, <2>5
    <3>. QED
      BY <1>7, <3>1, <3>2, EmptyShared
  <2>6. CASE pos # 0
    <3>. DEFINE none == 0
    <3>1. none + pos <= str.len /\ str.off + none = str.off /\ none \in Nat
      BY <1>1, <1>10 DEF n
    <3>2. Returns(Slice(str.buf, str.off + none, pos))
      BY <1>10, <2>6, <3>1
    <3>. HIDE DEF none
    <3>3. Values!Yields(Part(Text(str), none, pos))
      BY <1>1, <3>1, <3>2, PartShared
    <3>. QED
      BY <1>7, <2>4, <3>3 DEF text, none
  <2>. QED
    BY <2>5, <2>6
<1>11. CASE /\ pos < n /\ end < n /\ pos = 0
            /\ Returns(Slice(str.buf, str.off + len, n - len))
  <2>. DEFINE rest == n - len
  <2>1. rest \in Nat /\ len + rest <= str.len /\ Min({pos, n}) = 0 /\ len \in 0 .. n /\ end = len
    BY <1>1, <1>5, <1>11 DEF n
  <2>2. Part(text, len, rest) \in Seq(Alphabet)
    <3>1. len + rest <= Len(text)
      BY <1>1
    <3>. HIDE DEF rest
    <3>. QED
      BY <1>1, <2>1, <3>1, PartIs
  <2>3. without = Part(text, len, rest)
    <3>1. SubSeq(text, 1, 0) = <<>>
      BY SubSeqEmpty
    <3>2. after = Part(text, len, rest)
      BY <1>1, <2>1, Ends
    <3>3. without = <<>> \o after
      BY <1>4, <2>1, <3>1
    <3>. HIDE DEF after, rest
    <3>. QED
      BY <2>2, <3>2, <3>3, ConcatEmptySeq
  <2>4. Returns(Slice(str.buf, str.off + len, rest))
    BY <1>11
  <2>. HIDE DEF rest
  <2>5. Values!Yields(Part(Text(str), len, rest))
    BY <1>1, <2>1, <2>4, PartShared
  <2>. QED
    BY <1>7, <2>3, <2>5 DEF text
<1>12. CASE pos < n /\ end < n /\ Builds(newlen + 1, chars, newlen)
  <2>1. newlen = n - len /\ newlen \in Nat
    <3>. DEFINE d == n - len
    <3>3. pos \in Nat /\ len \in Nat /\ n \in Nat /\ n <= MaxText /\ pos + len < n
      BY <1>1, <1>12
    <3>1. d \in Nat /\ d <= MaxText
      BY <3>3, Numbers
    <3>. HIDE DEF d
    <3>2. d % SizeMod = d
      BY <3>1, Numbers
    <3>. QED
      BY <3>1, <3>2 DEF d
  <2>2. /\ before \in Seq(Alphabet) /\ Len(before) = pos
        /\ before = SubSeq(text, 1, Min({pos, n}))
    <3>1. 0 + pos <= Len(text) /\ pos \in 0 .. n
      BY <1>1, <1>12
    <3>2. before = Part(text, 0, pos) /\ Min({pos, n}) = pos
      BY <1>1, <1>5, <3>1, Ends
    <3>. HIDE DEF before
    <3>3. Part(text, 0, pos) \in Seq(Alphabet) /\ Len(Part(text, 0, pos)) = pos
      BY <1>1, <3>1, PartIs
    <3>4. before = SubSeq(text, 1, pos)
      BY DEF before
    <3>. QED
      BY <3>2, <3>3, <3>4
  <2>3. after \in Seq(Alphabet) /\ Len(after) = n - end
    <3>. DEFINE rest == n - end
    <3>1. rest \in Nat /\ end + rest <= Len(text) /\ end \in 0 .. n /\ end \in Nat
      BY <1>1, <1>12
    <3>2. after = Part(text, end, rest)
      BY <1>1, <3>1, Ends
    <3>. HIDE DEF rest, after, end
    <3>3. Part(text, end, rest) \in Seq(Alphabet) /\ Len(Part(text, end, rest)) = rest
      BY <1>1, <3>1, PartIs
    <3>. QED
      BY <3>2, <3>3 DEF rest
  <2>. DEFINE rest == n - end
  <2>4. pos + rest = newlen /\ rest \in Int
    BY <1>1, <2>1
  <2>5. without = chars
    BY <1>4, <2>2
  <2>. HIDE DEF before, after, newlen, rest
  <2>6. chars \in Seq(Alphabet) /\ Len(chars) = newlen
    <3>1. chars \in Seq(Alphabet) /\ Len(chars) = Len(before) + Len(after)
      <4>1. before \in Seq(Alphabet) /\ after \in Seq(Alphabet)
        BY <2>2, <2>3
      <4>. QED
        BY <4>1, ConcatProperties
    <3>2. Len(before) = pos /\ Len(after) = rest
      BY <2>2, <2>3 DEF rest
    <3>. HIDE DEF chars
    <3>. QED
      BY <2>4, <3>1, <3>2
  <2>7. Builds(newlen + 1, chars, newlen)
    BY <1>12
  <2>. DEFINE size == newlen + 1
  <2>. HIDE DEF chars
  <2>8. size \in Nat /\ newlen <= Len(chars) /\ Len(chars) <= size
    BY <2>1, <2>6
  <2>9. Builds(size, chars, newlen) /\ newlen \in Nat
    BY <2>1, <2>7
  <2>. HIDE DEF size
  <2>10. Values!Yields(Part(chars, 0, newlen))
    BY <2>6, <2>8, <2>9, Built
  <2>11. Part(chars, 0, newlen) = chars
    BY <2>6, <2>9, Ends
  <2>. QED
    BY <1>7, <2>5, <2>10, <2>11
<1>. QED
  BY <1>6, <1>9, <1>10, <1>11, <1>12

LEMMA PrefixIs ==
    ASSUME NEW s \in Seq(Alphabet), NEW t \in Seq(Alphabet)
    PROVE  Values!IsPrefix(s, t)
               <=> Len(s) <= Len(t) /\ \A k \in 1 .. Len(s) : s[k] = t[k]
<1>. DEFINE n == Len(s)
<1>1. n \in Nat /\ Len(t) \in Nat
  BY LenProperties
<1>2. Values!IsPrefix(s, t) <=> n <= Len(t) /\ s = SubSeq(t, 1, n)
  BY SubSeqFull DEF Values!IsPrefix
<1>. HIDE DEF n
<1>3. CASE n <= Len(t)
  <2>1. 0 + n <= Len(t) /\ n \in 0 .. Len(t)
    BY <1>1, <1>3
  <2>2. SubSeq(t, 1, n) = Part(t, 0, n)
    BY <1>1, <2>1, Ends
  <2>3. /\ Part(t, 0, n) \in Seq(Alphabet) /\ Len(Part(t, 0, n)) = n
        /\ \A k \in 1 .. n : Part(t, 0, n)[k] = t[0 + k]
    BY <1>1, <2>1, PartIs
  <2>4. \A k \in 1 .. n : 0 + k = k
    BY <1>1
  <2>5. \A k \in 1 .. n : Part(t, 0, n)[k] = t[k]
    BY <2>3, <2>4
  <2>6. s = Part(t, 0, n) <=> \A k \in 1 .. n : s[k] = t[k]
    <3>1. ASSUME \A k \in 1 .. n : s[k] = t[k] PROVE s = Part(t, 0, n)
      <4>1. \A k \in 1 .. n : s[k] = Part(t, 0, n)[k]
        BY <2>5, <3>1
      <4>. QED
        BY <2>3, <4>1, SeqEqual DEF n
    <3>2. ASSUME s = Part(t, 0, n) PROVE \A k \in 1 .. n : s[k] = t[k]
      BY <2>5, <3>2
    <3>. QED
      BY <3>1, <3>2
  <2>. QED
    BY <1>2, <1>3, <2>2, <2>6 DEF n
<1>. QED
  BY <1>2, <1>3 DEF n

\* Texts that agree on their first n characters, and then not or no more.
AgreeUpTo(text1, text2, n) ==
    /\ n <= Len(text1) /\ n <= Len(text2)
    /\ \A k \in 1 .. n : text1[k] = text2[k]
    /\ n < Len(text1) /\ n < Len(text2) => text1[n + 1] # text2[n + 1]

LEMMA CommonPrefixesAre ==
    ASSUME NEW text1 \in Seq(Alphabet), NEW text2 \in Seq(Alphabet), NEW n \in Nat,
           AgreeUpTo(text1, text2, n)
    PROVE  Values!CommonPrefixes({text1, text2}) = {Part(text1, 0, l) : l \in 0 .. n}
<1>. DEFINE P(text) == {SubSeq(text, 1, l) : l \in 0 .. Len(text)}
            C == {p \in P(text1) \cup P(text2) :
                      Values!IsPrefix(p, text1) /\ Values!IsPrefix(p, text2)}
            D == {Part(text1, 0, l) : l \in 0 .. n}
<1>1. /\ n <= Len(text1) /\ n <= Len(text2)
      /\ \A k \in 1 .. n : text1[k] = text2[k]
      /\ n < Len(text1) /\ n < Len(text2) => text1[n + 1] # text2[n + 1]
  BY DEF AgreeUpTo
<1>2. Len(text1) \in Nat /\ Len(text2) \in Nat
  BY LenProperties
<1>3. Values!CommonPrefixes({text1, text2}) = C
  BY DEF Values!CommonPrefixes, Values!Prefixes
<1>4. ASSUME NEW text \in Seq(Alphabet), NEW l \in 0 .. Len(text)
      PROVE  /\ SubSeq(text, 1, l) = Part(text, 0, l)
             /\ Part(text, 0, l) \in Seq(Alphabet) /\ Len(Part(text, 0, l)) = l
             /\ \A k \in 1 .. l : Part(text, 0, l)[k] = text[k]
  <2>1. l \in Nat /\ Len(text) \in Nat /\ 0 + l <= Len(text) /\ \A k \in 1 .. l : 0 + k = k
    BY LenProperties
  <2>2. SubSeq(text, 1, l) = Part(text, 0, l)
    BY <2>1, Ends
  <2>3. /\ Part(text, 0, l) \in Seq(Alphabet) /\ Len(Part(text, 0, l)) = l
        /\ \A k \in 1 .. l : Part(text, 0, l)[k] = text[0 + k]
    BY <2>1, PartIs
  <2>. QED
    BY <2>1, <2>2, <2>3
<1>5. ASSUME NEW l \in 0 .. n PROVE Part(text1, 0, l) \in C
  <2>1. l \in 0 .. Len(text1) /\ l <= Len(text1) /\ l <= Len(text2)
        /\ \A k \in 1 .. l : k \in 1 .. n
    BY <1>1, <1>2
  <2>. DEFINE p == Part(text1, 0, l)
  <2>2. /\ p = SubSeq(text1, 1, l) /\ p \in Seq(Alphabet) /\ Len(p) = l
        /\ \A k \in 1 .. l : p[k] = text1[k]
    BY <1>4, <2>1
  <2>3. p \in P(text1)
    BY <2>1, <2>2
  <2>. HIDE DEF p, P
  <2>4. Values!IsPrefix(p, text1)
    BY <2>1, <2>2, PrefixIs
  <2>5. \A k \in 1 .. l : p[k] = text2[k]
    BY <1>1, <2>1, <2>2
  <2>6. Values!IsPrefix(p, text2)
    BY <2>1, <2>2, <2>5, PrefixIs
  <2>. QED
    BY <2>3, <2>4, <2>6 DEF p
<1>6. ASSUME NEW p \in C PROVE \E l \in 0 .. n : p = Part(text1, 0, l)
  <2>1. p \in Seq(Alphabet)
    <3>1. PICK text \in {text1, text2} : \E l \in 0 .. Len(text) : p = SubSeq(text, 1, l)
      OBVIOUS
    <3>. QED
      BY <1>4, <3>1
  <2>. DEFINE l == Len(p)
  <2>2. Values!IsPrefix(p, text1) /\ Values!IsPrefix(p, text2)
    OBVIOUS
  <2>3. /\ l \in Nat /\ l <= Len(text1) /\ l <= Len(text2)
        /\ \A k \in 1 .. l : p[k] = text1[k]
        /\ \A k \in 1 .. l : p[k] = text2[k]
    BY <2>1, <2>2, PrefixIs, LenProperties
  <2>4. l \in 0 .. Len(text1)
    BY <1>2, <2>3
  <2>5. p = Part(text1, 0, l)
    <3>. DEFINE q == Part(text1, 0, l)
    <3>. HIDE DEF l, C
    <3>1. q \in Seq(Alphabet) /\ Len(q) = l /\ \A k \in 1 .. l : q[k] = text1[k]
      BY <1>4, <2>4
    <3>. HIDE DEF q
    <3>2. p = q
      BY <2>1, <2>3, <3>1, SeqEqual DEF l
    <3>. QED
      BY <3>2 DEF q
  <2>6. l <= n
    <3>1. ASSUME l > n PROVE FALSE
      <4>1. n + 1 \in 1 .. l /\ n < Len(text1) /\ n < Len(text2)
        BY <1>2, <2>3, <3>1
      <4>. HIDE DEF l
      <4>. QED
        BY <1>1, <2>3, <4>1
    <3>. QED
      BY <2>3, <3>1
  <2>7. l \in 0 .. n
    BY <2>3, <2>6
  <2>. QED
    BY <2>5, <2>7
<1>. HIDE DEF C
<1>7. C = D
  BY <1>5, <1>6
<1>. QED
  BY <1>3, <1>7

LEMMA LongestCommonPrefixIs ==
    ASSUME NEW text1 \in Seq(Alphabet), NEW text2 \in Seq(Alphabet), NEW n \in Nat,
           AgreeUpTo(text1, text2, n)
    PROVE  Values!LongestCommonPrefix({text1, text2}) = Part(text1, 0, n)
<1>. DEFINE C == Values!CommonPrefixes({text1, text2})
            longest == Values!LongestCommonPrefix({text1, text2})
            Longest(p) == \A other \in C : Len(other) <= Len(p)
            part == Part(text1, 0, n)
<1>1. C = {Part(text1, 0, l) : l \in 0 .. n}
  BY CommonPrefixesAre
<1>2. ASSUME NEW l \in 0 .. n PROVE Len(Part(text1, 0, l)) = l
  <2>1. 0 + l <= Len(text1) /\ l \in Nat
    BY LenProperties DEF AgreeUpTo
  <2>. QED
    BY <2>1, PartIs
<1>3. longest = CHOOSE p \in C : Longest(p)
  BY DEF Values!LongestCommonPrefix
<1>. HIDE DEF C, longest
<1>4. part \in C /\ Len(part) = n
  BY <1>1, <1>2
<1>5. \A p \in C : Len(p) <= n /\ (Len(p) = n => p = part)
  <2>1. ASSUME NEW p \in C PROVE Len(p) <= n /\ (Len(p) = n => p = part)
    <3>1. PICK l \in 0 .. n : p = Part(text1, 0, l)
      BY <1>1
    <3>. QED
      BY <1>2, <3>1
  <2>. QED
    BY <2>1
<1>6. \A p \in C : Len(p) \in Nat
  <2>1. ASSUME NEW p \in C PROVE Len(p) \in Nat
    <3>1. PICK l \in 0 .. n : p = Part(text1, 0, l)
      BY <1>1
    <3>. QED
      BY <1>2, <3>1
  <2>. QED
    BY <2>1
<1>. HIDE DEF part
<1>7. Longest(part)
  BY <1>4, <1>5
<1>8. longest \in C /\ Longest(longest)
  BY <1>3, <1>4, <1>7
<1>9. Len(longest) = n
  BY <1>4, <1>5, <1>6, <1>8
<1>10. longest = part
  BY <1>5, <1>8, <1>9
<1>. QED
  BY <1>10 DEF longest, part

LEMMA ReverseIs ==
    ASSUME NEW s \in Seq(Alphabet), NEW n \in Nat, Len(s) = n
    PROVE  /\ Values!Reverse(s) \in Seq(Alphabet)
           /\ Len(Values!Reverse(s)) = n
           /\ \A k \in 1 .. n : Values!Reverse(s)[k] = s[n - k + 1]
<1>. DEFINE t == Values!Reverse(s)
<1>1. t = [k \in 1 .. n |-> s[n - k + 1]]
  BY DEF Values!Reverse
<1>. HIDE DEF t
<1>2. \A k \in 1 .. n : s[n - k + 1] \in Alphabet
  <2>1. \A k \in 1 .. n : n - k + 1 \in 1 .. n
    OBVIOUS
  <2>. QED
    BY <2>1, ElementOfSeq
<1>3. t \in [1 .. n -> Alphabet]
  BY <1>1, <1>2
<1>4. t \in Seq(Alphabet) /\ Len(t) = n
  BY <1>3, FunctionIsSeq
<1>. QED
  BY <1>1, <1>4 DEF t

\* Where a loop over two texts stops.
LEMMA AgreementIs ==
    ASSUME NEW text1 \in Seq(Alphabet), NEW text2 \in Seq(Alphabet)
    PROVE  LET minlen == Min({Len(text1), Len(text2)})
               n == StopsAt(0, minlen, LAMBDA k : text1[k + 1] # text2[k + 1])
           IN  n \in Nat /\ n <= minlen /\ AgreeUpTo(text1, text2, n)
<1>. DEFINE minlen == Min({Len(text1), Len(text2)})
            S == {k \in 0 .. minlen - 1 : text1[k + 1] # text2[k + 1]}
            n == Min(S \cup {minlen})
<1>1. StopsAt(0, minlen, LAMBDA k : text1[k + 1] # text2[k + 1]) = n
  BY DEF StopsAt
<1>2. Len(text1) \in Nat /\ Len(text2) \in Nat
  BY LenProperties
<1>3. minlen = IF Len(text1) <= Len(text2) THEN Len(text1) ELSE Len(text2)
  BY <1>2, LesserIs
<1>4. S \in SUBSET (0 .. minlen - 1) /\ minlen \in Nat
  BY <1>2, <1>3
<1>5. \A k \in 0 .. minlen - 1 : k \in S <=> text1[k + 1] # text2[k + 1]
  OBVIOUS
<1>. HIDE DEF S, minlen
<1>6. n \in 0 .. minlen /\ (\A m \in S : n <= m) /\ (n < minlen => n \in S)
  <2>1. 0 <= minlen /\ 0 \in Nat
    BY <1>4
  <2>. QED
    BY <1>4, <2>1, StopsThere
<1>. HIDE DEF n
<1>7. ASSUME NEW k \in 1 .. n PROVE text1[k] = text2[k]
  <2>1. k - 1 \in 0 .. minlen - 1 /\ (k - 1) + 1 = k /\ ~ (n <= k - 1)
    BY <1>4, <1>6
  <2>2. k - 1 \notin S
    BY <1>6, <2>1
  <2>. QED
    BY <1>5, <2>1, <2>2
<1>8. ASSUME n < Len(text1), n < Len(text2) PROVE text1[n + 1] # text2[n + 1]
  <2>1. n < minlen /\ n \in 0 .. minlen - 1
    BY <1>2, <1>3, <1>4, <1>6, <1>8
  <2>. QED
    BY <1>5, <1>6, <2>1
<1>9. n \in Nat /\ n <= minlen /\ n <= Len(text1) /\ n <= Len(text2)
  BY <1>2, <1>3, <1>4, <1>6
<1>10. AgreeUpTo(text1, text2, n)
  BY <1>7, <1>8, <1>9 DEF AgreeUpTo
<1>. QED
  BY <1>1, <1>9, <1>10 DEF minlen

LEMMA PrefixTakes ==
    ASSUME IInv, NEW i \in Index, NEW j \in Index, tn_strlcprefix(i, j)
    PROVE  Values!Part
<1>. DEFINE text1 == Text(strs[i])
            text2 == Text(strs[j])
            str == strs[i]
            n == StopsAt(0, Min({Len(text1), Len(text2)}),
                         LAMBDA k : text1[k + 1] # text2[k + 1])
            longest == Values!LongestCommonPrefix({text1, text2})
            none == 0
<1>1. /\ text1 \in Seq(Alphabet) /\ text2 \in Seq(Alphabet)
      /\ Len(text1) = str.len /\ str.off \in Nat /\ str.len \in Nat
  BY TextIs DEF Slices
<1>2. /\ Values!Calls("strlcprefix")
      /\ Values!String(1) = text1 /\ Values!String(2) = text2
  BY GivenTwo DEF tn_strlcprefix
<1>3. Values!Yields(longest) => Values!Part
  BY <1>2 DEF Values!Part
<1>4. Returns(IF n = 0 THEN TN_EMPTY_STRING ELSE Slice(str.buf, str.off, n))
  BY DEF tn_strlcprefix
<1>5. n \in Nat /\ AgreeUpTo(text1, text2, n)
  BY <1>1, AgreementIs
<1>. HIDE DEF n, longest, text1, text2
<1>6. longest = Part(text1, none, n) /\ n <= str.len
  BY <1>1, <1>5, LongestCommonPrefixIs DEF longest, AgreeUpTo
<1>7. CASE n = 0
  <2>1. longest = <<>>
    BY <1>1, <1>6, <1>7, Ends
  <2>2. Returns(TN_EMPTY_STRING)
    BY <1>4, <1>7
  <2>. QED
    BY <1>3, <2>1, <2>2, EmptyShared
<1>8. CASE n # 0
  <2>1. none + n <= str.len /\ str.off + none = str.off /\ none \in Nat
    BY <1>1, <1>5, <1>6
  <2>2. Returns(Slice(str.buf, str.off + none, n))
    BY <1>4, <1>8, <2>1
  <2>. HIDE DEF none
  <2>3. Values!Yields(Part(Text(str), none, n))
    BY <1>5, <2>1, <2>2, PartShared
  <2>. QED
    BY <1>3, <1>6, <2>3 DEF text1
<1>. QED
  BY <1>7, <1>8

\* What two texts have in common at the end, they have at the beginning when
\* they are reversed.
LEMMA ReversedAgreement ==
    ASSUME NEW text1 \in Seq(Alphabet), NEW text2 \in Seq(Alphabet)
    PROVE  LET minlen == Min({Len(text1), Len(text2)})
               n == StopsAt(0, minlen,
                            LAMBDA k : text1[Len(text1) - k] # text2[Len(text2) - k])
           IN  n \in Nat /\ n <= minlen
               /\ AgreeUpTo(Values!Reverse(text1), Values!Reverse(text2), n)
<1>. DEFINE len1 == Len(text1)
            len2 == Len(text2)
            rev1 == Values!Reverse(text1)
            rev2 == Values!Reverse(text2)
            minlen == Min({len1, len2})
            S == {k \in 0 .. minlen - 1 : text1[len1 - k] # text2[len2 - k]}
            R == {k \in 0 .. minlen - 1 : rev1[k + 1] # rev2[k + 1]}
<1>1. len1 \in Nat /\ len2 \in Nat
  BY LenProperties
<1>2. /\ rev1 \in Seq(Alphabet) /\ Len(rev1) = len1
      /\ \A k \in 1 .. len1 : rev1[k] = text1[len1 - k + 1]
  BY <1>1, ReverseIs
<1>3. /\ rev2 \in Seq(Alphabet) /\ Len(rev2) = len2
      /\ \A k \in 1 .. len2 : rev2[k] = text2[len2 - k + 1]
  BY <1>1, ReverseIs
<1>4. minlen = IF len1 <= len2 THEN len1 ELSE len2
  BY <1>1, LesserIs
<1>5. StopsAt(0, minlen, LAMBDA k : text1[len1 - k] # text2[len2 - k]) = Min(S \cup {minlen})
  BY DEF StopsAt
<1>. HIDE DEF len1, len2, rev1, rev2, minlen
<1>6. S = R
  <2>1. ASSUME NEW k \in 0 .. minlen - 1
        PROVE  rev1[k + 1] = text1[len1 - k] /\ rev2[k + 1] = text2[len2 - k]
    <3>1. /\ k + 1 \in 1 .. len1 /\ len1 - (k + 1) + 1 = len1 - k
          /\ k + 1 \in 1 .. len2 /\ len2 - (k + 1) + 1 = len2 - k
      BY <1>1, <1>4
    <3>. QED
      BY <1>2, <1>3, <3>1
  <2>. QED
    BY <2>1
<1>7. /\ StopsAt(0, minlen, LAMBDA k : rev1[k + 1] # rev2[k + 1]) = Min(R \cup {minlen})
  BY DEF StopsAt
<1>8. /\ StopsAt(0, minlen, LAMBDA k : rev1[k + 1] # rev2[k + 1]) \in Nat
      /\ StopsAt(0, minlen, LAMBDA k : rev1[k + 1] # rev2[k + 1]) <= minlen
      /\ AgreeUpTo(rev1, rev2, StopsAt(0, minlen, LAMBDA k : rev1[k + 1] # rev2[k + 1]))
  BY <1>2, <1>3, AgreementIs DEF minlen
<1>. DEFINE n == Min(R \cup {minlen})
<1>9. n \in Nat /\ n <= minlen /\ AgreeUpTo(rev1, rev2, n)
  BY <1>7, <1>8
<1>10. StopsAt(0, minlen, LAMBDA k : text1[len1 - k] # text2[len2 - k]) = n
  BY <1>5, <1>6
<1>. HIDE DEF n
<1>. QED
  BY <1>9, <1>10 DEF minlen, len1, len2, rev1, rev2

LEMMA SuffixTakes ==
    ASSUME IInv, NEW i \in Index, NEW j \in Index, tn_strlcsuffix(i, j)
    PROVE  Values!Part
<1>. DEFINE text1 == Text(strs[i])
            text2 == Text(strs[j])
            rev1 == Values!Reverse(text1)
            rev2 == Values!Reverse(text2)
            str == strs[i]
            n == StopsAt(0, Min({Len(text1), Len(text2)}),
                         LAMBDA k : text1[Len(text1) - k] # text2[Len(text2) - k])
            common == Values!Reverse(Values!LongestCommonPrefix({rev1, rev2}))
            len == str.len
            from == len - n
<1>1. /\ text1 \in Seq(Alphabet) /\ text2 \in Seq(Alphabet)
      /\ Len(text1) = len /\ str.off \in Nat /\ len \in Nat
  BY TextIs DEF Slices
<1>2. /\ Values!Calls("strlcsuffix")
      /\ Values!String(1) = text1 /\ Values!String(2) = text2
  BY GivenTwo DEF tn_strlcsuffix
<1>3. Values!Yields(common) => Values!Part
  BY <1>2 DEF Values!Part
<1>4. Returns(IF n = 0 THEN TN_EMPTY_STRING
              ELSE Slice(str.buf, str.off + len - n, n))
  BY DEF tn_strlcsuffix
<1>5. n \in Nat /\ AgreeUpTo(rev1, rev2, n)
  BY <1>1, ReversedAgreement
<1>6. /\ rev1 \in Seq(Alphabet) /\ Len(rev1) = len
      /\ \A k \in 1 .. len : rev1[k] = text1[len - k + 1]
  BY <1>1, ReverseIs
<1>7. rev2 \in Seq(Alphabet)
  BY <1>1, ReverseIs, LenProperties
<1>. HIDE DEF n, rev1, rev2, text1, text2, len
<1>8. n <= len
  BY <1>5, <1>6 DEF AgreeUpTo
<1>9. from \in Nat /\ from + n = len
  BY <1>1, <1>5, <1>8
<1>. DEFINE prefix == Part(rev1, 0, n)
<1>10. Values!LongestCommonPrefix({rev1, rev2}) = prefix
  BY <1>5, <1>6, <1>7, LongestCommonPrefixIs
<1>11. common = Part(text1, from, n)
  <2>1. /\ prefix \in Seq(Alphabet) /\ Len(prefix) = n
        /\ \A k \in 1 .. n : prefix[k] = rev1[0 + k]
    <3>1. 0 + n <= Len(rev1)
      BY <1>5, <1>6, <1>8
    <3>. QED
      BY <1>5, <1>6, <3>1, PartIs
  <2>. DEFINE rev == Values!Reverse(prefix)
              part == Part(text1, from, n)
  <2>. HIDE DEF prefix
  <2>2. /\ rev \in Seq(Alphabet) /\ Len(rev) = n
        /\ \A k \in 1 .. n : rev[k] = prefix[n - k + 1]
    BY <1>5, <2>1, ReverseIs
  <2>. HIDE DEF rev, from
  <2>3. /\ part \in Seq(Alphabet) /\ Len(part) = n
        /\ \A k \in 1 .. n : part[k] = text1[from + k]
    <3>1. from + n <= Len(text1)
      BY <1>1, <1>9
    <3>. QED
      BY <1>1, <1>5, <1>9, <3>1, PartIs
  <2>. HIDE DEF part
  <2>4. ASSUME NEW k \in 1 .. n PROVE rev[k] = part[k]
    <3>1. /\ n - k + 1 \in 1 .. n /\ 0 + (n - k + 1) = n - k + 1
          /\ n - k + 1 \in 1 .. len
          /\ len - (n - k + 1) + 1 = from + k
      BY <1>1, <1>5, <1>8, <1>9
    <3>2. rev[k] = prefix[n - k + 1] /\ part[k] = text1[from + k]
      BY <2>2, <2>3
    <3>. DEFINE m == n - k + 1
    <3>3. m \in 1 .. n /\ m \in 1 .. len /\ 0 + m = m
      BY <3>1
    <3>4. len - m + 1 = from + k
      BY <3>1
    <3>. HIDE DEF m
    <3>5. prefix[m] = text1[from + k]
      BY <1>6, <2>1, <3>3, <3>4
    <3>. QED
      BY <3>2, <3>5 DEF m
  <2>5. rev = part
    BY <2>2, <2>3, <2>4, SeqEqual
  <2>. QED
    BY <1>10, <2>5 DEF rev, part
<1>. HIDE DEF common, prefix
<1>12. CASE n = 0
  <2>1. common = <<>>
    <3>1. common = Part(text1, len, 0)
      BY <1>1, <1>11, <1>12
    <3>. QED
      BY <1>1, <3>1, Ends
  <2>2. Returns(TN_EMPTY_STRING)
    BY <1>4, <1>12
  <2>. QED
    BY <1>3, <2>1, <2>2, EmptyShared
<1>13. CASE n # 0
  <2>1. str.off + len - n = str.off + from /\ from + n <= str.len
    BY <1>1, <1>5, <1>9 DEF len
  <2>2. Returns(Slice(str.buf, str.off + from, n))
    BY <1>4, <1>13, <2>1
  <2>. HIDE DEF from
  <2>3. Values!Yields(Part(Text(str), from, n))
    BY <1>5, <1>9, <2>1, <2>2, PartShared
  <2>. QED
    BY <1>3, <1>11, <2>3 DEF text1
<1>. QED
  BY <1>12, <1>13

-----------------------------------------------------------------------------
(* Callbacks on every character, and tokens.                               *)

LEMMA StrmapMaps ==
    ASSUME IInv, NEW i \in Index, NEW func \in Maps, tn_strmap(i, func)
    PROVE  Values!EachChar
<1>. DEFINE text == Text(strs[i])
            len == Len(text)
            size == len + 1
            cells == [k \in DOMAIN text |-> func[text[k]]]
<1>1. text \in Seq(Alphabet) /\ len \in Nat
  BY TextIs DEF Slices
<1>2. DOMAIN text = 1 .. len /\ \A k \in 1 .. len : text[k] \in Alphabet
  BY <1>1, LenProperties, ElementOfSeq
<1>3. func \in [Alphabet -> Alphabet]
  BY TextsAssumption
<1>4. Values!Calls("strmap") /\ Values!String(1) = text /\ Values!Other(1) = func
  <2>1. Calls("strmap", <<i>>, <<func>>)
    BY DEF tn_strmap
  <2>. QED
    BY <2>1, GivenOne
<1>5. Values!Yields(cells) => Values!EachChar
  BY <1>4 DEF Values!EachChar
<1>6. IF text = <<>> THEN Returns(TN_EMPTY_STRING) ELSE Builds(size, cells, len)
  BY DEF tn_strmap
<1>7. cells \in [1 .. len -> Alphabet]
  BY <1>2, <1>3
<1>. HIDE DEF len, cells
<1>8. cells \in Seq(Alphabet) /\ Len(cells) = len
  BY <1>1, <1>7, FunctionIsSeq
<1>9. CASE text = <<>>
  <2>1. len = 0
    BY <1>1, <1>9, EmptyText DEF len
  <2>2. cells = <<>>
    BY <1>8, <2>1, EmptyText
  <2>3. Returns(TN_EMPTY_STRING)
    BY <1>6, <1>9
  <2>. QED
    BY <1>5, <2>2, <2>3, EmptyShared
<1>10. CASE text # <<>>
  <2>1. Builds(size, cells, len)
    BY <1>6, <1>10
  <2>2. size \in Nat /\ len <= Len(cells) /\ Len(cells) <= size
    BY <1>1, <1>8
  <2>. HIDE DEF size, text
  <2>3. Values!Yields(Part(cells, 0, len))
    BY <1>1, <1>8, <2>1, <2>2, Built
  <2>4. Part(cells, 0, len) = cells
    BY <1>1, <1>8, Ends
  <2>. QED
    BY <1>5, <2>3, <2>4
<1>. QED
  BY <1>9, <1>10

\* What a filter keeps.
LEMMA FilterIs ==
    ASSUME NEW text \in Seq(Alphabet), NEW predicate
    PROVE  FlattenSeq([k \in DOMAIN text |->
                           IF text[k] \in predicate THEN <<text[k]>> ELSE <<>>])
               = Kept(text, predicate)[Len(text)]
<1>. DEFINE n == Len(text)
            T == Seq(Alphabet)
            kept == Kept(text, predicate)
            seqs == [k \in DOMAIN text |->
                         IF text[k] \in predicate THEN <<text[k]>> ELSE <<>>]
<1>1. n \in Nat /\ DOMAIN text = 1 .. n /\ \A k \in 1 .. n : text[k] \in Alphabet
  BY LenProperties, ElementOfSeq
<1>2. \A k \in 1 .. n : <<text[k]>> \in T
  BY <1>1, OneAndTwo
<1>3. seqs = [k \in 1 .. n |-> IF text[k] \in predicate THEN <<text[k]>> ELSE <<>>]
  BY <1>1
<1>4. <<>> \in T
  BY EmptySeq
<1>5. \A i \in 0 .. n :
          kept[i] = IF i = 0 THEN <<>>
                    ELSE IF text[i] \in predicate THEN Append(kept[i - 1], text[i])
                         ELSE kept[i - 1]
  BY KeptAre
<1>. HIDE DEF n, T, kept, seqs
<1>6. seqs \in [1 .. n -> T]
  BY <1>2, <1>3, <1>4
<1>7. seqs \in Seq(T) /\ Len(seqs) = n
  BY <1>1, <1>6, FunctionIsSeq
<1>8. PICK f : f \in Concatenations(n, Alphabet, seqs)
  BY <1>1, <1>7, Flattening DEF T
<1>9. FlattenSeq(seqs) = f[n]
  BY <1>1, <1>7, <1>8, Flattening DEF T
<1>10. /\ \A i \in 0 .. n : f[i] \in T
       /\ f[0] = <<>> /\ \A i \in 1 .. n : f[i] = f[i - 1] \o seqs[i]
  BY <1>8 DEF Concatenations, T
<1>11. ASSUME NEW i \in 1 .. n, f[i - 1] = kept[i - 1] PROVE f[i] = kept[i]
  <2>. DEFINE s == f[i - 1]
              c == text[i]
  <2>1. i \in 0 .. n /\ i # 0 /\ i - 1 \in 0 .. n
    BY <1>1
  <2>2. s \in T /\ c \in Alphabet
    BY <1>1, <1>10, <2>1
  <2>3. f[i] = s \o seqs[i]
    BY <1>10
  <2>4. seqs[i] = IF c \in predicate THEN <<c>> ELSE <<>>
    BY <1>3
  <2>5. kept[i] = IF c \in predicate THEN Append(s, c) ELSE s
    BY <1>5, <1>11, <2>1
  <2>. HIDE DEF s, c
  <2>6. Append(s, c) = s \o <<c>> /\ s \o <<>> = s
    BY <2>2, AppendIsConcat, ConcatEmptySeq DEF T
  <2>. QED
    BY <2>3, <2>4, <2>5, <2>6
<1>12. f[0] = kept[0]
  <2>1. 0 \in 0 .. n
    BY <1>1
  <2>. QED
    BY <1>5, <1>10, <2>1
<1>13. Alike(n, f, kept)
  BY <1>11, <1>12 DEF Alike
<1>14. f[n] = kept[n]
  BY <1>1, <1>13, AlikeAgree
<1>. QED
  BY <1>9, <1>14 DEF seqs, kept, n

LEMMA StrfilterFilters ==
    ASSUME IInv, NEW i \in Index, NEW predicate, tn_strfilter(i, predicate)
    PROVE  Values!EachChar
<1>. DEFINE text == Text(strs[i])
            chars == Kept(text, predicate)[Len(text)]
            seqs == [k \in DOMAIN text |->
                         IF text[k] \in predicate THEN <<text[k]>> ELSE <<>>]
<1>1. text \in Seq(Alphabet) /\ Len(text) = strs[i].len
  BY TextIs
<1>2. /\ Values!Calls("strfilter") /\ Values!String(1) = text
      /\ Values!Other(1) = predicate
  <2>1. Calls("strfilter", <<i>>, <<predicate>>)
    BY DEF tn_strfilter
  <2>. QED
    BY <2>1, GivenOne
<1>3. IF Len(text) = 0 THEN Returns(TN_EMPTY_STRING) ELSE BuildsText(chars)
  BY <1>1 DEF tn_strfilter
<1>. HIDE DEF text
<1>4. Values!Yields(FlattenSeq(seqs)) => Values!EachChar
  <2>1. [k \in DOMAIN Values!String(1) |->
             IF Values!String(1)[k] \in Values!Other(1) THEN <<Values!String(1)[k]>>
                                                        ELSE <<>>] = seqs
    BY <1>2
  <2>. HIDE DEF seqs
  <2>. QED
    BY <1>2, <2>1, SameFlatten DEF Values!EachChar
<1>5. FlattenSeq(seqs) = chars
  BY <1>1, FilterIs
<1>6. chars \in Seq(Alphabet) /\ Len(chars) <= Len(text)
  BY <1>1, KeptIs
<1>. HIDE DEF seqs, chars
<1>7. CASE Len(text) = 0
  <2>1. Len(chars) = 0
    BY <1>6, <1>7, LenProperties
  <2>2. chars = <<>> /\ Returns(TN_EMPTY_STRING)
    BY <1>3, <1>6, <1>7, <2>1, EmptyText
  <2>. QED
    BY <1>4, <1>5, <2>2, EmptyShared
<1>8. CASE Len(text) # 0
  BY <1>3, <1>4, <1>5, <1>6, <1>8, TextYielded
<1>. QED
  BY <1>7, <1>8

\* The texts of slices that one is added to.
LEMMA TextsOfMore ==
    ASSUME NEW S, NEW s \in Seq(S), NEW str \in S,
           \A k \in DOMAIN s : TextIn(heap, s[k]) \in Seq(Alphabet),
           TextIn(heap, str) \in Seq(Alphabet)
    PROVE  [k \in DOMAIN Append(s, str) |-> TextIn(heap, Append(s, str)[k])]
               = Append([k \in DOMAIN s |-> TextIn(heap, s[k])], TextIn(heap, str))
<1>. DEFINE n == Len(s)
            T == Seq(Alphabet)
            more == Append(s, str)
            text == TextIn(heap, str)
            old == [k \in DOMAIN s |-> TextIn(heap, s[k])]
            new == [k \in DOMAIN more |-> TextIn(heap, more[k])]
<1>1. n \in Nat /\ DOMAIN s = 1 .. n
  BY LenProperties
<1>2. /\ DOMAIN more = 1 .. n + 1
      /\ \A k \in 1 .. n : more[k] = s[k]
      /\ more[n + 1] = str
  BY <1>1, AppendProperties, LenProperties
<1>3. old \in Seq(T) /\ Len(old) = n /\ \A k \in 1 .. n : old[k] = TextIn(heap, s[k])
  <2>1. old \in [1 .. n -> T] /\ \A k \in 1 .. n : old[k] = TextIn(heap, s[k])
    BY <1>1
  <2>. HIDE DEF old, T, n
  <2>. QED
    BY <1>1, <2>1, FunctionIsSeq
<1>4. text \in T
  OBVIOUS
<1>. HIDE DEF n, T, more, text, old
<1>5. \A k \in 1 .. n + 1 : k \in 1 .. n \/ k = n + 1
  BY <1>1
<1>6. /\ \A k \in 1 .. n : new[k] = old[k]
      /\ new[n + 1] = text
      /\ new = [k \in 1 .. n + 1 |-> TextIn(heap, more[k])]
  BY <1>1, <1>2, <1>3 DEF text
<1>7. \A k \in 1 .. n + 1 : TextIn(heap, more[k]) \in T
  <2>1. \A k \in 1 .. n : TextIn(heap, s[k]) \in T
    BY <1>1 DEF T
  <2>. QED
    BY <1>2, <1>4, <1>5, <2>1 DEF text
<1>. HIDE DEF new
<1>8. new \in Seq(T) /\ Len(new) = n + 1
  <2>1. new \in [1 .. n + 1 -> T]
    BY <1>6, <1>7
  <2>. QED
    BY <1>1, <2>1, FunctionIsSeq
<1>9. /\ Append(old, text) \in Seq(T) /\ Len(Append(old, text)) = n + 1
      /\ \A k \in 1 .. n : Append(old, text)[k] = old[k]
      /\ Append(old, text)[n + 1] = text
  BY <1>3, <1>4, AppendProperties
<1>10. \A k \in 1 .. n + 1 : new[k] = Append(old, text)[k]
  BY <1>5, <1>6, <1>9
<1>11. new = Append(old, text)
  BY <1>8, <1>9, <1>10, SeqEqual
<1>. QED
  BY <1>11 DEF new, old, text, more

\* Where the two loops of tn_strtok() stop: before the first character that is no
\* separator, and after it before the next that is one.
TokenLies(text, n, predicate, start, end) ==
    /\ start \in 0 .. n /\ end \in start .. n
    /\ \A k \in 1 .. start : text[k] \in predicate
    /\ start # n => start + 1 <= end
    /\ \A k \in start + 1 .. end : text[k] \notin predicate
    /\ end < n => text[end + 1] \in predicate

LEMMA TokenIs ==
    ASSUME NEW n \in Nat, NEW text, NEW predicate
    PROVE  LET Sep(k) == text[k + 1] \in predicate
               start == StopsAt(0, n, LAMBDA k : ~ Sep(k))
               end == StopsAt(start, n, Sep)
           IN  TokenLies(text, n, predicate, start, end)
<1>. DEFINE S1 == {k \in 0 .. n - 1 : text[k + 1] \notin predicate}
            start == Min(S1 \cup {n})
            S2 == {k \in start .. n - 1 : text[k + 1] \in predicate}
            end == Min(S2 \cup {n})
<1>1. /\ StopsAt(0, n, LAMBDA k : ~ (text[k + 1] \in predicate)) = start
      /\ StopsAt(start, n, LAMBDA k : text[k + 1] \in predicate) = end
  BY DEF StopsAt
<1>2. \A k \in 0 .. n - 1 : k \in S1 <=> text[k + 1] \notin predicate
  OBVIOUS
<1>3. S1 \in SUBSET (0 .. n - 1)
  OBVIOUS
<1>. HIDE DEF S1
<1>4. start \in 0 .. n /\ (\A m \in S1 : start <= m) /\ (start < n => start \in S1)
  <2>1. 0 <= n /\ 0 \in Nat
    OBVIOUS
  <2>. QED
    BY <1>3, <2>1, StopsThere
<1>. HIDE DEF start
<1>5. \A k \in start .. n - 1 : k \in S2 <=> text[k + 1] \in predicate
  OBVIOUS
<1>6. S2 \in SUBSET (start .. n - 1)
  OBVIOUS
<1>. HIDE DEF S2
<1>7. end \in start .. n /\ (\A m \in S2 : end <= m) /\ (end < n => end \in S2)
  <2>1. start <= n /\ start \in Nat
    BY <1>4
  <2>. QED
    BY <1>6, <2>1, StopsThere
<1>. HIDE DEF end
<1>8. ASSUME NEW k \in 1 .. start PROVE text[k] \in predicate
  <2>1. k - 1 \in 0 .. n - 1 /\ (k - 1) + 1 = k /\ ~ (start <= k - 1)
    BY <1>4
  <2>2. k - 1 \notin S1
    BY <1>4, <2>1
  <2>. QED
    BY <1>2, <2>1, <2>2
<1>9. ASSUME NEW k \in start + 1 .. end PROVE text[k] \notin predicate
  <2>1. k - 1 \in start .. n - 1 /\ (k - 1) + 1 = k /\ ~ (end <= k - 1)
    BY <1>4, <1>7
  <2>2. k - 1 \notin S2
    BY <1>7, <2>1
  <2>. QED
    BY <1>5, <2>1, <2>2
<1>10. ASSUME start # n PROVE start + 1 <= end
  <2>1. start \in S1 /\ start \in 0 .. n - 1
    BY <1>4, <1>10
  <2>2. text[start + 1] \notin predicate /\ start \in start .. n - 1
    BY <1>2, <1>4, <2>1
  <2>3. start \notin S2
    BY <1>5, <2>2
  <2>4. end # start
    BY <1>7, <2>1, <2>3
  <2>. QED
    BY <1>4, <1>7, <2>4
<1>11. ASSUME end < n PROVE text[end + 1] \in predicate
  <2>1. end \in S2 /\ end \in start .. n - 1
    BY <1>4, <1>7, <1>11
  <2>. QED
    BY <1>5, <2>1
<1>. QED
  BY <1>1, <1>4, <1>7, <1>8, <1>9, <1>10, <1>11 DEF TokenLies

LEMMA StrtokTokens ==
    ASSUME IInv, NEW i \in Index, NEW predicate, NEW wanted \in BOOLEAN,
           tn_strtok(i, predicate, wanted)
    PROVE  Values!Token
<1>. DEFINE src == strs[i]
            text == Text(src)
            n == src.len
            Sep(k) == text[k + 1] \in predicate
            start == StopsAt(0, n, LAMBDA k : ~ Sep(k))
            end == StopsAt(start, n, Sep)
            after == Slice(src.buf, src.off + end, n - end)
            token == Slice(src.buf, src.off + start, end - start)
            rest == [strs EXCEPT ![i] = after]
            from == start + 1
            left == [k \in DOMAIN Texts |-> IF k = i THEN SubSeq(text, end + 1, n) ELSE Texts[k]]
<1>1. text \in Seq(Alphabet) /\ Len(text) = n /\ n \in Nat
  BY TextIs DEF Slices
<1>2. Calls("strtok", <<i>>, <<predicate, wanted>>)
  BY DEF tn_strtok
<1>3. /\ Values!Calls("strtok") /\ Values!String(1) = text
      /\ Values!Other(1) = predicate /\ Values!Other(2) = wanted
  BY <1>2, GivenOne
<1>4. call'.on[1] = i
  BY <1>2 DEF Calls
<1>5. /\ start \in 0 .. n /\ end \in start .. n
      /\ \A k \in 1 .. start : text[k] \in predicate
      /\ start # n => start + 1 <= end
      /\ \A k \in start + 1 .. end : text[k] \notin predicate
      /\ end < n => text[end + 1] \in predicate
  <2>1. TokenLies(text, n, predicate, start, end)
    BY <1>1, TokenIs DEF StopsAt
  <2>. QED
    BY <2>1 DEF TokenLies
<1>6. \/ start = n /\ Answers(FALSE, 0)
      \/ /\ start # n
         /\ strs' = IF wanted THEN Append(rest, token) ELSE rest
         /\ answer' = [found |-> TRUE, value |-> 0]
         /\ heap' = heap
  BY DEF tn_strtok
<1>7. DOMAIN text = 1 .. n
  BY <1>1, LenProperties
<1>. HIDE DEF text, n, start, end
<1>8. CASE start = n /\ Answers(FALSE, 0)
  <2>1. \A k \in DOMAIN text : text[k] \in predicate
    BY <1>5, <1>7, <1>8
  <2>2. Values!Answers(FALSE, 0)
    BY <1>8, Answered
  <2>. QED
    BY <1>3, <2>1, <2>2 DEF Values!Token
<1>9. CASE /\ start # n
           /\ strs' = IF wanted THEN Append(rest, token) ELSE rest
           /\ answer' = [found |-> TRUE, value |-> 0]
           /\ heap' = heap
  <2>1. /\ from \in DOMAIN text /\ end \in from .. n /\ from - 1 = start
        /\ start \in Nat /\ end \in Nat
    BY <1>1, <1>5, <1>7, <1>9
  <2>2. /\ TextIn(heap, after) = SubSeq(text, end + 1, n)
        /\ TextIn(heap, after) \in Seq(Alphabet) /\ after \in Slices
    <3>. DEFINE len == n - end
    <3>1. len \in Nat /\ end + len <= src.len /\ end \in 0 .. n /\ end + len <= Len(text)
      BY <1>1, <1>5, <2>1 DEF n
    <3>2. SubSeq(text, end + 1, n) = Part(text, end, len)
      BY <1>1, <3>1, Ends
    <3>3. after = Slice(src.buf, src.off + end, len)
      OBVIOUS
    <3>. HIDE DEF len, after
    <3>4. TextIn(heap, after) = Part(text, end, len) /\ after \in Slices
      BY <2>1, <3>1, <3>3, TextOfPart, PartLies DEF text
    <3>5. Part(text, end, len) \in Seq(Alphabet)
      BY <1>1, <2>1, <3>1, PartIs
    <3>. QED
      BY <3>2, <3>4, <3>5
  <2>3. /\ TextIn(heap, token) = SubSeq(text, from, end)
        /\ TextIn(heap, token) \in Seq(Alphabet) /\ token \in Slices
    <3>. DEFINE len == end - start
    <3>1. len \in Nat /\ start + len <= src.len /\ start + len <= Len(text) /\ start + len = end
      BY <1>1, <1>5, <2>1 DEF n
    <3>2. SubSeq(text, from, end) = Part(text, start, len)
      BY <3>1 DEF Part
    <3>3. token = Slice(src.buf, src.off + start, len)
      OBVIOUS
    <3>. HIDE DEF len, token
    <3>4. TextIn(heap, token) = Part(text, start, len) /\ token \in Slices
      BY <2>1, <3>1, <3>3, TextOfPart, PartLies DEF text
    <3>5. Part(text, start, len) \in Seq(Alphabet)
      BY <1>1, <2>1, <3>1, PartIs
    <3>. QED
      BY <3>2, <3>4, <3>5
  <2>. HIDE DEF after, token, from
  <2>4. rest \in Seq(Slices) /\ DOMAIN rest = Index
        /\ \A k \in Index : rest[k] = IF k = i THEN after ELSE strs[k]
    <3>1. strs \in Seq(Slices)
      BY DEF IInv
    <3>2. rest \in Seq(Slices) /\ DOMAIN rest = Index
      BY <2>2, <3>1, ExceptSeq DEF Index
    <3>3. \A k \in Index : rest[k] = IF k = i THEN after ELSE strs[k]
      BY DEF Index
    <3>. QED
      BY <3>2, <3>3
  <2>5. \A k \in Index : /\ Texts[k] = TextIn(heap, strs[k])
                         /\ Texts[k] \in Seq(Alphabet)
    <3>1. \A k \in Index : Texts[k] = TextIn(heap, strs[k]) /\ Texts[k] = Text(strs[k])
      BY TextsAre
    <3>2. \A k \in Index : Text(strs[k]) \in Seq(Alphabet)
      BY TextIs
    <3>. QED
      BY <3>1, <3>2
  <2>. HIDE DEF rest
  <2>6. \A k \in Index : /\ TextIn(heap, rest[k]) \in Seq(Alphabet)
                         /\ TextIn(heap, rest[k]) = IF k = i THEN SubSeq(text, end + 1, n)
                                                    ELSE Texts[k]
    BY <2>2, <2>4, <2>5
  <2>7. [k \in DOMAIN rest |-> TextIn(heap, rest[k])] = left
    <3>1. DOMAIN Texts = Index
      BY TextsAre
    <3>. QED
      BY <2>4, <2>6, <3>1
  <2>8. [k \in DOMAIN Append(rest, token) |-> TextIn(heap, Append(rest, token)[k])]
            = Append(left, SubSeq(text, from, end))
    <3>1. \A k \in DOMAIN rest : TextIn(heap, rest[k]) \in Seq(Alphabet)
      BY <2>4, <2>6
    <3>2. [k \in DOMAIN Append(rest, token) |-> TextIn(heap, Append(rest, token)[k])]
              = Append([k \in DOMAIN rest |-> TextIn(heap, rest[k])], TextIn(heap, token))
      BY <2>3, <2>4, <3>1, TextsOfMore
    <3>. QED
      BY <2>3, <2>7, <3>2
  <2>9. Texts' = [k \in DOMAIN strs' |-> TextIn(heap, strs'[k])]
    BY <1>9 DEF Texts, Text, TextIn, Part
  <2>. HIDE DEF left
  <2>10. Texts' = IF wanted THEN Append(left, SubSeq(text, from, end)) ELSE left
    BY <1>9, <2>7, <2>8, <2>9
  <2>11. left = [k \in DOMAIN Texts |-> IF k = call'.on[1] THEN SubSeq(text, end + 1, Len(text))
                                        ELSE Texts[k]]
    BY <1>1, <1>4 DEF left
  <2>12. /\ \A k \in 1 .. from - 1 : text[k] \in predicate
         /\ \A k \in from .. end : text[k] \notin predicate
         /\ end < Len(text) => text[end + 1] \in predicate
    BY <1>1, <1>5, <2>1 DEF from
  <2>13. end \in from .. Len(text)
    BY <1>1, <2>1
  <2>. QED
    BY <1>3, <1>9, <2>1, <2>10, <2>11, <2>12, <2>13 DEF Values!Token
<1>. QED
  BY <1>6, <1>8, <1>9

-----------------------------------------------------------------------------
(* Questions.                                                              *)

LEMMA StrlenAsks == ASSUME IInv, NEW i \in Index, tn_strlen(i) PROVE Values!Question
<1>1. Len(Text(strs[i])) = strs[i].len
  BY TextIs
<1>2. Values!Calls("strlen") /\ Values!String(1) = Text(strs[i])
  BY GivenOne DEF tn_strlen
<1>3. Values!Answers(TRUE, strs[i].len)
  BY Answered DEF tn_strlen
<1>. QED
  BY <1>1, <1>2, <1>3 DEF Values!Question

LEMMA StrgetAsks ==
    ASSUME IInv, NEW i \in Index, NEW n \in Sizes, tn_strget(i, n)
    PROVE  Values!Question
<1>. DEFINE text == Text(strs[i])
            value == IF n >= strs[i].len THEN 0 ELSE text[n + 1]
            ch == IF n + 1 \in DOMAIN text THEN text[n + 1] ELSE 0
<1>1. text \in Seq(Alphabet) /\ Len(text) = strs[i].len /\ Len(text) \in Nat /\ n \in Nat
  BY TextIs, LenProperties, Numbers
<1>2. DOMAIN text = 1 .. Len(text)
  BY <1>1, LenProperties
<1>3. /\ Values!Calls("strget") /\ Values!String(1) = text /\ Values!Other(1) = n
  <2>1. Calls("strget", <<i>>, <<n>>)
    BY DEF tn_strget
  <2>. DEFINE with == <<n>>
  <2>2. Calls("strget", <<i>>, with) /\ with[1] = n
    BY <2>1
  <2>. HIDE DEF with, text
  <2>3. Values!Calls("strget") /\ Values!String(1) = Text(strs[i]) /\ Values!Other(1) = with[1]
    BY <2>2, GivenOne
  <2>. QED
    BY <2>2, <2>3 DEF text
<1>4. Values!Answers(TRUE, value)
  BY Answered DEF tn_strget
<1>. HIDE DEF text
<1>5. value = ch
  BY <1>1, <1>2
<1>6. Values!Answers(TRUE, ch)
  BY <1>4, <1>5
<1>. QED
  BY <1>3, <1>6 DEF Values!Question

LEMMA CStringOfUpToNul ==
    ASSUME IInv, NEW i \in Index
    PROVE  CStringOf(strs[i]) = Values!UpToNUL(Text(strs[i]))
<1>. DEFINE str == strs[i]
            text == Text(str)
            buf == heap[str.buf]
<1>1. /\ str \in Slices /\ LiesIn(str, heap)
      /\ text \in Seq(Alphabet) /\ Len(text) = str.len
      /\ str.off \in Nat /\ str.len \in Nat /\ str.buf \in Nat
  <2>1. str \in Slices /\ LiesIn(str, heap) /\ text \in Seq(Alphabet) /\ Len(text) = str.len
    BY TextIs
  <2>. HIDE DEF str, text
  <2>. QED
    BY <2>1 DEF Slices
<1>2. CASE str.buf = 0
  <2>1. CStringOf(str) = <<>> /\ text = <<>> /\ str.len = 0
    BY <1>1, <1>2 DEF CStringOf, Text, LiesIn
  <2>2. Values!UpToNUL(<<>>) = <<>>
    BY DEF Values!UpToNUL, Values!Contains
  <2>. QED
    BY <2>1, <2>2
<1>3. CASE str.buf # 0 /\ Terminated(str)
  <2>1. str.buf \in 1 .. Len(heap) /\ str.off + str.len < Len(buf)
    BY <1>1, <1>3, LenProperties DEF LiesIn, IInv
  <2>2. buf \in Seq(Alphabet)
    BY <2>1, ElementOfSeq DEF IInv
  <2>3. CStringOf(str) = CStringAt(buf, str.off)
    BY <1>3 DEF CStringOf
  <2>4. buf[str.off + str.len + 1] = 0
    BY <1>3 DEF Terminated
  <2>5. text = Part(buf, str.off, str.len)
    BY <1>3 DEF Text, Part
  <2>. HIDE DEF buf
  <2>6. CStringAt(buf, str.off) = Values!UpToNUL(Part(buf, str.off, str.len))
    BY <1>1, <2>1, <2>2, <2>4, CStringUpToNul
  <2>. QED
    BY <2>3, <2>5, <2>6
<1>4. CASE str.buf # 0 /\ ~ Terminated(str)
  <2>1. CStringOf(str) = CStringAt(Append(text, 0), 0)
    BY <1>4 DEF CStringOf
  <2>. QED
    BY <1>1, <2>1, CStringOfTextIs
<1>. QED
  BY <1>2, <1>3, <1>4

LEMMA StrscanfAsks ==
    ASSUME IInv, NEW i \in Index, NEW n \in Counts, tn_strvscanf(i, n)
    PROVE  Values!Question \/ Values!Format
<1>. DEFINE text == Text(strs[i])
            count == Min({n, Len(Values!UpToNUL(text))})
<1>1. CASE Fails
  BY <1>1 DEF Fails, Values!Format, Values!Calls, Calls, Texts, Text
<1>2. CASE Calls("strscanf", <<i>>, <<n>>) /\ Answers(TRUE, Min({n, Len(CStringOf(strs[i]))}))
  <2>1. Answers(TRUE, count)
    BY <1>2, CStringOfUpToNul
  <2>2. Values!Calls("strscanf") /\ Values!String(1) = text /\ Values!Other(1) = n
    BY <1>2, GivenOne
  <2>3. count = Values!Min({n, Len(Values!UpToNUL(text))})
    BY SameBounds
  <2>. HIDE DEF text, count
  <2>4. Values!Answers(TRUE, Values!Min({Values!Other(1), Len(Values!UpToNUL(Values!String(1)))}))
    BY <2>1, <2>2, <2>3, Answered
  <2>. QED
    BY <2>2, <2>4 DEF Values!Question
<1>. QED
  BY <1>1, <1>2 DEF tn_strvscanf

LEMMA StrisprefixAsks ==
    ASSUME IInv, NEW i \in Index, NEW j \in Index, tn_strisprefix(i, j)
    PROVE  Values!Question
<1>. DEFINE s == Text(strs[i])
            t == Text(strs[j])
            found == Len(s) <= Len(t) /\ \A k \in DOMAIN s : t[k] = s[k]
            isprefix == Values!IsPrefix(s, t)
<1>1. s \in Seq(Alphabet) /\ t \in Seq(Alphabet)
  BY TextIs
<1>2. /\ Values!Calls("strisprefix")
      /\ Values!String(1) = s /\ Values!String(2) = t
  BY GivenTwo DEF tn_strisprefix
<1>3. Values!Answers(found, 0)
  BY Answered DEF tn_strisprefix
<1>. HIDE DEF s, t
<1>4. found = isprefix
  <2>1. DOMAIN s = 1 .. Len(s)
    BY <1>1, LenProperties
  <2>2. isprefix <=> Len(s) <= Len(t) /\ \A k \in 1 .. Len(s) : s[k] = t[k]
    BY <1>1, PrefixIs
  <2>3. isprefix \in BOOLEAN
    BY DEF Values!IsPrefix
  <2>. QED
    BY <2>1, <2>2, <2>3
<1>5. Values!Answers(isprefix, 0)
  BY <1>3, <1>4
<1>. QED
  BY <1>2, <1>5 DEF Values!Question

LEMMA StrissuffixAsks ==
    ASSUME IInv, NEW i \in Index, NEW j \in Index, tn_strissuffix(i, j)
    PROVE  Values!Question
<1>. DEFINE s == Text(strs[i])
            t == Text(strs[j])
            m == Len(s)
            n == Len(t)
            rs == Values!Reverse(s)
            rt == Values!Reverse(t)
            found == m <= n /\ \A k \in DOMAIN s : t[n - m + k] = s[k]
            issuffix == Values!IsSuffix(s, t)
<1>1. s \in Seq(Alphabet) /\ t \in Seq(Alphabet)
  BY TextIs
<1>2. /\ Values!Calls("strissuffix")
      /\ Values!String(1) = s /\ Values!String(2) = t
  BY GivenTwo DEF tn_strissuffix
<1>3. Values!Answers(found, 0)
  BY Answered DEF tn_strissuffix
<1>. HIDE DEF s, t
<1>4. DOMAIN s = 1 .. m /\ m \in Nat /\ n \in Nat
  BY <1>1, LenProperties
<1>5. issuffix <=> Values!IsPrefix(rs, rt)
  BY DEF Values!IsSuffix
<1>6. /\ rs \in Seq(Alphabet) /\ Len(rs) = m
      /\ \A k \in 1 .. m : rs[k] = s[m - k + 1]
      /\ rt \in Seq(Alphabet) /\ Len(rt) = n
      /\ \A k \in 1 .. n : rt[k] = t[n - k + 1]
  BY <1>1, <1>4, ReverseIs
<1>. HIDE DEF rs, rt
<1>7. Values!IsPrefix(rs, rt) <=> m <= n /\ \A k \in 1 .. m : rs[k] = rt[k]
  BY <1>6, PrefixIs
<1>. HIDE DEF m, n, issuffix
<1>8. ASSUME m <= n
      PROVE  (\A k \in 1 .. m : rs[k] = rt[k]) <=> \A k \in 1 .. m : t[n - m + k] = s[k]
  <2>1. ASSUME \A k \in 1 .. m : rs[k] = rt[k], NEW k \in 1 .. m PROVE t[n - m + k] = s[k]
    <3>. DEFINE l == m - k + 1
    <3>1. l \in 1 .. m /\ l \in 1 .. n /\ m - l + 1 = k /\ n - l + 1 = n - m + k
      BY <1>4, <1>8
    <3>. HIDE DEF l
    <3>2. rs[l] = s[m - l + 1] /\ rt[l] = t[n - l + 1] /\ rs[l] = rt[l]
      BY <1>6, <2>1, <3>1
    <3>. QED
      BY <3>1, <3>2
  <2>2. ASSUME \A k \in 1 .. m : t[n - m + k] = s[k], NEW k \in 1 .. m PROVE rs[k] = rt[k]
    <3>. DEFINE l == m - k + 1
    <3>1. l \in 1 .. m /\ k \in 1 .. n /\ n - m + l = n - k + 1
      BY <1>4, <1>8
    <3>2. rs[k] = s[l] /\ rt[k] = t[n - k + 1]
      BY <1>6, <3>1
    <3>. HIDE DEF l
    <3>3. t[n - m + l] = s[l]
      BY <2>2, <3>1
    <3>. QED
      BY <3>1, <3>2, <3>3
  <2>. QED
    BY <2>1, <2>2
<1>9. found = issuffix
  <2>1. issuffix \in BOOLEAN
    BY DEF Values!IsSuffix, Values!IsPrefix, issuffix
  <2>. QED
    BY <1>4, <1>5, <1>7, <1>8, <2>1
<1>. HIDE DEF found
<1>10. Values!Answers(issuffix, 0)
  BY <1>3, <1>9
<1>. QED
  BY <1>2, <1>10 DEF Values!Question, issuffix

\* A text that agrees with another on its first n characters, and then not or no
\* more, comes before it if it has no more, or a lesser one.
LEMMA BeforeIs ==
    ASSUME NEW text1 \in Seq(Alphabet), NEW text2 \in Seq(Alphabet), NEW n \in Nat,
           AgreeUpTo(text1, text2, n)
    PROVE  Values!Before(text1, text2)
               <=> IF n < Len(text1) /\ n < Len(text2) THEN text1[n + 1] < text2[n + 1]
                   ELSE Len(text1) < Len(text2)
<1>. DEFINE m1 == Len(text1)
            m2 == Len(text2)
            Differ(k) == /\ text1[k] < text2[k]
                         /\ \A i \in 1 .. k - 1 : text1[i] = text2[i]
<1>1. m1 \in Nat /\ m2 \in Nat /\ DOMAIN text1 = 1 .. m1 /\ DOMAIN text2 = 1 .. m2
  BY LenProperties
<1>2. /\ n <= m1 /\ n <= m2
      /\ \A k \in 1 .. n : text1[k] = text2[k]
      /\ n < m1 /\ n < m2 => text1[n + 1] # text2[n + 1]
  BY DEF AgreeUpTo
<1>3. Values!IsPrefix(text1, text2) <=> m1 <= m2 /\ \A k \in 1 .. m1 : text1[k] = text2[k]
  BY PrefixIs
<1>4. text1 = text2 <=> m1 = m2 /\ \A k \in 1 .. m1 : text1[k] = text2[k]
  BY SeqEqual
<1>5. \A k \in 1 .. m1 : text1[k] \in Nat
  BY <1>1, ElementOfSeq, Numbers
<1>6. \A k \in 1 .. m2 : text2[k] \in Nat
  BY <1>1, ElementOfSeq, Numbers
<1>7. DOMAIN text1 \cap DOMAIN text2 = (1 .. m1) \cap (1 .. m2)
  BY <1>1
<1>8. Values!Before(text1, text2)
          <=> \/ Values!IsPrefix(text1, text2) /\ text1 # text2
              \/ \E k \in (1 .. m1) \cap (1 .. m2) : Differ(k)
  BY <1>7 DEF Values!Before, Values!IsStrictPrefix
<1>. HIDE DEF m1, m2
<1>9. CASE n < m1 /\ n < m2
  <2>. DEFINE d == n + 1
  <2>1. d \in 1 .. m1 /\ d \in 1 .. m2 /\ text1[d] # text2[d]
    BY <1>1, <1>2, <1>9
  <2>2. ~ Values!IsPrefix(text1, text2)
    BY <1>3, <2>1
  <2>3. ASSUME NEW k \in (1 .. m1) \cap (1 .. m2), Differ(k) PROVE k = d
    <3>1. CASE k < d
      <4>1. k \in 1 .. n
        BY <1>1, <3>1
      <4>2. text1[k] = text2[k] /\ text1[k] < text2[k]
        BY <1>2, <2>3, <4>1
      <4>. QED
        BY <1>5, <4>2
    <3>2. CASE d < k
      <4>1. d \in 1 .. k - 1
        BY <1>1, <3>2
      <4>. QED
        BY <2>1, <2>3, <4>1
    <3>. QED
      BY <1>1, <2>1, <3>1, <3>2
  <2>4. ASSUME text1[d] < text2[d] PROVE Differ(d)
    <3>1. d - 1 = n
      BY <1>1
    <3>. QED
      BY <1>2, <2>4, <3>1
  <2>. HIDE DEF Differ, d
  <2>5. Values!Before(text1, text2) <=> Differ(d)
    BY <1>8, <2>1, <2>2, <2>3
  <2>6. Values!Before(text1, text2) <=> text1[d] < text2[d]
    BY <2>4, <2>5 DEF Differ
  <2>. QED
    BY <1>9, <2>6 DEF d, m1, m2
<1>10. CASE ~ (n < m1 /\ n < m2)
  <2>1. ASSUME NEW k \in (1 .. m1) \cap (1 .. m2) PROVE ~ Differ(k)
    <3>1. k \in 1 .. n
      BY <1>1, <1>2, <1>10
    <3>2. text1[k] = text2[k] /\ text1[k] \in Nat
      BY <1>2, <1>5, <3>1
    <3>. QED
      BY <3>2
  <2>. HIDE DEF Differ
  <2>2. Values!Before(text1, text2) <=> Values!IsPrefix(text1, text2) /\ text1 # text2
    BY <1>8, <2>1
  <2>3. Values!IsPrefix(text1, text2) <=> m1 <= m2
    <3>1. ASSUME m1 <= m2 PROVE m1 = n
      BY <1>1, <1>2, <1>10, <3>1
    <3>. QED
      BY <1>2, <1>3, <3>1
  <2>4. text1 = text2 <=> m1 = m2
    <3>1. ASSUME m1 = m2 PROVE m1 = n
      BY <1>1, <1>2, <1>10, <3>1
    <3>. QED
      BY <1>2, <1>4, <3>1
  <2>5. Values!Before(text1, text2) <=> m1 < m2
    BY <1>1, <2>2, <2>3, <2>4
  <2>. QED
    BY <1>10, <2>5 DEF m1, m2
<1>. QED
  BY <1>9, <1>10

Order(text1, text2) ==
    CASE Values!Before(text1, text2) -> -1
      [] Values!Before(text2, text1) -> 1
      [] text1 = text2 -> 0

LEMMA CompareOrders ==
    ASSUME NEW text1 \in Seq(Alphabet), NEW text2 \in Seq(Alphabet)
    PROVE  /\ Compare(text1, text2) = Order(text1, text2)
           /\ Compare(text1, text2) = 0 <=> text1 = text2
<1>. DEFINE m1 == Len(text1)
            m2 == Len(text2)
            minlen == Min({m1, m2})
            n == StopsAt(0, minlen, LAMBDA k : text1[k + 1] # text2[k + 1])
            x == text1[n + 1]
            y == text2[n + 1]
            Sign(a, b) == IF a < b THEN -1 ELSE IF a > b THEN 1 ELSE 0
            before == Values!Before(text1, text2)
            after == Values!Before(text2, text1)
<1>1. m1 \in Nat /\ m2 \in Nat
  BY LenProperties
<1>2. minlen = IF m1 <= m2 THEN m1 ELSE m2
  BY <1>1, LesserIs
<1>3. n \in Nat /\ n <= minlen /\ AgreeUpTo(text1, text2, n)
  BY AgreementIs
<1>4. Compare(text1, text2) = IF n < minlen THEN Sign(x, y) ELSE Sign(m1, m2)
  BY DEF Compare
<1>. HIDE DEF n, minlen
<1>5. before <=> IF n < m1 /\ n < m2 THEN x < y ELSE m1 < m2
  BY <1>3, BeforeIs
<1>6. after <=> IF n < m2 /\ n < m1 THEN y < x ELSE m2 < m1
  <2>1. AgreeUpTo(text2, text1, n)
    BY <1>3 DEF AgreeUpTo
  <2>. QED
    BY <1>3, <2>1, BeforeIs
<1>7. n < minlen <=> n < m1 /\ n < m2
  BY <1>1, <1>2, <1>3
<1>8. n < m1 /\ n < m2 => x # y /\ text1 # text2
  BY <1>3 DEF AgreeUpTo
<1>9. n < m1 /\ n < m2 => x \in Nat /\ y \in Nat
  <2>1. n < m1 /\ n < m2 => n + 1 \in 1 .. m1 /\ n + 1 \in 1 .. m2
    BY <1>1, <1>3
  <2>2. \A k \in 1 .. m1 : text1[k] \in Nat
    BY ElementOfSeq, Numbers
  <2>3. \A k \in 1 .. m2 : text2[k] \in Nat
    BY ElementOfSeq, Numbers
  <2>. QED
    BY <2>1, <2>2, <2>3
<1>10. ~ (n < m1 /\ n < m2) => (text1 = text2 <=> m1 = m2)
  <2>1. n <= m1 /\ n <= m2 /\ \A k \in 1 .. n : text1[k] = text2[k]
    BY <1>3 DEF AgreeUpTo
  <2>2. ASSUME ~ (n < m1 /\ n < m2), m1 = m2 PROVE text1 = text2
    <3>1. n = m1
      BY <1>1, <1>3, <2>1, <2>2
    <3>. QED
      BY <2>1, <2>2, <3>1, SeqEqual
  <2>. QED
    BY <2>2
<1>11. Order(text1, text2) = CASE before -> -1 [] after -> 1 [] text1 = text2 -> 0
  BY DEF Order
<1>. HIDE DEF m1, m2, x, y, before, after
<1>12. CASE n < m1 /\ n < m2
  BY <1>4, <1>5, <1>6, <1>7, <1>8, <1>9, <1>11, <1>12
<1>13. CASE ~ (n < m1 /\ n < m2)
  BY <1>1, <1>4, <1>5, <1>6, <1>7, <1>10, <1>11, <1>13
<1>. QED
  BY <1>12, <1>13

LEMMA StrcmpAsks ==
    ASSUME IInv, NEW i \in Index, NEW j \in Index, tn_strcmp(i, j)
    PROVE  Values!Question
<1>. DEFINE text1 == Text(strs[i])
            text2 == Text(strs[j])
<1>1. text1 \in Seq(Alphabet) /\ text2 \in Seq(Alphabet)
  BY TextIs
<1>2. Values!Calls("strcmp") /\ Values!String(1) = text1 /\ Values!String(2) = text2
  BY GivenTwo DEF tn_strcmp
<1>3. Values!Answers(TRUE, Compare(text1, text2))
  BY Answered DEF tn_strcmp
<1>. HIDE DEF text1, text2
<1>4. Values!Answers(TRUE, Order(text1, text2))
  BY <1>1, <1>3, CompareOrders
<1>. QED
  BY <1>2, <1>4 DEF Values!Question, Order

\* The places where a character is.
LEMMA PlacesOfOne ==
    ASSUME NEW text \in Seq(Alphabet), NEW ch
    PROVE  Values!Places(<<ch>>, text)
               = {k \in 0 .. Len(text) - 1 : text[k + 1] = ch}
<1>. DEFINE n == Len(text)
            sub == <<ch>>
            Occurs(pos) == Values!Occurs(sub, text, pos)
            S == {k \in 0 .. n - 1 : text[k + 1] = ch}
<1>1. n \in Nat /\ DOMAIN text = 1 .. n
  BY LenProperties
<1>2. DOMAIN sub = {1} /\ sub[1] = ch
  OBVIOUS
<1>. HIDE DEF sub
<1>3. \A pos : Occurs(pos) <=> pos + 1 \in 1 .. n /\ text[pos + 1] = ch
  BY <1>1, <1>2 DEF Values!Occurs
<1>4. Values!Places(sub, text) = {pos \in 0 .. n : Occurs(pos)}
  BY DEF Values!Places
<1>. HIDE DEF n, Occurs
<1>5. \A pos : pos \in 0 .. n /\ pos + 1 \in 1 .. n <=> pos \in 0 .. n - 1
  BY <1>1
<1>6. {pos \in 0 .. n : Occurs(pos)} = S
  BY <1>3, <1>5
<1>. QED
  BY <1>4, <1>6 DEF sub, n

\* A loop that finds no place stops at the end.
LEMMA FirstOf ==
    ASSUME NEW n \in Nat, NEW S \in SUBSET (0 .. n - 1)
    PROVE  /\ Min(S \cup {n}) = n <=> S = {}
           /\ S # {} => Min(S) = Min(S \cup {n})
<1>. DEFINE m == Min(S \cup {n})
<1>1. m \in 0 .. n /\ (\A k \in S : m <= k) /\ (m < n => m \in S)
  <2>1. 0 <= n /\ 0 \in Nat
    OBVIOUS
  <2>. QED
    BY <2>1, StopsThere
<1>. HIDE DEF m
<1>2. S \in SUBSET Nat /\ \A k \in S : k < n
  OBVIOUS
<1>3. m = n <=> S = {}
  BY <1>1, <1>2
<1>4. ASSUME S # {} PROVE Min(S) = m
  <2>. DEFINE least == Min(S)
  <2>1. least \in S /\ \A k \in S : least <= k
    BY <1>2, <1>4, LeastOf
  <2>. HIDE DEF least
  <2>2. m \in Nat /\ (m # n => m < n)
    BY <1>1
  <2>3. m \in S
    BY <1>1, <1>3, <1>4, <2>2
  <2>4. least \in Nat /\ least <= m /\ m <= least
    BY <1>1, <1>2, <2>1, <2>3
  <2>5. least = m
    BY <2>2, <2>4
  <2>. QED
    BY <2>5 DEF least
<1>. QED
  BY <1>3, <1>4 DEF m

\* And a loop that goes the other way finds the last one first.
LEMMA LastOf ==
    ASSUME NEW n \in Nat, NEW S \in SUBSET (0 .. n - 1), NEW R \in SUBSET (0 .. n - 1),
           \A k \in 0 .. n - 1 : k \in R <=> n - k - 1 \in S
    PROVE  /\ Min(R \cup {n}) = n <=> S = {}
           /\ S # {} => Max(S) = n - Min(R \cup {n}) - 1
<1>. DEFINE m == Min(R \cup {n})
            last == n - m - 1
<1>1. m \in 0 .. n /\ (\A k \in R : m <= k) /\ (m < n => m \in R)
  <2>1. 0 <= n /\ 0 \in Nat
    OBVIOUS
  <2>. QED
    BY <2>1, StopsThere
<1>2. m = n <=> R = {}
  BY FirstOf
<1>. HIDE DEF m
<1>3. \A k \in S : k \in Nat /\ n - k - 1 \in 0 .. n - 1 /\ n - (n - k - 1) - 1 = k
  OBVIOUS
<1>4. \A k \in S : n - k - 1 \in R
  BY <1>3
<1>5. R = {} <=> S = {}
  BY <1>4
<1>6. ASSUME S # {} PROVE Max(S) = last
  <2>. DEFINE greatest == Max(S)
  <2>1. m \in R /\ last \in S /\ last \in Nat
    <3>1. m # n
      BY <1>2, <1>5, <1>6
    <3>2. m < n /\ m \in 0 .. n - 1 /\ last \in Nat
      BY <1>1, <3>1
    <3>3. m \in R
      BY <1>1, <3>2
    <3>. QED
      BY <3>2, <3>3
  <2>2. ASSUME NEW k \in S PROVE k <= last
    <3>1. m <= n - k - 1
      BY <1>1, <1>4
    <3>. QED
      BY <1>1, <1>3, <3>1
  <2>. HIDE DEF last
  <2>3. \E l \in S : \A k \in S : l >= k
    BY <1>3, <2>1, <2>2
  <2>4. greatest \in S /\ \A k \in S : greatest >= k
    BY <2>3 DEF Max
  <2>. HIDE DEF greatest
  <2>5. greatest \in Nat /\ greatest >= last /\ greatest <= last
    BY <1>3, <2>1, <2>2, <2>4
  <2>6. greatest = last
    BY <2>1, <2>5
  <2>. QED
    BY <2>6 DEF greatest
<1>. QED
  BY <1>2, <1>5, <1>6 DEF m

LEMMA StrchrAsks ==
    ASSUME IInv, NEW i \in Index, NEW ch \in Characters, tn_strchr(i, ch)
    PROVE  Values!Question
<1>. DEFINE text == Text(strs[i])
            len == Len(text)
            S == {k \in 0 .. len - 1 : text[k + 1] = ch}
            n == Min(S \cup {len})
<1>1. text \in Seq(Alphabet) /\ len \in Nat
  BY TextIs, LenProperties
<1>2. /\ Values!Calls("strchr") /\ Values!String(1) = text /\ Values!Other(1) = ch
  <2>1. Calls("strchr", <<i>>, <<ch>>)
    BY DEF tn_strchr
  <2>. QED
    BY <2>1, GivenOne
<1>3. IF n = len THEN Answers(FALSE, 0) ELSE Answers(TRUE, n)
  BY DEF tn_strchr, StopsAt
<1>4. S \in SUBSET (0 .. len - 1)
  OBVIOUS
<1>5. Values!Places(<<ch>>, text) = S
  BY <1>1, PlacesOfOne
<1>. HIDE DEF S, len, text
<1>6. (n = len <=> S = {}) /\ (S # {} => Min(S) = n)
  BY <1>1, <1>4, FirstOf
<1>. HIDE DEF n
<1>7. Values!Finds(S, Values!Min)
  <2>1. CASE S = {}
    BY <1>3, <1>6, <2>1, Answered DEF Values!Finds
  <2>2. CASE S # {}
    <3>1. Values!Answers(TRUE, Values!Min(S))
      BY <1>3, <1>6, <2>2, Answered, SameBounds
    <3>. QED
      BY <2>2, <3>1 DEF Values!Finds
  <2>. QED
    BY <2>1, <2>2
<1>. QED
  BY <1>2, <1>5, <1>7 DEF Values!Question

LEMMA StrrchrAsks ==
    ASSUME IInv, NEW i \in Index, NEW ch \in Characters, tn_strrchr(i, ch)
    PROVE  Values!Question
<1>. DEFINE text == Text(strs[i])
            len == Len(text)
            S == {k \in 0 .. len - 1 : text[k + 1] = ch}
            R == {k \in 0 .. len - 1 : text[len - k] = ch}
            n == Min(R \cup {len})
            last == len - n - 1
<1>1. text \in Seq(Alphabet) /\ len \in Nat
  BY TextIs, LenProperties
<1>2. /\ Values!Calls("strrchr") /\ Values!String(1) = text /\ Values!Other(1) = ch
  <2>1. Calls("strrchr", <<i>>, <<ch>>)
    BY DEF tn_strrchr
  <2>. QED
    BY <2>1, GivenOne
<1>3. IF n = len THEN Answers(FALSE, 0) ELSE Answers(TRUE, last)
  BY DEF tn_strrchr, StopsAt
<1>4. S \in SUBSET (0 .. len - 1) /\ R \in SUBSET (0 .. len - 1)
  OBVIOUS
<1>5. Values!Places(<<ch>>, text) = S
  BY <1>1, PlacesOfOne
<1>6. \A k \in 0 .. len - 1 : k \in R <=> len - k - 1 \in S
  <2>. HIDE DEF len
  <2>1. \A k \in 0 .. len - 1 : len - k - 1 \in 0 .. len - 1 /\ (len - k - 1) + 1 = len - k
    BY <1>1
  <2>. QED
    BY <2>1
<1>. HIDE DEF S, R, len, text
<1>7. (n = len <=> S = {}) /\ (S # {} => Max(S) = last)
  BY <1>1, <1>4, <1>6, LastOf
<1>. HIDE DEF n, last
<1>8. Values!Finds(S, Values!Max)
  <2>1. CASE S = {}
    BY <1>3, <1>7, <2>1, Answered DEF Values!Finds
  <2>2. CASE S # {}
    <3>1. Values!Answers(TRUE, Values!Max(S))
      BY <1>3, <1>7, <2>2, Answered, SameBounds
    <3>. QED
      BY <2>2, <3>1 DEF Values!Finds
  <2>. QED
    BY <2>1, <2>2
<1>. QED
  BY <1>2, <1>5, <1>8 DEF Values!Question

\* The places where a text is, of those where it has room.
LEMMA PlacesOfText ==
    ASSUME NEW text \in Seq(Alphabet), NEW sub \in Seq(Alphabet),
           sub # <<>>, NEW last \in Int, last = Len(text) - Len(sub) + 1
    PROVE  Values!Places(sub, text)
               = {n \in 0 .. last - 1 :
                     StopsAt(0, Len(sub), LAMBDA k : text[n + k + 1] # sub[k + 1])
                         = Len(sub)}
<1>. DEFINE N == Len(text)
            m == Len(sub)
            Differ(n) == {k \in 0 .. m - 1 : text[n + k + 1] # sub[k + 1]}
            Match(n) == StopsAt(0, m, LAMBDA k : text[n + k + 1] # sub[k + 1]) = m
            Occurs(pos) == Values!Occurs(sub, text, pos)
<1>1. N \in Nat /\ m \in Nat /\ DOMAIN text = 1 .. N /\ DOMAIN sub = 1 .. m
  BY LenProperties
<1>2. \A n : Match(n) <=> Min(Differ(n) \cup {m}) = m
  BY DEF StopsAt
<1>3. \A pos : Occurs(pos)
                   <=> \A k \in 1 .. m : pos + k \in 1 .. N /\ text[pos + k] = sub[k]
  BY <1>1 DEF Values!Occurs
<1>4. Values!Places(sub, text) = {pos \in 0 .. N : Occurs(pos)}
  BY DEF Values!Places
<1>5. \A n : Differ(n) \in SUBSET (0 .. m - 1)
  OBVIOUS
<1>6. m # 0
  BY EmptyText
<1>7. \A n : \A k \in 0 .. m - 1 : k \in Differ(n) <=> text[n + k + 1] # sub[k + 1]
  OBVIOUS
<1>. HIDE DEF N, m, Differ, Match, Occurs
<1>8. \A n : Match(n) <=> Differ(n) = {}
  BY <1>1, <1>2, <1>5, FirstOf
<1>9. ASSUME NEW n \in 0 .. last - 1 PROVE Match(n) <=> Occurs(n)
  <2>1. n \in Nat /\ n + m <= N
    BY <1>1 DEF N, m
  <2>2. ASSUME Differ(n) = {}, NEW k \in 1 .. m
        PROVE  n + k \in 1 .. N /\ text[n + k] = sub[k]
    <3>. DEFINE l == k - 1
    <3>1. l \in 0 .. m - 1 /\ n + l + 1 = n + k /\ l + 1 = k /\ n + k \in 1 .. N
      BY <1>1, <2>1
    <3>. HIDE DEF l
    <3>2. text[n + l + 1] = sub[l + 1]
      BY <1>7, <2>2, <3>1
    <3>. QED
      BY <3>1, <3>2
  <2>3. ASSUME Occurs(n), NEW l \in Differ(n) PROVE FALSE
    <3>. DEFINE k == l + 1
    <3>1. l \in 0 .. m - 1
      BY <1>5
    <3>2. k \in 1 .. m /\ n + l + 1 = n + k
      BY <1>1, <2>1, <3>1
    <3>. HIDE DEF k
    <3>3. text[n + k] = sub[k]
      BY <1>3, <2>3, <3>2
    <3>. QED
      BY <1>7, <3>1, <3>2, <3>3 DEF k
  <2>. QED
    BY <1>3, <1>8, <2>2, <2>3
<1>10. ASSUME NEW pos \in 0 .. N, Occurs(pos) PROVE pos \in 0 .. last - 1
  <2>1. m \in 1 .. m
    BY <1>1, <1>6
  <2>2. pos + m \in 1 .. N
    BY <1>3, <1>10, <2>1
  <2>. QED
    BY <1>1, <2>2 DEF N, m
<1>11. ASSUME NEW n \in 0 .. last - 1 PROVE n \in 0 .. N
  BY <1>1, <1>6, <1>11 DEF N, m
<1>12. {pos \in 0 .. N : Occurs(pos)} = {n \in 0 .. last - 1 : Match(n)}
  BY <1>9, <1>10, <1>11
<1>. QED
  BY <1>4, <1>12 DEF Match, m

LEMMA StrstrAsks ==
    ASSUME IInv, NEW i \in Index, NEW j \in Index, tn_strstr(i, j)
    PROVE  Values!Question
<1>. DEFINE text == Text(strs[i])
            sub == Text(strs[j])
            last == Len(text) - Len(sub) + 1
            Match(n) == StopsAt(0, Len(sub), LAMBDA k : text[n + k + 1] # sub[k + 1])
                            = Len(sub)
            S == {n \in 0 .. last - 1 : Match(n)}
            found == Min(S \cup {last})
            places == Values!Places(sub, text)
<1>1. text \in Seq(Alphabet) /\ sub \in Seq(Alphabet)
      /\ Len(text) \in Nat /\ Len(sub) \in Nat
  BY TextIs, LenProperties
<1>2. Values!Calls("strstr") /\ Values!String(1) = text /\ Values!String(2) = sub
  BY GivenTwo DEF tn_strstr
<1>3. \/ sub = <<>> /\ Answers(TRUE, 0)
      \/ Len(sub) > Len(text) /\ Answers(FALSE, 0)
      \/ /\ sub # <<>> /\ Len(sub) <= Len(text)
         /\ IF found = last THEN Answers(FALSE, 0) ELSE Answers(TRUE, found)
  BY DEF tn_strstr, StopsAt
<1>4. last \in Int /\ (Len(sub) <= Len(text) => last \in Nat)
      /\ (Len(sub) > Len(text) => last - 1 < 0)
  BY <1>1
<1>5. sub # <<>> => places = S
  BY <1>1, <1>4, PlacesOfText
<1>6. S \in SUBSET (0 .. last - 1)
  OBVIOUS
<1>7. sub = <<>> => Len(sub) = 0
  BY EmptySeq
<1>8. ASSUME sub = <<>> PROVE places # {} /\ Min(places) = 0
  <2>1. places \in SUBSET Nat
    BY <1>1 DEF Values!Places
  <2>2. DOMAIN sub = {}
    BY <1>8
  <2>3. 0 \in places
    BY <1>1, <2>2 DEF Values!Places, Values!Occurs
  <2>. DEFINE least == Min(places)
  <2>4. least \in places /\ \A k \in places : least <= k
    BY <2>1, <2>3, LeastOf
  <2>. HIDE DEF least, places
  <2>5. least \in Nat /\ least <= 0
    BY <2>1, <2>3, <2>4
  <2>6. least = 0
    BY <2>5
  <2>. QED
    BY <2>3, <2>6 DEF least
<1>. HIDE DEF S, last, text, sub, places
<1>9. Len(sub) <= Len(text) => (found = last <=> S = {}) /\ (S # {} => Min(S) = found)
  BY <1>4, <1>6, FirstOf
<1>10. Len(sub) > Len(text) => S = {}
  BY <1>4, <1>6
<1>. HIDE DEF found
<1>11. Values!Finds(places, Values!Min)
  <2>1. CASE sub = <<>> /\ Answers(TRUE, 0)
    <3>1. Values!Answers(TRUE, Values!Min(places))
      BY <1>8, <2>1, Answered, SameBounds
    <3>. QED
      BY <1>8, <2>1, <3>1 DEF Values!Finds
  <2>2. CASE Len(sub) > Len(text) /\ Answers(FALSE, 0)
    <3>1. sub # <<>>
      BY <1>1, <1>7, <2>2
    <3>. QED
      BY <1>5, <1>10, <2>2, <3>1, Answered DEF Values!Finds
  <2>3. CASE /\ sub # <<>> /\ Len(sub) <= Len(text)
             /\ IF found = last THEN Answers(FALSE, 0) ELSE Answers(TRUE, found)
    <3>1. CASE S = {}
      BY <1>5, <1>9, <2>3, <3>1, Answered DEF Values!Finds
    <3>2. CASE S # {}
      <4>1. Values!Answers(TRUE, Values!Min(S))
        BY <1>9, <2>3, <3>2, Answered, SameBounds
      <4>. QED
        BY <1>5, <2>3, <3>2, <4>1 DEF Values!Finds
    <3>. QED
      BY <3>1, <3>2
  <2>. QED
    BY <1>3, <2>1, <2>2, <2>3
<1>. QED
  BY <1>2, <1>11 DEF Values!Question, places

\* The rows of tn_strdistance(), entry by entry.
Least(a, b, c) == Min({a, b, c})

LEMMA EntriesAre ==
    ASSUME NEW text1 \in Seq(Alphabet), NEW text2 \in Seq(Alphabet),
           NEW N, N = Len(text1), NEW n, n = Len(text2)
    PROVE  LET rows == Rows(text1, text2)
           IN  /\ \A i \in 0 .. N : \A j \in 0 .. n : rows[i][j] \in Nat
               /\ \A j \in 0 .. n : rows[0][j] = j
               /\ \A i \in 1 .. N : rows[i][0] = i
               /\ \A i \in 1 .. N : \A j \in 1 .. n :
                     rows[i][j] = Least(rows[i - 1][j] + 1, rows[i][j - 1] + 1,
                                        rows[i - 1][j - 1]
                                            + (IF text1[i] = text2[j] THEN 0 ELSE 1))
<1>. DEFINE rows == Rows(text1, text2)
            Row(i) == NextRow(rows[i - 1], i, text1, text2)
            Cost(i, j) == IF text1[i] = text2[j] THEN 0 ELSE 1
<1>1. N \in Nat /\ n \in Nat
  BY LenProperties
<1>2. /\ \A i \in 0 .. N : rows[i] \in [0 .. n -> Nat]
      /\ rows[0] = [j \in 0 .. n |-> j]
      /\ \A i \in 1 .. N : rows[i] = Row(i)
  BY RowsAre
<1>. HIDE DEF rows
<1>3. ASSUME NEW i \in 1 .. N
      PROVE  /\ rows[i][0] = i
             /\ \A j \in 1 .. n : rows[i][j] = Least(rows[i - 1][j] + 1, rows[i][j - 1] + 1,
                                                     rows[i - 1][j - 1] + Cost(i, j))
  <2>. DEFINE prev_row == rows[i - 1]
  <2>1. prev_row \in [0 .. n -> Nat] /\ i \in Nat /\ rows[i] = Row(i)
    <3>1. i - 1 \in 0 .. N /\ i \in Nat
      BY <1>1
    <3>. QED
      BY <1>2, <3>1
  <2>. HIDE DEF prev_row
  <2>2. Follows(NextRow(prev_row, i, text1, text2), prev_row, i, text1, text2)
    BY <1>1, <2>1, NextRowIs
  <2>3. NextRow(prev_row, i, text1, text2) = rows[i]
    BY <2>1 DEF prev_row
  <2>4. /\ rows[i][0] = i
        /\ \A j \in 1 .. n :
              rows[i][j] = min_size3(rows[i][j - 1] + 1, prev_row[j] + 1,
                                     prev_row[j - 1] + (IF text2[j] # text1[i] THEN 1 ELSE 0))
    BY <2>2, <2>3 DEF Follows
  <2>5. \A j : (IF text2[j] # text1[i] THEN 1 ELSE 0) = Cost(i, j)
    OBVIOUS
  <2>6. \A a, b, c : min_size3(a, b, c) = Least(b, a, c)
    <3>1. ASSUME NEW a, NEW b, NEW c PROVE min_size3(a, b, c) = Least(b, a, c)
      <4>1. {a, b, c} = {b, a, c}
        OBVIOUS
      <4>. QED
        BY <4>1 DEF min_size3, Least
    <3>. QED
      BY <3>1
  <2>. HIDE DEF Cost
  <2>7. \A j \in 1 .. n : rows[i][j] = Least(prev_row[j] + 1, rows[i][j - 1] + 1,
                                             prev_row[j - 1] + Cost(i, j))
    BY <2>4, <2>5, <2>6
  <2>. QED
    BY <2>4, <2>7 DEF prev_row
<1>4. \A i \in 0 .. N : \A j \in 0 .. n : rows[i][j] \in Nat
  BY <1>2
<1>5. \A j \in 0 .. n : rows[0][j] = j
  BY <1>2
<1>. QED
  BY <1>3, <1>4, <1>5 DEF rows

LEMMA DistanceIs ==
    ASSUME NEW text1 \in Seq(Alphabet), NEW text2 \in Seq(Alphabet)
    PROVE  Values!Distance(text1, text2) = Rows(text1, text2)[Len(text1)][Len(text2)]
<1>. DEFINE N == Len(text1)
            n == Len(text2)
            P == (0 .. N) \X (0 .. n)
            rows == Rows(text1, text2)
            Cost(i, j) == IF text1[i] = text2[j] THEN 0 ELSE 1
            Entry(d, i, j) == IF i = 0 THEN j
                              ELSE IF j = 0 THEN i
                              ELSE Least(d[<<i - 1, j>>] + 1, d[<<i, j - 1>>] + 1,
                                         d[<<i - 1, j - 1>>] + Cost(i, j))
            F(g) == [p \in P |-> Entry(g, p[1], p[2])]
            d == CHOOSE g : g = F(g)
            f == [p \in P |-> rows[p[1]][p[2]]]
<1>1. N \in Nat /\ n \in Nat
  BY LenProperties
<1>2. /\ \A j \in 0 .. n : rows[0][j] = j
      /\ \A i \in 1 .. N : rows[i][0] = i
      /\ \A i \in 1 .. N : \A j \in 1 .. n :
            rows[i][j] = Least(rows[i - 1][j] + 1, rows[i][j - 1] + 1,
                               rows[i - 1][j - 1] + Cost(i, j))
  BY EntriesAre
<1>3. Values!Distance(text1, text2) = d[<<N, n>>]
  BY SameBounds, ZenonT(60) DEF Values!Distance, Least
<1>. HIDE DEF N, n, rows, Cost
<1>4. \A i \in 1 .. N : i \in 0 .. N /\ i - 1 \in 0 .. N /\ i # 0
  BY <1>1
<1>5. \A j \in 1 .. n : j \in 0 .. n /\ j - 1 \in 0 .. n /\ j # 0
  BY <1>1
<1>6. 0 \in 0 .. N /\ 0 \in 0 .. n
  BY <1>1
<1>7. /\ \A i \in 0 .. N : i = 0 \/ i \in 1 .. N
      /\ \A j \in 0 .. n : j = 0 \/ j \in 1 .. n
  BY <1>1
<1>8. \A i \in 0 .. N : \A j \in 0 .. n : <<i, j>> \in P /\ f[<<i, j>>] = rows[i][j]
  OBVIOUS
<1>. HIDE DEF f
<1>9. ASSUME NEW i \in 0 .. N, NEW j \in 0 .. n PROVE f[<<i, j>>] = Entry(f, i, j)
  <2>1. CASE i = 0
    BY <1>2, <1>8, <2>1
  <2>2. CASE i \in 1 .. N /\ j = 0
    BY <1>2, <1>4, <1>8, <2>2
  <2>3. CASE i \in 1 .. N /\ j \in 1 .. n
    <3>1. /\ i # 0 /\ j # 0 /\ i - 1 \in 0 .. N /\ j - 1 \in 0 .. n
      BY <1>4, <1>5, <2>3
    <3>2. /\ f[<<i - 1, j>>] = rows[i - 1][j]
          /\ f[<<i, j - 1>>] = rows[i][j - 1]
          /\ f[<<i - 1, j - 1>>] = rows[i - 1][j - 1]
          /\ f[<<i, j>>] = rows[i][j]
      BY <1>8, <3>1
    <3>3. rows[i][j] = Least(rows[i - 1][j] + 1, rows[i][j - 1] + 1,
                             rows[i - 1][j - 1] + Cost(i, j))
      BY <1>2, <2>3
    <3>. QED
      BY <3>1, <3>2, <3>3
  <2>. QED
    BY <1>7, <2>1, <2>2, <2>3
<1>. HIDE DEF Entry
<1>10. f = F(f)
  <2>1. f = [p \in P |-> f[p]]
    BY DEF f
  <2>2. ASSUME NEW p \in P PROVE f[p] = Entry(f, p[1], p[2])
    <3>1. p[1] \in 0 .. N /\ p[2] \in 0 .. n /\ p = <<p[1], p[2]>>
      OBVIOUS
    <3>. QED
      BY <1>9, <3>1
  <2>. QED
    BY <2>1, <2>2
<1>. HIDE DEF F
<1>11. d = F(d)
  BY <1>10
<1>. HIDE DEF d
<1>12. \A i \in 0 .. N : \A j \in 0 .. n : d[<<i, j>>] = Entry(d, i, j)
  <2>1. ASSUME NEW i \in 0 .. N, NEW j \in 0 .. n PROVE d[<<i, j>>] = Entry(d, i, j)
    <3>. DEFINE p == <<i, j>>
    <3>1. p \in P /\ p[1] = i /\ p[2] = j
      OBVIOUS
    <3>. HIDE DEF p
    <3>2. F(d)[p] = Entry(d, p[1], p[2])
      BY <3>1 DEF F
    <3>. QED
      BY <1>11, <3>1, <3>2 DEF p
  <2>. QED
    BY <2>1
<1>13. /\ \A j \in 0 .. n : d[<<0, j>>] = j
       /\ \A i \in 1 .. N : d[<<i, 0>>] = i
       /\ \A i \in 1 .. N : \A j \in 1 .. n :
             d[<<i, j>>] = Least(d[<<i - 1, j>>] + 1, d[<<i, j - 1>>] + 1,
                                 d[<<i - 1, j - 1>>] + Cost(i, j))
  BY <1>4, <1>5, <1>6, <1>12 DEF Entry
<1>. DEFINE Same(i) == \A j \in 0 .. n : d[<<i, j>>] = rows[i][j]
            I == {i \in Nat : i <= N => Same(i)}
<1>14. ASSUME NEW i \in 1 .. N, Same(i - 1) PROVE Same(i)
  <2>. DEFINE J == {j \in Nat : j <= n => d[<<i, j>>] = rows[i][j]}
  <2>1. d[<<i, 0>>] = rows[i][0]
    BY <1>2, <1>13
  <2>2. ASSUME NEW j \in 1 .. n, d[<<i, j - 1>>] = rows[i][j - 1]
        PROVE  d[<<i, j>>] = rows[i][j]
    <3>1. d[<<i - 1, j>>] = rows[i - 1][j] /\ d[<<i - 1, j - 1>>] = rows[i - 1][j - 1]
      BY <1>5, <1>14
    <3>2. /\ d[<<i, j>>] = Least(d[<<i - 1, j>>] + 1, d[<<i, j - 1>>] + 1,
                                 d[<<i - 1, j - 1>>] + Cost(i, j))
          /\ rows[i][j] = Least(rows[i - 1][j] + 1, rows[i][j - 1] + 1,
                                rows[i - 1][j - 1] + Cost(i, j))
      BY <1>2, <1>13
    <3>. QED
      BY <2>2, <3>1, <3>2
  <2>3. ASSUME NEW j \in J PROVE j + 1 \in J
    <3>1. j + 1 <= n => j + 1 \in 1 .. n /\ (j + 1) - 1 = j /\ j <= n
      BY <1>1
    <3>. QED
      BY <2>2, <3>1
  <2>4. J \in SUBSET Nat /\ 0 \in J
    BY <2>1
  <2>. HIDE DEF J
  <2>5. J = Nat
    BY <2>3, <2>4, AllNaturals
  <2>. QED
    BY <1>1, <2>5 DEF J
<1>15. Same(0)
  BY <1>2, <1>13
<1>. HIDE DEF Same
<1>16. ASSUME NEW i \in I PROVE i + 1 \in I
  <2>1. i + 1 <= N => i + 1 \in 1 .. N /\ (i + 1) - 1 = i /\ i <= N
    BY <1>1
  <2>. QED
    BY <1>14, <2>1
<1>17. I \in SUBSET Nat /\ 0 \in I
  BY <1>15
<1>. HIDE DEF I
<1>18. I = Nat
  BY <1>16, <1>17, AllNaturals
<1>19. Same(N)
  BY <1>1, <1>18 DEF I
<1>20. d[<<N, n>>] = rows[N][n]
  BY <1>1, <1>19 DEF Same
<1>. QED
  BY <1>3, <1>20 DEF N, n, rows

\* What the shortcuts of tn_strdistance() answer is in the rows too.
LEMMA EqualAreNear ==
    ASSUME NEW text \in Seq(Alphabet)
    PROVE  Rows(text, text)[Len(text)][Len(text)] = 0
<1>. DEFINE N == Len(text)
            rows == Rows(text, text)
            I == {i \in Nat : i <= N => rows[i][i] = 0}
<1>1. N \in Nat
  BY LenProperties
<1>2. /\ \A i \in 0 .. N : \A j \in 0 .. N : rows[i][j] \in Nat
      /\ \A j \in 0 .. N : rows[0][j] = j
      /\ \A i \in 1 .. N : \A j \in 1 .. N :
            rows[i][j] = Least(rows[i - 1][j] + 1, rows[i][j - 1] + 1,
                               rows[i - 1][j - 1]
                                   + (IF text[i] = text[j] THEN 0 ELSE 1))
  BY EntriesAre
<1>. HIDE DEF N, rows
<1>3. ASSUME NEW i \in 1 .. N, rows[i - 1][i - 1] = 0 PROVE rows[i][i] = 0
  <2>. DEFINE a == rows[i - 1][i] + 1
              b == rows[i][i - 1] + 1
  <2>1. i \in 0 .. N /\ i - 1 \in 0 .. N
    BY <1>1
  <2>2. a \in Nat /\ b \in Nat
    BY <1>2, <2>1
  <2>3. rows[i][i] = Least(a, b, rows[i - 1][i - 1] + (IF text[i] = text[i] THEN 0 ELSE 1))
    BY <1>2
  <2>4. rows[i - 1][i - 1] + (IF text[i] = text[i] THEN 0 ELSE 1) = 0
    BY <1>3
  <2>. HIDE DEF a, b
  <2>5. rows[i][i] = Least(a, b, 0)
    BY <2>3, <2>4
  <2>. DEFINE T == {a, b, 0}
  <2>6. T \in SUBSET Nat /\ 0 \in T
    BY <2>2
  <2>. DEFINE least == Min(T)
  <2>7. least \in T /\ \A k \in T : least <= k
    BY <2>6, LeastOf
  <2>8. least = rows[i][i]
    BY <2>5 DEF Least
  <2>. HIDE DEF T, least
  <2>9. least \in Nat /\ least <= 0
    BY <2>6, <2>7
  <2>. QED
    BY <2>8, <2>9
<1>4. ASSUME NEW i \in I PROVE i + 1 \in I
  <2>1. i + 1 <= N => i + 1 \in 1 .. N /\ (i + 1) - 1 = i /\ i <= N
    BY <1>1
  <2>. QED
    BY <1>3, <2>1
<1>5. I \in SUBSET Nat /\ 0 \in I
  BY <1>1, <1>2
<1>. HIDE DEF I
<1>6. I = Nat
  BY <1>4, <1>5, AllNaturals
<1>7. rows[N][N] = 0
  BY <1>1, <1>6 DEF I
<1>. QED
  BY <1>7 DEF rows, N

LEMMA StrdistanceAsks ==
    ASSUME IInv, NEW i \in Index, NEW j \in Index, tn_strdistance(i, j)
    PROVE  Values!Question
<1>. DEFINE text1 == Text(strs[i])
            text2 == Text(strs[j])
            N == Len(text1)
            n == Len(text2)
            rows == Rows(text1, text2)
            distance == Values!Distance(text1, text2)
<1>1. text1 \in Seq(Alphabet) /\ text2 \in Seq(Alphabet)
  BY TextIs
<1>2. Values!Calls("strdistance") /\ Values!String(1) = text1 /\ Values!String(2) = text2
  BY GivenTwo DEF tn_strdistance
<1>3. \/ Compare(text1, text2) = 0 /\ Answers(TRUE, 0)
      \/ text1 = <<>> /\ text2 # <<>> /\ Answers(TRUE, n)
      \/ text2 = <<>> /\ text1 # <<>> /\ Answers(TRUE, N)
      \/ Answers(TRUE, rows[N][n])
  BY DEF tn_strdistance
<1>. HIDE DEF text1, text2
<1>4. distance = rows[N][n]
  BY <1>1, DistanceIs
<1>5. Compare(text1, text2) = 0 => rows[N][n] = 0
  BY <1>1, CompareOrders, EqualAreNear
<1>6. N \in Nat /\ n \in Nat
  BY <1>1, LenProperties
<1>7. (\A k \in 0 .. n : rows[0][k] = k) /\ (\A k \in 1 .. N : rows[k][0] = k)
  BY <1>1, EntriesAre
<1>8. (text1 = <<>> => N = 0) /\ (text2 = <<>> => n = 0) /\ (text1 # <<>> => N # 0)
  BY <1>1, EmptyText
<1>. HIDE DEF N, n, rows, distance
<1>9. N = 0 => rows[N][n] = n
  BY <1>6, <1>7
<1>10. N # 0 /\ n = 0 => rows[N][n] = N
  <2>1. N # 0 => N \in 1 .. N
    BY <1>6
  <2>. QED
    BY <1>7, <2>1
<1>11. Answers(TRUE, distance)
  BY <1>3, <1>4, <1>5, <1>8, <1>9, <1>10
<1>12. Values!Answers(TRUE, distance)
  BY <1>11, Answered
<1>. QED
  BY <1>2, <1>12 DEF Values!Question, distance

-----------------------------------------------------------------------------
(* The refinement.                                                         *)

LEMMA MadeMaps == ASSUME IInv, Made PROVE [Values!Next]_(Values!vars)
<1>1. ASSUME NEW text \in Literals,
             \/ TN_STRING_LITERAL(text) \/ tn_cstr2str(text)
             \/ tn_strdup(text) \/ tn_strdupmem(text)
      PROVE  Values!Next
  BY <1>1, MadeCopies DEF Values!Next
<1>2. ASSUME \/ \E text \in Formatted : tn_strvprintf(text)
             \/ Fails
             \/ \E text \in Times : tn_strftime(text)
             \/ GrowBuffer
      PROVE  [Values!Next]_(Values!vars)
  <2>1. Values!Format \/ UNCHANGED Values!vars
    BY <1>2, Formats
  <2>. QED
    BY <2>1 DEF Values!Next
<1>. QED
  BY <1>1, <1>2 DEF Made

LEMMA DerivedMaps == ASSUME NoWrap, IInv, Derived PROVE Values!Next
<1>1. ASSUME NEW i \in Index, tn_str2cstr(i) PROVE Values!Next
  BY <1>1, Str2CstrCopies DEF Values!Next
<1>2. ASSUME NEW i \in Index, NEW j \in Index,
             tn_strcat(i, j) \/ tn_strlcprefix(i, j) \/ tn_strlcsuffix(i, j)
      PROVE  Values!Next
  BY <1>2, StrcatConcatenates, PrefixTakes, SuffixTakes DEF Values!Next
<1>3. ASSUME NEW i \in Index, NEW ch \in Characters, tn_straddch(i, ch) PROVE Values!Next
  BY <1>3, StraddchConcatenates DEF Values!Next
<1>4. ASSUME NEW n \in 0 .. MaxJoined, NEW sep \in Index, NEW args \in [1 .. n -> Index],
             tn_strcats(args, sep)
      PROVE  Values!Next
  BY <1>4, StrcatsConcatenates DEF Values!Next
<1>5. ASSUME NEW i \in Index, NEW n \in Counts, tn_strrepeat(i, n) PROVE Values!Next
  BY <1>5, StrrepeatConcatenates DEF Values!Next
<1>6. ASSUME NEW i \in Index, NEW pos \in Sizes, NEW len \in Sizes,
             tn_substr(i, pos, len) \/ tn_strcut(i, pos, len)
      PROVE  Values!Next
  BY <1>6, SubstrTakes, StrcutTakes DEF Values!Next
<1>7. ASSUME NEW i \in Index, NEW p \in Predicates, tn_strfilter(i, p) PROVE Values!Next
  BY <1>7, StrfilterFilters DEF Values!Next
<1>8. ASSUME NEW i \in Index, NEW p \in Predicates, NEW wanted \in BOOLEAN,
             tn_strtok(i, p, wanted)
      PROVE  Values!Next
  BY <1>8, StrtokTokens DEF Values!Next
<1>9. ASSUME NEW i \in Index, NEW f \in Maps, tn_strmap(i, f) PROVE Values!Next
  BY <1>9, StrmapMaps DEF Values!Next
<1>. QED
  BY <1>1, <1>2, <1>3, <1>4, <1>5, <1>6, <1>7, <1>8, <1>9 DEF Derived

LEMMA AskedMaps == ASSUME IInv, Asked PROVE Values!Next
<1>1. ASSUME NEW i \in Index, tn_strlen(i) PROVE Values!Next
  BY <1>1, StrlenAsks DEF Values!Next
<1>2. ASSUME NEW i \in Index,
             \/ \E n \in Sizes : tn_strget(i, n)
             \/ \E n \in Counts : tn_strvscanf(i, n)
      PROVE  Values!Next
  BY <1>2, StrgetAsks, StrscanfAsks DEF Values!Next
<1>3. ASSUME NEW i \in Index, NEW ch \in Characters, tn_strchr(i, ch) \/ tn_strrchr(i, ch)
      PROVE  Values!Next
  BY <1>3, StrchrAsks, StrrchrAsks DEF Values!Next
<1>4. ASSUME NEW i \in Index, NEW j \in Index,
             \/ tn_strcmp(i, j) \/ tn_strstr(i, j)
             \/ tn_strisprefix(i, j) \/ tn_strissuffix(i, j) \/ tn_strdistance(i, j)
      PROVE  Values!Next
  BY <1>4, StrcmpAsks, StrstrAsks, StrisprefixAsks, StrissuffixAsks, StrdistanceAsks
     DEF Values!Next
<1>. QED
  BY <1>1, <1>2, <1>3, <1>4 DEF Asked

LEMMA InitMaps == Init => Values!Init
BY DEF Init, Values!Init, Texts

LEMMA NextMaps == ASSUME NoWrap, IInv, [Next]_vars PROVE [Values!Next]_(Values!vars)
<1>1. CASE UNCHANGED vars
  BY <1>1 DEF vars, Values!vars, Texts, Text
<1>. QED
  BY <1>1, MadeMaps, DerivedMaps, AskedMaps DEF Next

\* Clients that mind the limits of size_t see values: whatever buffers strings
\* share, every function of dstring.c yields the string or the answer that the
\* texts of its arguments determine, and changes the text of no other string.
THEOREM StringsAreValues == ASSUME NoWrap PROVE Spec => ValueSemantics
<1>1. Init => Values!Init
  BY InitMaps
<1>2. IInv /\ [Next]_vars => [Values!Next]_(Values!vars)
  BY NextMaps
<1>3. Spec => []IInv
  BY SpecIInv
<1>. QED
  BY <1>1, <1>2, <1>3, PTL DEF Spec, ValueSemantics, Values!Spec
=============================================================================
