------------------------------ MODULE DString -------------------------------
(***************************************************************************)
(* dstring.c and dstring.h: strings as slices, a pointer and a length, of  *)
(* buffers they share and nobody changes.  The collector frees only what   *)
(* no slice refers to, so buffers are numbered for ever.  A character is a *)
(* small number, NUL is 0.                                                 *)
(***************************************************************************)
EXTENDS Integers, Sequences, SequencesExt, FiniteSetsExt

CONSTANTS Alphabet,    \* the characters there are
          Literals,    \* texts of the client's own
          Formatted,   \* texts that its printf formats produce
          Times,       \* texts that its strftime formats produce
          Sizes,       \* arguments of type size_t
          Counts,      \* arguments of type unsigned
          Characters,  \* arguments of type char
          Predicates,  \* callbacks: sets of characters
          Maps,        \* callbacks: functions on characters
          Junk,        \* what memory not written to may hold
          SizeMod,     \* SIZE_MAX + 1
          Memory,      \* the largest block the collector can give
          ShortBuf,    \* sizeof(buf) in the formatting functions, 64
          MaxText,     \* bound: characters in a string
          MaxJoined,   \* bound: arguments of tn_strcats()
          MaxSources,  \* bound: strings made of the client's own texts,
                       \* before any other
          MaxStrings   \* bound: strings made

ASSUME DStringAssumption ==
    /\ {SizeMod, Memory, ShortBuf, MaxText, MaxSources, MaxStrings} \subseteq Nat \ {0}
    /\ MaxText < Memory /\ 2 * Memory < SizeMod
    /\ MaxJoined \in Nat
    /\ Sizes \cup Counts \subseteq 0 .. SizeMod - 1
    /\ Junk # {}

ASSUME TextsAssumption ==
    /\ 0 \in Alphabet /\ Alphabet \subseteq Nat
    /\ \A text \in Literals \cup Formatted \cup Times :
           text \in Seq(Alphabet) /\ Len(text) <= MaxText
    /\ Characters \cup Junk \subseteq Alphabet
    /\ \A func \in Maps : func \in [Alphabet -> Alphabet]

VARIABLES
    heap,    \* buffers: sequences of characters
    strs,    \* tn_string values of the client
    pc,      \* "idle" between calls, "strftime" in its loop; "assert", an
             \* allocation failed; "overrun", a write missed its buffer;
             \* "done", a call left all strings alone (bound: it is the last;
             \* what may follow it may also come in its place)
    job,     \* the loop's text and maxsize
    \* History, see StringValues.
    call, answer

vars == <<heap, strs, pc, job, call, answer>>

\* A pointer off characters into a buffer, and a length; buffer 0 is NULL.
Slice(buf, off, len) == [buf |-> buf, off |-> off, len |-> len]
TN_EMPTY_STRING == Slice(0, 0, 0)

NoJob == [text |-> <<>>, maxsize |-> 0]

Init ==
    /\ heap = <<>>
    /\ strs = <<>>
    /\ pc = "idle"
    /\ job = NoJob
    /\ call = [name |-> "none", on |-> <<>>, with |-> <<>>]
    /\ answer = [found |-> FALSE, value |-> 0]

-----------------------------------------------------------------------------

Text(str) == IF str.buf = 0 THEN <<>>
             ELSE SubSeq(heap[str.buf], str.off + 1, str.off + str.len)

\* The index at which a loop from one index up to another stops early, or the
\* latter.
StopsAt(from, to, Stop(_)) == Min({i \in from .. to - 1 : Stop(i)} \cup {to})

\* What a C function takes for a string that begins off characters into a buffer.
CStringAt(buf, off) ==
    SubSeq(buf, off + 1, StopsAt(off, Len(buf), LAMBDA i : buf[i + 1] = 0))

Calls(name, on, with) ==
    /\ pc = "idle"
    /\ call' = [name |-> name, on |-> on, with |-> with]

Returns(str) ==
    /\ Len(strs) < MaxStrings
    /\ strs' = Append(strs, str)
    /\ UNCHANGED <<heap, pc, job, answer>>

\* A slice of len characters of a new buffer of size bytes; cells are written to
\* the beginning of it.
Builds(size, cells, len) ==
    /\ Len(strs) < MaxStrings
    /\ \/ /\ Len(cells) > size
          /\ pc' = "overrun"
          /\ UNCHANGED <<heap, strs>>
       \/ /\ Len(cells) <= size
          /\ \E junk \in Junk :
                 heap' = Append(heap, [k \in 1 .. size |->
                             IF k <= Len(cells) THEN cells[k] ELSE junk])
          /\ strs' = Append(strs, Slice(Len(heap) + 1, 0, len))
          /\ UNCHANGED pc
    /\ UNCHANGED <<job, answer>>

\* A call that answers a question.
Answers(found, value) ==
    /\ Len(strs) < MaxStrings
    /\ answer' = [found |-> found, value |-> value]
    /\ pc' = "done"
    /\ UNCHANGED <<heap, strs, job>>

BuildsText(text) == Builds(Len(text) + 1, Append(text, 0), Len(text))

-----------------------------------------------------------------------------
(* Strings from and to the client's memory.                                *)

TN_STRING_LITERAL(text) ==
    /\ Calls("literal", <<>>, <<text>>)
    /\ BuildsText(text)

tn_cstr2str(text) ==
    /\ Calls("cstr2str", <<>>, <<text>>)
    /\ Builds(Len(text) + 1, Append(text, 0), Len(CStringAt(Append(text, 0), 0)))

\* tn_strdup() of a C string.
Dup(text) == IF text = <<>> THEN Returns(TN_EMPTY_STRING) ELSE BuildsText(text)

tn_strdup(text) ==
    /\ Calls("strdup", <<>>, <<text>>)
    /\ Dup(CStringAt(Append(text, 0), 0))

tn_strdupmem(data) ==
    /\ Calls("strdupmem", <<>>, <<data>>)
    /\ Dup(data)

\* The character after a string is a NUL.
Terminated(str) == heap[str.buf][str.off + str.len + 1] = 0

\* The result comes back as tn_cstr2str() of it.
tn_str2cstr(i) ==
    /\ Calls("str2cstr", <<i>>, <<>>)
    /\ LET str == strs[i]
           chars == Append(Text(str), 0)
           len == Len(CStringAt(chars, 0))
       IN  \/ str.buf = 0 /\ Builds(1, <<0>>, 0)
           \/ /\ str.buf # 0
              /\ Terminated(str)
              /\ Returns(Slice(str.buf, str.off,
                               Len(CStringAt(heap[str.buf], str.off))))
           \/ /\ str.buf # 0
              /\ ~Terminated(str)
              /\ Builds(str.len + 1, chars, len)

-----------------------------------------------------------------------------
(* Concatenation.                                                          *)

tn_strcat(i, j) ==
    /\ Calls("strcat", <<i, j>>, <<>>)
    /\ LET str1 == strs[i]
           str2 == strs[j]
       IN  /\ str1.len + str2.len <= MaxText
           /\ \/ str2.len = 0 /\ Returns(str1)
              \/ str2.len # 0 /\ str1.len = 0 /\ Returns(str2)
              \/ /\ str2.len # 0 /\ str1.len # 0
                 /\ BuildsText(Text(str1) \o Text(str2))

\* Mutant: the terminator counts.
tn_straddch_Counted(i, ch) ==
    /\ Calls("straddch", <<i>>, <<ch>>)
    /\ strs[i].len < MaxText
    /\ Builds(strs[i].len + 2, Text(strs[i]) \o <<ch, 0>>, strs[i].len + 2)

tn_straddch(i, ch) ==
    /\ Calls("straddch", <<i>>, <<ch>>)
    /\ strs[i].len < MaxText
    /\ Builds(strs[i].len + 2, Text(strs[i]) \o <<ch, 0>>, strs[i].len + 1)

\* The length of the strings args with sep between them, and then the characters,
\* which a loop of their own copies.
LengthOfAll(args, sep) ==
    LET str(k) == strs[args[k + 1]]
        len[i \in 0 .. Len(args) - 1] == IF i = 0 THEN str(i).len
                                         ELSE len[i - 1] + strs[sep].len + str(i).len
    IN  len
CharsOfAll(args, sep) ==
    LET str(k) == strs[args[k + 1]]
        chars[i \in 0 .. Len(args) - 1] == IF i = 0 THEN Text(str(i))
                                           ELSE chars[i - 1] \o Text(strs[sep]) \o Text(str(i))
    IN  chars

Plus(m, n) == (m + n) % SizeMod

\* A text of total characters, whose size and length are computed in size_t.
\* MaxText bounds the texts that fit; one whose size wraps gets what the collector
\* can give.
BuildsCounted(total, chars) ==
    LET len == total % SizeMod
    IN  /\ \/ total <= MaxText
           \/ total + 1 >= SizeMod /\ Plus(len, 1) <= Memory
        /\ Builds(Plus(len, 1), Append(chars, 0), len)

tn_strcats(args, sep) ==
    /\ Calls("strcats", <<sep>> \o args, <<>>)
    /\ LET n == Len(args)
       IN  \/ n = 0 /\ Returns(TN_EMPTY_STRING)
           \/ n = 1 /\ Returns(strs[args[1]])
           \/ n > 1 /\ BuildsCounted(LengthOfAll(args, sep)[n - 1],
                                     CharsOfAll(args, sep)[n - 1])

tn_strrepeat(i, n) ==
    /\ Calls("strrepeat", <<i>>, <<n>>)
    /\ LET str == strs[i]
           total == str.len * n
           chars == [k \in 1 .. total |-> Text(str)[((k - 1) % str.len) + 1]]
       IN  \/ (n = 0 \/ str.len = 0) /\ Returns(TN_EMPTY_STRING)
           \/ str.len # 0 /\ n = 1 /\ Returns(str)
           \/ str.len # 0 /\ n > 1 /\ BuildsCounted(total, chars)

-----------------------------------------------------------------------------
(* Parts of a string.                                                      *)

\* Mutant: the length is not cut to what there is after pos.
tn_substr_Uncut(i, pos, len) ==
    /\ Calls("substr", <<i>>, <<pos, len>>)
    /\ LET str == strs[i]
       IN  Returns(IF pos >= str.len \/ len = 0 THEN TN_EMPTY_STRING
                   ELSE Slice(str.buf, str.off + pos, len))

tn_substr(i, pos, len) ==
    /\ Calls("substr", <<i>>, <<pos, len>>)
    /\ LET str == strs[i]
           len1 == IF Plus(pos, len) > str.len THEN str.len - pos ELSE len
       IN  Returns(IF pos >= str.len \/ len1 = 0 THEN TN_EMPTY_STRING
                   ELSE Slice(str.buf, str.off + pos, len1))

\* The last byte allocated is not written to.  Pointers wrap as lengths do.
tn_strcut(i, pos, len) ==
    /\ Calls("strcut", <<i>>, <<pos, len>>)
    /\ LET str == strs[i]
           newlen == (str.len - len) % SizeMod
           chars == SubSeq(Text(str), 1, pos)
                        \o SubSeq(Text(str), Plus(pos, len) + 1, str.len)
       IN  \/ (pos >= str.len \/ len = 0) /\ Returns(str)
           \/ /\ pos < str.len /\ len # 0
              /\ \/ /\ Plus(pos, len) >= str.len
                    /\ Returns(IF pos = 0 THEN TN_EMPTY_STRING
                               ELSE Slice(str.buf, str.off, pos))
                 \/ /\ Plus(pos, len) < str.len
                    /\ pos = 0
                    /\ Returns(Slice(str.buf, str.off + len, str.len - len))
                 \/ /\ Plus(pos, len) < str.len
                    /\ pos # 0
                    /\ Builds(newlen + 1, chars, newlen)

\* Two strings agree on their first n characters, and then not or no more.
tn_strlcprefix(i, j) ==
    /\ Calls("strlcprefix", <<i, j>>, <<>>)
    /\ LET text1 == Text(strs[i])
           text2 == Text(strs[j])
           n == StopsAt(0, Min({Len(text1), Len(text2)}),
                        LAMBDA k : text1[k + 1] # text2[k + 1])
       IN  Returns(IF n = 0 THEN TN_EMPTY_STRING
                   ELSE Slice(strs[i].buf, strs[i].off, n))

tn_strlcsuffix(i, j) ==
    /\ Calls("strlcsuffix", <<i, j>>, <<>>)
    /\ LET text1 == Text(strs[i])
           text2 == Text(strs[j])
           n == StopsAt(0, Min({Len(text1), Len(text2)}),
                        LAMBDA k : text1[Len(text1) - k] # text2[Len(text2) - k])
       IN  Returns(IF n = 0 THEN TN_EMPTY_STRING
                   ELSE Slice(strs[i].buf, strs[i].off + strs[i].len - n, n))

\* The string moves past the token, which is returned if it is wanted.
tn_strtok(i, predicate, wanted) ==
    /\ Calls("strtok", <<i>>, <<predicate, wanted>>)
    /\ LET src == strs[i]
           Sep(k) == Text(src)[k + 1] \in predicate
           start == StopsAt(0, src.len, LAMBDA k : ~Sep(k))
           end == StopsAt(start, src.len, Sep)
           rest == [strs EXCEPT ![i] = Slice(src.buf, src.off + end, src.len - end)]
       IN  \/ start = src.len /\ Answers(FALSE, 0)
           \/ /\ start # src.len
              /\ Len(strs) < MaxStrings
              /\ strs' = IF wanted
                         THEN Append(rest, Slice(src.buf, src.off + start, end - start))
                         ELSE rest
              /\ answer' = [found |-> TRUE, value |-> 0]
              /\ UNCHANGED <<heap, pc, job>>

\* Again the last byte allocated is not written to.
tn_strmap(i, func) ==
    /\ Calls("strmap", <<i>>, <<func>>)
    /\ LET text == Text(strs[i])
       IN  IF text = <<>> THEN Returns(TN_EMPTY_STRING)
           ELSE Builds(Len(text) + 1, [k \in DOMAIN text |-> func[text[k]]], Len(text))

\* What has been kept after every character; the buffer is cut to that.
Kept(text, predicate) ==
    LET buf[i \in 0 .. Len(text)] ==
            IF i = 0 THEN <<>>
            ELSE IF text[i] \in predicate THEN Append(buf[i - 1], text[i]) ELSE buf[i - 1]
    IN  buf

tn_strfilter(i, predicate) ==
    /\ Calls("strfilter", <<i>>, <<predicate>>)
    /\ IF strs[i].len = 0 THEN Returns(TN_EMPTY_STRING)
       ELSE BuildsText(Kept(Text(strs[i]), predicate)[strs[i].len])

-----------------------------------------------------------------------------
(* Formatting.                                                             *)

\* A short text goes through a C string.
tn_strvprintf(text) ==
    /\ Calls("strprintf", <<>>, <<text>>)
    /\ IF Len(text) >= ShortBuf THEN BuildsText(text)
       ELSE Dup(CStringAt(Append(text, 0), 0))

\* vsnprintf() fails, or its two calls disagree: dest is left alone.
Fails ==
    /\ Calls("failed", <<>>, <<>>)
    /\ pc' = "done"
    /\ UNCHANGED <<heap, strs, job, answer>>

\* strftime() with a buffer of size characters returns 0 for a text that does
\* not fit, and for an empty one.
Expands(text, size) == text # <<>> /\ Len(text) < size

tn_strftime(text) ==
    \/ /\ Expands(text, ShortBuf)
       /\ Calls("strftime", <<>>, <<text>>)
       /\ Dup(text)
    \/ /\ ~Expands(text, ShortBuf)
       /\ pc = "idle"
       /\ Len(strs) < MaxStrings
       /\ pc' = "strftime"
       /\ job' = [text |-> text, maxsize |-> 2 * ShortBuf]
       /\ UNCHANGED <<heap, strs, call, answer>>

\* Mutant: maxsize stays what it was.
GrowBuffer_Stuck ==
    /\ pc = "strftime"
    /\ Expands(job.text, job.maxsize)
    /\ heap' = Append(heap, Append(job.text, 0))
    /\ strs' = Append(strs, Slice(Len(heap) + 1, 0, Len(job.text)))
    /\ call' = [name |-> "strftime", on |-> <<>>, with |-> <<job.text>>]
    /\ pc' = "idle"
    /\ job' = NoJob
    /\ UNCHANGED answer

\* A turn of the loop.
GrowBuffer ==
    /\ pc = "strftime"
    /\ \/ /\ job.maxsize > Memory
          /\ pc' = "assert"
          /\ UNCHANGED <<heap, strs, job, call>>
       \/ /\ job.maxsize <= Memory
          /\ ~Expands(job.text, job.maxsize)
          /\ job' = [job EXCEPT !.maxsize = Plus(@, @)]
          /\ UNCHANGED <<heap, strs, pc, call>>
       \/ /\ job.maxsize <= Memory
          /\ Expands(job.text, job.maxsize)
          /\ heap' = Append(heap, Append(job.text, 0))
          /\ strs' = Append(strs, Slice(Len(heap) + 1, 0, Len(job.text)))
          /\ call' = [name |-> "strftime", on |-> <<>>, with |-> <<job.text>>]
          /\ pc' = "idle"
          /\ job' = NoJob
    /\ UNCHANGED answer

-----------------------------------------------------------------------------
(* Questions.                                                              *)

tn_strget(i, n) ==
    /\ Calls("strget", <<i>>, <<n>>)
    /\ Answers(TRUE, IF n >= strs[i].len THEN 0 ELSE Text(strs[i])[n + 1])

\* memcmp(), and then the lengths.
Compare(text1, text2) ==
    LET minlen == Min({Len(text1), Len(text2)})
        n == StopsAt(0, minlen, LAMBDA k : text1[k + 1] # text2[k + 1])
        Sign(a, b) == IF a < b THEN -1 ELSE IF a > b THEN 1 ELSE 0
    IN  IF n < minlen THEN Sign(text1[n + 1], text2[n + 1])
        ELSE Sign(Len(text1), Len(text2))

tn_strcmp(i, j) ==
    /\ Calls("strcmp", <<i, j>>, <<>>)
    /\ Answers(TRUE, Compare(Text(strs[i]), Text(strs[j])))

tn_strchr(i, ch) ==
    /\ Calls("strchr", <<i>>, <<ch>>)
    /\ LET text == Text(strs[i])
           n == StopsAt(0, Len(text), LAMBDA k : text[k + 1] = ch)
       IN  IF n = Len(text) THEN Answers(FALSE, 0) ELSE Answers(TRUE, n)

\* The loop counts k characters from the end.
tn_strrchr(i, ch) ==
    /\ Calls("strrchr", <<i>>, <<ch>>)
    /\ LET text == Text(strs[i])
           k == StopsAt(0, Len(text), LAMBDA n : text[Len(text) - n] = ch)
       IN  IF k = Len(text) THEN Answers(FALSE, 0)
           ELSE Answers(TRUE, Len(text) - k - 1)

tn_strstr(i, j) ==
    /\ Calls("strstr", <<i, j>>, <<>>)
    /\ LET text == Text(strs[i])
           sub == Text(strs[j])
           last == Len(text) - Len(sub) + 1
           Match(n) == StopsAt(0, Len(sub), LAMBDA k : text[n + k + 1] # sub[k + 1])
                           = Len(sub)
           n == StopsAt(0, last, Match)
       IN  \/ sub = <<>> /\ Answers(TRUE, 0)
           \/ Len(sub) > Len(text) /\ Answers(FALSE, 0)
           \/ /\ sub # <<>> /\ Len(sub) <= Len(text)
              /\ IF n = last THEN Answers(FALSE, 0) ELSE Answers(TRUE, n)

tn_strisprefix(i, j) ==
    /\ Calls("strisprefix", <<i, j>>, <<>>)
    /\ LET prefix == Text(strs[i])
           text == Text(strs[j])
       IN  Answers(/\ Len(prefix) <= Len(text)
                   /\ \A k \in DOMAIN prefix : text[k] = prefix[k], 0)

tn_strissuffix(i, j) ==
    /\ Calls("strissuffix", <<i, j>>, <<>>)
    /\ LET suffix == Text(strs[i])
           text == Text(strs[j])
       IN  Answers(/\ Len(suffix) <= Len(text)
                   /\ \A k \in DOMAIN suffix :
                          text[Len(text) - Len(suffix) + k] = suffix[k], 0)

tn_strlen(i) ==
    /\ Calls("strlen", <<i>>, <<>>)
    /\ Answers(TRUE, strs[i].len)

\* The C string that tn_str2cstr() gives a C function.
CStringOf(str) ==
    CASE str.buf = 0 -> <<>>
      [] str.buf # 0 /\ Terminated(str) -> CStringAt(heap[str.buf], str.off)
      [] str.buf # 0 /\ ~Terminated(str) -> CStringAt(Append(Text(str), 0), 0)

\* vsscanf() with n conversions of a character each.  Its EOF is a count of 0, or
\* an error that leaves count alone.
tn_strvscanf(i, n) ==
    \/ /\ Calls("strscanf", <<i>>, <<n>>)
       /\ Answers(TRUE, Min({n, Len(CStringOf(strs[i]))}))
    \/ n # 0 /\ Fails

min_size3(s1, s2, s3) == Min({s1, s2, s3})

\* Mutant: the rows are not swapped.
NextRow_Unswapped(prev_row, i, text1, text2) == prev_row

\* cur_row of the i-th turn.
NextRow(prev_row, i, text1, text2) ==
    LET cur_row[j \in 0 .. Len(text2)] ==
            IF j = 0 THEN i
            ELSE min_size3(cur_row[j - 1] + 1, prev_row[j] + 1,
                           prev_row[j - 1] + (IF text2[j] # text1[i] THEN 1 ELSE 0))
    IN  cur_row

\* prev_row before the first turn and after every one.
Rows(text1, text2) ==
    LET prev_row[i \in 0 .. Len(text1)] ==
            IF i = 0 THEN [j \in 0 .. Len(text2) |-> j]
            ELSE NextRow(prev_row[i - 1], i, text1, text2)
    IN  prev_row

tn_strdistance(i, j) ==
    /\ Calls("strdistance", <<i, j>>, <<>>)
    /\ LET text1 == Text(strs[i])
           text2 == Text(strs[j])
       IN  \/ Compare(text1, text2) = 0 /\ Answers(TRUE, 0)
           \/ text1 = <<>> /\ text2 # <<>> /\ Answers(TRUE, Len(text2))
           \/ text2 = <<>> /\ text1 # <<>> /\ Answers(TRUE, Len(text1))
           \/ /\ Compare(text1, text2) # 0 /\ text1 # <<>> /\ text2 # <<>>
              /\ Answers(TRUE, Rows(text1, text2)[Len(text1)][Len(text2)])

-----------------------------------------------------------------------------

Made ==
    /\ Len(strs) < MaxSources
    /\ \/ \E text \in Literals : \/ TN_STRING_LITERAL(text) \/ tn_cstr2str(text)
                                 \/ tn_strdup(text) \/ tn_strdupmem(text)
       \/ \E text \in Formatted : tn_strvprintf(text)
       \/ Fails
       \/ \E text \in Times : tn_strftime(text)
       \/ GrowBuffer

Index == DOMAIN strs

Derived ==
    \/ \E i \in Index : tn_str2cstr(i)
    \/ \E i, j \in Index : tn_strcat(i, j) \/ tn_strlcprefix(i, j) \/ tn_strlcsuffix(i, j)
    \/ \E i \in Index, ch \in Characters : tn_straddch(i, ch)
    \/ \E n \in 0 .. MaxJoined, sep \in Index : \E args \in [1 .. n -> Index] :
           tn_strcats(args, sep)
    \/ \E i \in Index, n \in Counts : tn_strrepeat(i, n)
    \/ \E i \in Index, pos, len \in Sizes : tn_substr(i, pos, len) \/ tn_strcut(i, pos, len)
    \/ \E i \in Index, p \in Predicates : \/ tn_strfilter(i, p)
                                          \/ \E wanted \in BOOLEAN : tn_strtok(i, p, wanted)
    \/ \E i \in Index, f \in Maps : tn_strmap(i, f)

Asked ==
    \/ \E i \in Index : tn_strlen(i)
    \/ \E i \in Index, n \in Sizes : tn_strget(i, n)
    \/ \E i \in Index, n \in Counts : tn_strvscanf(i, n)
    \/ \E i \in Index, ch \in Characters : tn_strchr(i, ch) \/ tn_strrchr(i, ch)
    \/ \E i, j \in Index :
           \/ tn_strcmp(i, j) \/ tn_strstr(i, j)
           \/ tn_strisprefix(i, j) \/ tn_strissuffix(i, j) \/ tn_strdistance(i, j)

Next == Made \/ Derived \/ Asked

\* A loop that has been entered keeps turning: nothing else runs.
Spec == Init /\ [][Next]_vars /\ WF_vars(GrowBuffer)

-----------------------------------------------------------------------------
(* Properties.                                                             *)

TypeOK ==
    /\ heap \in Seq(Seq(Alphabet))
    /\ strs \in Seq([buf : 0 .. Len(heap), off : Nat, len : 0 .. MaxText])
    /\ pc \in {"idle", "strftime", "assert", "overrun", "done"}
    /\ job \in [text : Seq(Alphabet), maxsize : Nat]
    /\ answer \in [found : BOOLEAN, value : Int]

\* Every string lies in its buffer and so does the character after it, which
\* tn_str2cstr() reads (dstring.c:111); no write misses its buffer.
SlicesInBounds ==
    /\ pc # "overrun"
    /\ \A i \in DOMAIN strs :
           IF strs[i].buf = 0 THEN strs[i].len = 0
           ELSE strs[i].off + strs[i].len < Len(heap[strs[i].buf])

\* utils.h:68, assert(obj != NULL): the collector can give what is asked of it,
\* as long as what is asked for is room for the client's texts.
AllocationsSucceed == pc # "assert"

\* tn_strftime() returns, if there is anything to return.
FormattingEnds == (pc = "strftime" /\ job.text # <<>>) ~> pc = "idle"

\* Slices that share buffers behave as values: a call yields the string or the
\* answer its arguments determine, and changes no other string.
Texts == [i \in DOMAIN strs |-> Text(strs[i])]
Values == INSTANCE StringValues WITH texts <- Texts

ValueSemantics == Values!Spec
=============================================================================
