---------------------------- MODULE StringValues ----------------------------
(***************************************************************************)
(* What the functions of dstring.c promise: strings are values.  A call    *)
(* makes a new one out of those it is given, or answers a question about   *)
(* them, and no other string changes; only the tokenizer replaces the      *)
(* string it is given by what is left of it.                               *)
(***************************************************************************)
EXTENDS Integers, Sequences, SequencesExt, FiniteSetsExt

VARIABLES call,    \* the last call: its name, which strings it was given, and
                   \* what else
          texts,   \* the strings there are
          answer   \* what the last question was answered with

vars == <<call, texts, answer>>

Init ==
    /\ call = [name |-> "none", on |-> <<>>, with |-> <<>>]
    /\ texts = <<>>
    /\ answer = [found |-> FALSE, value |-> 0]

\* The call being made, its k-th string and its k-th other argument.
Calls(name) == call'.name = name
String(k) == texts[call'.on[k]]
Other(k) == call'.with[k]

Yields(text) == texts' = Append(texts, text) /\ UNCHANGED answer
Answers(found, value) ==
    answer' = [found |-> found, value |-> value] /\ UNCHANGED texts

-----------------------------------------------------------------------------

UpToNUL(text) ==
    IF Contains(text, 0) THEN SubSeq(text, 1, SelectInSeq(text, LAMBDA c : c = 0) - 1)
                         ELSE text

Copy ==
    \/ Calls("literal") /\ Yields(Other(1))
    \/ Calls("strdupmem") /\ Yields(Other(1))
    \/ Calls("strdup") /\ Yields(UpToNUL(Other(1)))
    \/ Calls("cstr2str") /\ Yields(UpToNUL(Other(1)))
    \/ Calls("str2cstr") /\ Yields(UpToNUL(String(1)))

\* Formatting may end a text at a NUL that was formatted into it.
Format ==
    \/ /\ Calls("strprintf")
       /\ \E text \in {Other(1), UpToNUL(Other(1))} : Yields(text)
    \/ Calls("strftime") /\ Yields(Other(1))
    \/ Calls("failed") /\ UNCHANGED <<texts, answer>>

\* Concatenations: first, then each of rest after a separator.
Joined(first, rest, sep) ==
    first \o FlattenSeq([k \in DOMAIN rest |-> sep \o rest[k]])

Concatenate ==
    \/ Calls("strcat") /\ Yields(String(1) \o String(2))
    \/ Calls("straddch") /\ Yields(Append(String(1), Other(1)))
    \/ /\ Calls("strcats")
       /\ LET strs == [k \in 1 .. Len(call'.on) - 1 |-> String(k + 1)]
          IN  Yields(IF strs = <<>> THEN <<>>
                     ELSE Joined(Head(strs), Tail(strs), String(1)))
    \/ Calls("strrepeat") /\ Yields(FlattenSeq([k \in 1 .. Other(1) |-> String(1)]))

\* len characters of a text after the first pos, and the text without them.
Within(text, pos, len) == SubSeq(text, pos + 1, Min({pos + len, Len(text)}))
Without(text, pos, len) ==
    SubSeq(text, 1, Min({pos, Len(text)})) \o SubSeq(text, pos + len + 1, Len(text))

Part ==
    \/ Calls("substr") /\ Yields(Within(String(1), Other(1), Other(2)))
    \/ Calls("strcut") /\ Yields(Without(String(1), Other(1), Other(2)))
    \/ Calls("strlcprefix") /\ Yields(LongestCommonPrefix({String(1), String(2)}))
    \/ /\ Calls("strlcsuffix")
       /\ Yields(Reverse(LongestCommonPrefix({Reverse(String(1)),
                                              Reverse(String(2))})))

EachChar ==
    \/ /\ Calls("strmap")
       /\ Yields([k \in DOMAIN String(1) |-> Other(1)[String(1)[k]]])
    \/ /\ Calls("strfilter")
       /\ Yields(FlattenSeq([k \in DOMAIN String(1) |->
                                 IF String(1)[k] \in Other(1) THEN <<String(1)[k]>>
                                                             ELSE <<>>]))

\* The string is separators, a token, and a rest that does not continue the
\* token; the token is wanted or not.
Token ==
    /\ Calls("strtok")
    /\ LET src == String(1)
           seps == Other(1)
           wanted == Other(2)
           IsSep(i) == src[i] \in seps
       IN  \/ /\ \A i \in DOMAIN src : IsSep(i)
              /\ Answers(FALSE, 0)
           \/ \E from \in DOMAIN src : \E to \in from .. Len(src) :
                /\ \A i \in 1 .. from - 1 : IsSep(i)
                /\ \A i \in from .. to : ~IsSep(i)
                /\ to < Len(src) => IsSep(to + 1)
                /\ LET left == [k \in DOMAIN texts |->
                                   IF k = call'.on[1] THEN SubSeq(src, to + 1, Len(src))
                                                      ELSE texts[k]]
                   IN  texts' = IF wanted THEN Append(left, SubSeq(src, from, to))
                                          ELSE left
                /\ answer' = [found |-> TRUE, value |-> 0]

-----------------------------------------------------------------------------
(* Questions.                                                              *)

\* A text occurs in another after its first pos characters.
Occurs(sub, text, pos) ==
    \A k \in DOMAIN sub : pos + k \in DOMAIN text /\ text[pos + k] = sub[k]
Places(sub, text) == {pos \in 0 .. Len(text) : Occurs(sub, text, pos)}

Finds(places, Choice(_)) ==
    IF places = {} THEN Answers(FALSE, 0) ELSE Answers(TRUE, Choice(places))

Before(text1, text2) ==
    \/ IsStrictPrefix(text1, text2)
    \/ \E k \in DOMAIN text1 \cap DOMAIN text2 :
           /\ text1[k] < text2[k]
           /\ \A i \in 1 .. k - 1 : text1[i] = text2[i]

\* The fewest insertions, deletions and replacements that make a text of
\* another: d[<<i, j>>] makes its first i characters the first j of the other.
Distance(text1, text2) ==
    LET d[p \in (0 .. Len(text1)) \X (0 .. Len(text2))] ==
            LET i == p[1]
                j == p[2]
            IN  IF i = 0 THEN j
                ELSE IF j = 0 THEN i
                ELSE Min({d[<<i - 1, j>>] + 1, d[<<i, j - 1>>] + 1,
                          d[<<i - 1, j - 1>>] + (IF text1[i] = text2[j] THEN 0 ELSE 1)})
    IN  d[<<Len(text1), Len(text2)>>]

Question ==
    \/ Calls("strlen") /\ Answers(TRUE, Len(String(1)))
    \/ /\ Calls("strscanf")
       /\ Answers(TRUE, Min({Other(1), Len(UpToNUL(String(1)))}))
    \/ /\ Calls("strget")
       /\ LET i == Other(1) + 1
          IN  Answers(TRUE, IF i \in DOMAIN String(1) THEN String(1)[i] ELSE 0)
    \/ /\ Calls("strcmp")
       /\ Answers(TRUE, CASE Before(String(1), String(2)) -> -1
                          [] Before(String(2), String(1)) -> 1
                          [] String(1) = String(2) -> 0)
    \/ Calls("strchr") /\ Finds(Places(<<Other(1)>>, String(1)), Min)
    \/ Calls("strrchr") /\ Finds(Places(<<Other(1)>>, String(1)), Max)
    \/ Calls("strstr") /\ Finds(Places(String(2), String(1)), Min)
    \/ Calls("strisprefix") /\ Answers(IsPrefix(String(1), String(2)), 0)
    \/ Calls("strissuffix") /\ Answers(IsSuffix(String(1), String(2)), 0)
    \/ Calls("strdistance") /\ Answers(TRUE, Distance(String(1), String(2)))

Next ==
    Copy \/ Format \/ Concatenate \/ Part \/ EachChar \/ Token \/ Question

Spec == Init /\ [][Next]_vars
=============================================================================
