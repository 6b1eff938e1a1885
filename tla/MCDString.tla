----------------------------- MODULE MCDString ------------------------------
(* DString for TLC: two characters beside NUL.                             *)
EXTENDS DString

\* Texts of the client: with a NUL, in common parts, for edits of every kind.
SomeTexts == {<<>>, <<1, 0, 2>>, <<1, 2, 1, 1>>}

Chars012 == {0, 1, 2}
Separators == {{2}, {0, 1}}
Swap == {[c \in Chars012 |-> IF c = 0 THEN 0 ELSE 3 - c]}

\* Short and long, with a NUL and without.
ShortAndLong == {<<2>>, <<0>>, <<1, 0, 2>>}
\* Two turns of the loop for the longest.
Times12 == {<<1>>, <<1, 2, 1, 2, 1>>}
TimesWithEmpty == {<<>>} \cup Times12
=============================================================================
