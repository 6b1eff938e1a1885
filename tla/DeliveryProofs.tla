--------------------------- MODULE DeliveryProofs ---------------------------
(***************************************************************************)
(* What a pair of encode and decode calls promises (TypedChannel), for     *)
(* every base, array, collection of types and values: a decoder that       *)
(* returns 0 delivers the item that was encoded there, even from a message *)
(* that has lost its end, and a whole message can be decoded.              *)
(*                                                                         *)
(* An item is described by the stages its encoder goes through (Run), each *)
(* of which puts the bytes of one call and leaves the rest to others       *)
(* (Expands).  The invariant (CInv) says that an encoder is at such a      *)
(* stage, that the array holds the bytes of one for every item written     *)
(* (Ledger), and that a decoder is at the stage whose bytes it has read,   *)
(* with a stack of calls that match those of that stage (Match).           *)
(***************************************************************************)
EXTENDS XdrProofs, FiniteSetTheorems

-----------------------------------------------------------------------------
(* Stacks of calls, counted from the bottom, where they do not change.     *)

FromEnd(s, d) == s[Len(s) + 1 - d]

LEMMA TailFromEnd ==
    ASSUME NEW S, NEW s \in Seq(S), s # <<>>
    PROVE  /\ Tail(s) \in Seq(S) /\ Len(s) \in Nat \ {0} /\ Len(Tail(s)) = Len(s) - 1
           /\ FromEnd(s, Len(s)) = Head(s)
           /\ \A d \in 1 .. Len(s) - 1 : FromEnd(Tail(s), d) = FromEnd(s, d)
<1>1. /\ Tail(s) \in Seq(S)
      /\ Len(Tail(s)) = Len(s) - 1
      /\ \A i \in 1 .. Len(Tail(s)) : Tail(s)[i] = s[i + 1]
      /\ Head(s) = s[1]
  BY HeadTailProperties
<1>2. Len(s) \in Nat \ {0}
  BY EmptySeq, LenProperties
<1>. DEFINE n == Len(s)
            t == Tail(s)
<1>3. ASSUME NEW d \in 1 .. n - 1 PROVE FromEnd(t, d) = FromEnd(s, d)
  <2>1. n - 1 + 1 - d \in 1 .. n - 1 /\ (n - 1 + 1 - d) + 1 = n + 1 - d
    BY <1>2
  <2>. HIDE DEF n, t
  <2>2. t[n - 1 + 1 - d] = s[n + 1 - d]
    BY <1>1, <2>1 DEF n, t
  <2>. QED
    BY <1>1, <2>2 DEF FromEnd, n, t
<1>4. FromEnd(s, n) = s[1]
  <2>1. n + 1 - n = 1
    BY <1>2
  <2>. QED
    BY <2>1 DEF FromEnd
<1>. QED
  BY <1>1, <1>2, <1>3, <1>4

LEMMA ConcatFromEnd ==
    ASSUME NEW S, NEW r \in Seq(S), NEW s \in Seq(S)
    PROVE  /\ r \o s \in Seq(S) /\ Len(r \o s) = Len(r) + Len(s)
           /\ Len(r) \in Nat /\ Len(s) \in Nat
           /\ \A d \in 1 .. Len(s) : FromEnd(r \o s, d) = FromEnd(s, d)
           /\ \A d \in 1 .. Len(r) : FromEnd(r \o s, Len(s) + d) = FromEnd(r, d)
<1>. DEFINE m == Len(r)
            n == Len(s)
            b == r \o s
<1>1. m \in Nat /\ n \in Nat
  BY LenProperties
<1>2. /\ b \in Seq(S) /\ Len(b) = m + n
      /\ \A i \in 1 .. m + n : b[i] = IF i <= m THEN r[i] ELSE s[i - m]
  BY ConcatProperties
<1>. HIDE DEF m, n, b
<1>3. ASSUME NEW d \in 1 .. n PROVE FromEnd(b, d) = FromEnd(s, d)
  <2>1. m + n + 1 - d \in 1 .. m + n /\ ~ (m + n + 1 - d <= m)
        /\ (m + n + 1 - d) - m = n + 1 - d
    BY <1>1
  <2>2. b[m + n + 1 - d] = s[n + 1 - d]
    BY <1>2, <2>1
  <2>. QED
    BY <1>2, <2>2 DEF FromEnd, n
<1>4. ASSUME NEW d \in 1 .. m PROVE FromEnd(b, n + d) = FromEnd(r, d)
  <2>1. m + n + 1 - (n + d) = m + 1 - d /\ m + 1 - d \in 1 .. m + n /\ m + 1 - d <= m
    BY <1>1
  <2>2. b[m + n + 1 - (n + d)] = r[m + 1 - d]
    BY <1>2, <2>1
  <2>. QED
    BY <1>2, <2>2 DEF FromEnd, m
<1>. QED
  BY <1>1, <1>2, <1>3, <1>4 DEF m, n, b

LEMMA PushFromEnd ==
    ASSUME NEW S, NEW x \in S, NEW s \in Seq(S)
    PROVE  /\ <<x>> \o s \in Seq(S) /\ Len(<<x>> \o s) = Len(s) + 1 /\ Len(s) \in Nat
           /\ \A d \in 1 .. Len(s) : FromEnd(<<x>> \o s, d) = FromEnd(s, d)
           /\ FromEnd(<<x>> \o s, Len(s) + 1) = x
<1>1. <<x>> \in Seq(S) /\ Len(<<x>>) = 1 /\ FromEnd(<<x>>, 1) = x
  BY OneAndTwo DEF FromEnd
<1>2. PICK one \in Seq(S) : one = <<x>> /\ Len(one) = 1 /\ FromEnd(one, 1) = x
  BY <1>1
<1>3. /\ one \o s \in Seq(S) /\ Len(one \o s) = Len(one) + Len(s)
      /\ Len(s) \in Nat
      /\ \A d \in 1 .. Len(s) : FromEnd(one \o s, d) = FromEnd(s, d)
      /\ \A d \in 1 .. Len(one) : FromEnd(one \o s, Len(s) + d) = FromEnd(one, d)
  BY ConcatFromEnd
<1>4. 1 \in 1 .. Len(one)
  BY <1>2
<1>. QED
  BY <1>2, <1>3, <1>4

\* Calls that decoders make for what they store, which no encoder makes.
IsStore(x) == x.type.name \in {"nul", "pointer"}

\* What a decoder has to do and what an encoder of the same had to.
Agree(x, c) ==
    \/ x.type = c.type /\ x.type.name \in Names
    \/ /\ x.type.name = "chars" /\ c.type.name = "bytes"
       /\ x.type.len = c.type.len /\ CString(c.arg) = c.arg
    \/ x.type.name = "blob" /\ c.type.name = "blob" /\ x.type.len = c.type.len
    \/ /\ x.type.name = "string" /\ c.type.name = "blob"
       /\ x.type.len = c.type.len /\ CString(c.arg) = c.arg
    \/ x.type.name = "low" /\ c.type.name = "low" /\ x.arg = High(c.arg)
    \/ x.type.name = "pad" /\ c.type.name = "pad" /\ x.type.len = c.type.len

\* A stack of the one is a stack of the other, but for those: g[d] of the d calls
\* at the bottom of t have their likes at the bottom of s.
Pairs(g, t, s) ==
    /\ g \in [0 .. Len(t) -> Nat]
    /\ g[0] = 0 /\ g[Len(t)] = Len(s)
    /\ \A d \in 1 .. Len(t) :
           LET x == FromEnd(t, d)
           IN  IF IsStore(x) THEN g[d] = g[d - 1]
                             ELSE g[d] = g[d - 1] + 1 /\ Agree(x, FromEnd(s, g[d]))
    /\ \A d, e \in 0 .. Len(t) : d <= e => g[d] <= g[e]
Match(t, s) == \E g : Pairs(g, t, s)

LEMMA MatchNothing ==
    ASSUME NEW R, NEW s \in Seq(R)
    PROVE  /\ Match(<<>>, s) => s = <<>>
           /\ Match(<<>>, <<>>)
<1>1. Match(<<>>, s) => s = <<>>
  <2>1. ASSUME NEW g, Pairs(g, <<>>, s) PROVE Len(s) = 0
    BY <2>1 DEF Pairs
  <2>2. Len(s) = 0 => s = <<>>
    BY EmptySeq
  <2>. QED
    BY <2>1, <2>2 DEF Match
<1>2. Pairs([d \in 0 .. 0 |-> 0], <<>>, <<>>)
  BY DEF Pairs
<1>. QED
  BY <1>1, <1>2 DEF Match

LEMMA MatchTail ==
    ASSUME NEW S, NEW t \in Seq(S), t # <<>>, NEW R, NEW s \in Seq(R), Match(t, s)
    PROVE  /\ IsStore(Head(t)) => Match(Tail(t), s)
           /\ ~IsStore(Head(t)) =>
                  s # <<>> /\ Agree(Head(t), Head(s)) /\ Match(Tail(t), Tail(s))
<1>. DEFINE n == Len(t)
            m == Len(s)
            u == Tail(t)
<1>1. PICK g : Pairs(g, t, s)
  BY DEF Match
<1>2. /\ g \in [0 .. n -> Nat] /\ g[0] = 0 /\ g[n] = m
      /\ \A d \in 1 .. n :
             IF IsStore(FromEnd(t, d))
             THEN g[d] = g[d - 1]
             ELSE g[d] = g[d - 1] + 1 /\ Agree(FromEnd(t, d), FromEnd(s, g[d]))
      /\ \A d, e \in 0 .. n : d <= e => g[d] <= g[e]
  BY <1>1 DEF Pairs
<1>3. /\ u \in Seq(S) /\ n \in Nat \ {0} /\ Len(u) = n - 1
      /\ FromEnd(t, n) = Head(t)
      /\ \A d \in 1 .. n - 1 : FromEnd(u, d) = FromEnd(t, d)
  BY TailFromEnd
<1>4. m \in Nat
  BY LenProperties
<1>. HIDE DEF n, m, u
<1>. DEFINE h == [d \in 0 .. n - 1 |-> g[d]]
<1>5. /\ h \in [0 .. n - 1 -> Nat] /\ h[0] = 0 /\ h[n - 1] = g[n - 1]
      /\ \A d \in 1 .. n - 1 : h[d] = g[d] /\ h[d - 1] = g[d - 1]
      /\ \A d, e \in 0 .. n - 1 : d <= e => h[d] <= h[e]
  BY <1>2, <1>3
<1>6. /\ n \in 1 .. n /\ n - 1 \in 0 .. n
      /\ \A d \in 1 .. n - 1 : d \in 1 .. n /\ d \in 0 .. n /\ d <= n - 1
  BY <1>3
<1>. HIDE DEF h
<1>7. CASE IsStore(Head(t))
  <2>1. g[n - 1] = m
    BY <1>2, <1>3, <1>6, <1>7
  <2>2. Pairs(h, u, s)
    BY <1>2, <1>3, <1>5, <1>6, <2>1 DEF Pairs, m
  <2>. QED
    BY <1>7, <2>2 DEF Match, u
<1>8. CASE ~IsStore(Head(t))
  <2>1. m = g[n - 1] + 1 /\ Agree(Head(t), FromEnd(s, m)) /\ g[n - 1] \in Nat
    BY <1>2, <1>3, <1>6, <1>8
  <2>2. s # <<>>
    BY <2>1 DEF m
  <2>3. /\ Len(Tail(s)) = m - 1
        /\ FromEnd(s, m) = Head(s)
        /\ \A d \in 1 .. m - 1 : FromEnd(Tail(s), d) = FromEnd(s, d)
    BY <2>2, TailFromEnd DEF m
  <2>4. ASSUME NEW d \in 1 .. n - 1, ~IsStore(FromEnd(u, d))
        PROVE  h[d] = h[d - 1] + 1 /\ Agree(FromEnd(u, d), FromEnd(Tail(s), h[d]))
    <3>1. ~IsStore(FromEnd(t, d)) /\ d \in 1 .. n
      BY <1>3, <1>6, <2>4
    <3>2. g[d] = g[d - 1] + 1 /\ Agree(FromEnd(t, d), FromEnd(s, g[d]))
      BY <1>2, <3>1
    <3>3. g[d] <= g[n - 1]
      BY <1>2, <1>6
    <3>4. g[d] \in Nat /\ g[d - 1] \in Nat
      <4>1. d \in 0 .. n /\ d - 1 \in 0 .. n
        BY <1>6
      <4>. QED
        BY <1>2, <4>1
    <3>5. g[d] \in 1 .. m - 1
      BY <2>1, <3>2, <3>3, <3>4
    <3>. QED
      BY <1>3, <1>5, <2>3, <3>2, <3>5
  <2>5. h[n - 1] = m - 1
    BY <1>5, <2>1
  <2>6. Pairs(h, u, Tail(s))
    BY <1>2, <1>3, <1>5, <1>6, <2>3, <2>4, <2>5 DEF Pairs
  <2>. QED
    BY <1>8, <2>1, <2>2, <2>3, <2>6 DEF Match, u
<1>. QED
  BY <1>7, <1>8

\* Calls that have their likes are put before stacks that do.
LEMMA MatchRow ==
    ASSUME NEW S, NEW t \in Seq(S), NEW r \in Seq(S),
           NEW R, NEW s \in Seq(R), NEW q \in Seq(R),
           Match(t, s), Len(r) = Len(q),
           \A i \in 1 .. Len(q) : ~IsStore(r[i]) /\ Agree(r[i], q[i])
    PROVE  Match(r \o t, q \o s)
<1>. DEFINE n == Len(t)
            m == Len(s)
            k == Len(q)
            u == r \o t
            v == q \o s
<1>1. PICK g : Pairs(g, t, s)
  BY DEF Match
<1>2. /\ g \in [0 .. n -> Nat] /\ g[0] = 0 /\ g[n] = m
      /\ \A d \in 1 .. n :
             IF IsStore(FromEnd(t, d))
             THEN g[d] = g[d - 1]
             ELSE g[d] = g[d - 1] + 1 /\ Agree(FromEnd(t, d), FromEnd(s, g[d]))
      /\ \A d, e \in 0 .. n : d <= e => g[d] <= g[e]
  BY <1>1 DEF Pairs
<1>3. /\ u \in Seq(S) /\ Len(u) = k + n /\ n \in Nat /\ k \in Nat
      /\ \A d \in 1 .. n : FromEnd(u, d) = FromEnd(t, d)
      /\ \A d \in 1 .. k : FromEnd(u, n + d) = FromEnd(r, d)
  <2>1. /\ r \o t \in Seq(S) /\ Len(r \o t) = Len(r) + Len(t)
        /\ Len(r) \in Nat /\ Len(t) \in Nat
        /\ \A d \in 1 .. Len(t) : FromEnd(r \o t, d) = FromEnd(t, d)
        /\ \A d \in 1 .. Len(r) : FromEnd(r \o t, Len(t) + d) = FromEnd(r, d)
    BY ConcatFromEnd
  <2>. QED
    BY <2>1
<1>4. /\ v \in Seq(R) /\ Len(v) = k + m /\ m \in Nat
      /\ \A d \in 1 .. m : FromEnd(v, d) = FromEnd(s, d)
      /\ \A d \in 1 .. k : FromEnd(v, m + d) = FromEnd(q, d)
  BY ConcatFromEnd
<1>5. \A d \in 1 .. k : ~IsStore(FromEnd(r, d)) /\ Agree(FromEnd(r, d), FromEnd(q, d))
  <2>1. \A d \in 1 .. k : k + 1 - d \in 1 .. k
    BY <1>3
  <2>. QED
    BY <2>1 DEF FromEnd
<1>. HIDE DEF n, m, k, u, v
<1>. DEFINE h == [d \in 0 .. k + n |-> IF d <= n THEN g[d] ELSE m + (d - n)]
<1>6. \A d \in 0 .. n : g[d] \in Nat /\ g[d] <= m
  <2>1. n \in 0 .. n /\ \A d \in 0 .. n : d <= n
    BY <1>3
  <2>. QED
    BY <1>2, <2>1
<1>7. /\ h \in [0 .. k + n -> Nat]
      /\ h[0] = 0 /\ h[k + n] = k + m
  <2>1. ASSUME NEW d \in 0 .. k + n PROVE h[d] \in Nat
    <3>1. d <= n => d \in 0 .. n
      OBVIOUS
    <3>2. ~ (d <= n) => m + (d - n) \in Nat
      BY <1>3, <1>4
    <3>. QED
      BY <1>6, <3>1, <3>2
  <2>2. h[0] = 0
    BY <1>2, <1>3
  <2>3. h[k + n] = k + m
    <3>1. k = 0 => h[k + n] = g[n]
      BY <1>3
    <3>2. k # 0 => h[k + n] = m + ((k + n) - n)
      BY <1>3
    <3>. QED
      BY <1>2, <1>3, <1>4, <3>1, <3>2
  <2>. QED
    BY <2>1, <2>2, <2>3
<1>8. \A d, e \in 0 .. k + n : d <= e => h[d] <= h[e]
  <2>. SUFFICES ASSUME NEW d \in 0 .. k + n, NEW e \in 0 .. k + n, d <= e
                PROVE  h[d] <= h[e]
    OBVIOUS
  <2>1. CASE e <= n
    <3>1. d \in 0 .. n /\ e \in 0 .. n
      BY <1>3, <2>1
    <3>. QED
      BY <1>2, <2>1, <3>1
  <2>2. CASE ~ (e <= n) /\ d <= n
    <3>1. g[d] <= m /\ g[d] \in Nat /\ e - n \in Nat
      BY <1>3, <1>6, <2>2
    <3>. QED
      BY <1>4, <2>2, <3>1
  <2>3. CASE ~ (e <= n) /\ ~ (d <= n)
    BY <1>3, <1>4, <2>3
  <2>. QED
    BY <2>1, <2>2, <2>3
<1>9. ASSUME NEW d \in 1 .. k + n
      PROVE  IF IsStore(FromEnd(u, d))
             THEN h[d] = h[d - 1]
             ELSE h[d] = h[d - 1] + 1 /\ Agree(FromEnd(u, d), FromEnd(v, h[d]))
  <2>1. CASE d <= n
    <3>1. d \in 1 .. n /\ d - 1 \in 0 .. n /\ d \in 0 .. n
      BY <1>3, <2>1
    <3>2. h[d] = g[d] /\ h[d - 1] = g[d - 1] /\ FromEnd(u, d) = FromEnd(t, d)
      BY <1>3, <2>1, <3>1
    <3>3. g[d] \in 0 .. m /\ g[d - 1] \in Nat
      BY <1>4, <1>6, <3>1
    <3>4. ~IsStore(FromEnd(t, d)) => g[d] \in 1 .. m
      BY <1>2, <1>4, <3>1, <3>3
    <3>. HIDE DEF h
    <3>. QED
      BY <1>2, <1>4, <3>1, <3>2, <3>4
  <2>2. CASE ~ (d <= n)
    <3>. DEFINE j == d - n
    <3>1. j \in 1 .. k /\ d = n + j
      BY <1>3, <2>2
    <3>2. h[d] = m + j
      BY <2>2
    <3>3. h[d - 1] = m + (j - 1)
      <4>1. CASE j = 1
        <5>1. d - 1 = n
          BY <1>3, <3>1, <4>1
        <5>. QED
          BY <1>2, <1>3, <1>4, <4>1, <5>1
      <4>2. CASE j # 1
        <5>1. ~ (d - 1 <= n) /\ d - 1 \in 0 .. k + n /\ (d - 1) - n = j - 1
          BY <1>3, <3>1, <4>2
        <5>. QED
          BY <5>1
      <4>. QED
        BY <4>1, <4>2
    <3>. HIDE DEF h, j
    <3>4. FromEnd(u, d) = FromEnd(r, j) /\ FromEnd(v, h[d]) = FromEnd(q, j)
      BY <1>3, <1>4, <3>1, <3>2
    <3>5. h[d] = h[d - 1] + 1
      BY <1>4, <3>1, <3>2, <3>3
    <3>. QED
      BY <1>5, <3>1, <3>4, <3>5
  <2>. QED
    BY <2>1, <2>2
<1>. HIDE DEF h
<1>10. Pairs(h, u, v)
  BY <1>3, <1>4, <1>7, <1>8, <1>9 DEF Pairs
<1>. QED
  BY <1>10 DEF Match, u, v

LEMMA MatchStore ==
    ASSUME NEW S, NEW t \in Seq(S), NEW x \in S, IsStore(x),
           NEW R, NEW s \in Seq(R), Match(t, s)
    PROVE  Match(<<x>> \o t, s)
<1>. DEFINE n == Len(t)
            m == Len(s)
            u == <<x>> \o t
<1>1. PICK g : Pairs(g, t, s)
  BY DEF Match
<1>2. /\ g \in [0 .. n -> Nat] /\ g[0] = 0 /\ g[n] = m
      /\ \A d \in 1 .. n :
             IF IsStore(FromEnd(t, d))
             THEN g[d] = g[d - 1]
             ELSE g[d] = g[d - 1] + 1 /\ Agree(FromEnd(t, d), FromEnd(s, g[d]))
      /\ \A d, e \in 0 .. n : d <= e => g[d] <= g[e]
  BY <1>1 DEF Pairs
<1>3. /\ u \in Seq(S) /\ Len(u) = n + 1 /\ n \in Nat
      /\ \A d \in 1 .. n : FromEnd(u, d) = FromEnd(t, d)
      /\ FromEnd(u, n + 1) = x
  BY PushFromEnd
<1>4. m \in Nat
  BY LenProperties
<1>. HIDE DEF n, m, u
<1>. DEFINE h == [d \in 0 .. n + 1 |-> IF d <= n THEN g[d] ELSE m]
<1>5. \A d \in 0 .. n : g[d] \in Nat /\ g[d] <= m
  <2>1. n \in 0 .. n /\ \A d \in 0 .. n : d <= n
    BY <1>3
  <2>. QED
    BY <1>2, <2>1
<1>6. /\ h \in [0 .. n + 1 -> Nat]
      /\ h[0] = 0 /\ h[n + 1] = m
  BY <1>2, <1>3, <1>4, <1>5
<1>7. \A d, e \in 0 .. n + 1 : d <= e => h[d] <= h[e]
  <2>1. \A d \in 0 .. n + 1 : d \in 0 .. n \/ (d = n + 1 /\ ~ (d <= n))
    BY <1>3
  <2>. QED
    BY <1>2, <1>3, <1>4, <1>5, <2>1
<1>8. ASSUME NEW d \in 1 .. n + 1
      PROVE  IF IsStore(FromEnd(u, d))
             THEN h[d] = h[d - 1]
             ELSE h[d] = h[d - 1] + 1 /\ Agree(FromEnd(u, d), FromEnd(s, h[d]))
  <2>1. CASE d <= n
    <3>1. d \in 1 .. n /\ d - 1 \in 0 .. n /\ d \in 0 .. n
      BY <1>3, <2>1
    <3>2. h[d] = g[d] /\ h[d - 1] = g[d - 1] /\ FromEnd(u, d) = FromEnd(t, d)
      BY <1>3, <2>1, <3>1
    <3>. HIDE DEF h
    <3>. QED
      BY <1>2, <3>1, <3>2
  <2>2. CASE d = n + 1
    <3>1. h[d] = m /\ h[d - 1] = g[n] /\ FromEnd(u, d) = x
      BY <1>3, <2>2
    <3>. HIDE DEF h
    <3>. QED
      BY <1>2, <3>1
  <2>. QED
    BY <1>3, <2>1, <2>2
<1>. HIDE DEF h
<1>9. Pairs(h, u, s)
  BY <1>3, <1>6, <1>7, <1>8 DEF Pairs, m
<1>. QED
  BY <1>9 DEF Match, u

-----------------------------------------------------------------------------
(* Calls that take at least one byte.                                      *)

\* Types all of whose values do: a structure if one of its elements does.
Takes(type, S) ==
    \/ type.name \in Words \cup Wides \cup Smalls
    \/ type.name \in {"var_bytes", "cstring", "var_array", "union"}
    \/ type.name = "bytes" /\ type.len > 0
    \/ type.name = "array" /\ type.len > 0 /\ type.of[1] \in S
    \/ type.name = "struct" /\ \E i \in DOMAIN type.of : type.of[i] \in S
Solid == UNION {S \in SUBSET Types : \A type \in S : Takes(type, S)}

LEMMA SolidTakes == \A type \in Solid : type \in Types /\ Takes(type, Solid)
<1>. SUFFICES ASSUME NEW S \in SUBSET Types, \A type \in S : Takes(type, S),
                     NEW type \in S
              PROVE  type \in Types /\ Takes(type, Solid)
  BY DEF Solid
<1>1. S \subseteq Solid
  BY DEF Solid
<1>2. Takes(type, S)
  OBVIOUS
<1>. QED
  BY <1>1, <1>2 DEF Takes

SolidCall(c) == c.type \in Solid \/ (c.type.name = "blob" /\ c.type.len > 0)

\* Where they are in a stack, and how many there are.
SolidAt(s) == {d \in 1 .. Len(s) : SolidCall(FromEnd(s, d))}
Count(s) == Cardinality(SolidAt(s))

LEMMA CountIsNat ==
    ASSUME NEW S, NEW s \in Seq(S)
    PROVE  IsFiniteSet(SolidAt(s)) /\ Count(s) \in Nat
<1>1. Len(s) \in Int /\ 1 \in Int
  BY LenProperties
<1>2. IsFiniteSet(1 .. Len(s))
  BY <1>1, FS_Interval
<1>3. SolidAt(s) \in SUBSET (1 .. Len(s))
  BY DEF SolidAt
<1>4. IsFiniteSet(SolidAt(s))
  BY <1>2, <1>3, FS_Subset
<1>. QED
  BY <1>4, FS_CardinalityType DEF Count

LEMMA CountTail ==
    ASSUME NEW S, NEW s \in Seq(S), s # <<>>
    PROVE  /\ Count(s) <= Count(Tail(s)) + 1
           /\ ~SolidCall(Head(s)) => Count(s) = Count(Tail(s))
<1>. DEFINE n == Len(s)
            t == Tail(s)
<1>1. /\ t \in Seq(S) /\ n \in Nat \ {0} /\ Len(t) = n - 1
      /\ FromEnd(s, n) = Head(s)
      /\ \A d \in 1 .. n - 1 : FromEnd(t, d) = FromEnd(s, d)
  BY TailFromEnd
<1>2. IsFiniteSet(SolidAt(t)) /\ Count(t) \in Nat
  BY <1>1, CountIsNat
<1>. HIDE DEF n, t
<1>3. \A d : d \in 1 .. n <=> d \in 1 .. n - 1 \/ d = n
  BY <1>1
<1>4. CASE SolidCall(Head(s))
  <2>1. SolidAt(s) = SolidAt(t) \cup {n}
    BY <1>1, <1>3, <1>4 DEF SolidAt, n
  <2>2. Cardinality(SolidAt(t) \cup {n}) <= Count(t) + 1
    <3>1. Cardinality(SolidAt(t) \cup {n}) =
              IF n \in SolidAt(t) THEN Cardinality(SolidAt(t))
                                  ELSE Cardinality(SolidAt(t)) + 1
      BY <1>2, FS_AddElement
    <3>2. Cardinality(SolidAt(t)) = Count(t)
      BY DEF Count
    <3>. QED
      BY <1>2, <3>1, <3>2
  <2>. QED
    BY <1>4, <2>1, <2>2 DEF Count, t
<1>5. CASE ~SolidCall(Head(s))
  <2>1. SolidAt(s) = SolidAt(t)
    BY <1>1, <1>3, <1>5 DEF SolidAt, n
  <2>. QED
    BY <1>2, <2>1 DEF Count, t
<1>. QED
  BY <1>4, <1>5

LEMMA CountConcat ==
    ASSUME NEW S, NEW r \in Seq(S), NEW s \in Seq(S)
    PROVE  /\ Count(s) <= Count(r \o s)
           /\ (\E i \in 1 .. Len(r) : SolidCall(r[i])) => Count(s) + 1 <= Count(r \o s)
           /\ (\A i \in 1 .. Len(r) : SolidCall(r[i])) => Len(r) <= Count(r \o s)
<1>. DEFINE m == Len(r)
            n == Len(s)
<1>1. PICK b \in Seq(S) : b = r \o s
  BY ConcatProperties
<1>2. /\ Len(b) = m + n /\ m \in Nat /\ n \in Nat
      /\ \A d \in 1 .. n : FromEnd(b, d) = FromEnd(s, d)
      /\ \A d \in 1 .. m : FromEnd(b, n + d) = FromEnd(r, d)
  BY <1>1, ConcatFromEnd
<1>. HIDE DEF m, n
<1>3. IsFiniteSet(SolidAt(b)) /\ IsFiniteSet(SolidAt(s)) /\ Count(s) \in Nat /\ Count(b) \in Nat
  BY CountIsNat
<1>4. SolidAt(s) \subseteq SolidAt(b)
  <2>1. \A d \in 1 .. n : d \in 1 .. m + n
    BY <1>2
  <2>. QED
    BY <1>2, <2>1 DEF SolidAt, n
<1>5. Count(s) <= Count(b)
  BY <1>3, <1>4, FS_Subset DEF Count
<1>6. ASSUME NEW i \in 1 .. m, SolidCall(r[i]) PROVE Count(s) + 1 <= Count(b)
  <2>. DEFINE e == n + (m + 1 - i)
  <2>1. m + 1 - i \in 1 .. m /\ m + 1 - (m + 1 - i) = i
    BY <1>2
  <2>2. FromEnd(b, e) = r[i]
    BY <1>2, <2>1 DEF FromEnd, m
  <2>3. e \in 1 .. m + n /\ e \notin 1 .. n
    BY <1>2
  <2>. HIDE DEF e
  <2>4. e \in SolidAt(b) /\ e \notin SolidAt(s)
    BY <1>2, <1>6, <2>2, <2>3 DEF SolidAt, n
  <2>5. Cardinality(SolidAt(s) \cup {e}) = Count(s) + 1
    BY <1>3, <2>4, FS_AddElement DEF Count
  <2>6. SolidAt(s) \cup {e} \in SUBSET SolidAt(b)
    BY <1>4, <2>4
  <2>7. Cardinality(SolidAt(s) \cup {e}) <= Count(b)
    BY <1>3, <2>6, FS_Subset DEF Count
  <2>. QED
    BY <2>5, <2>7
<1>7. ASSUME \A i \in 1 .. m : SolidCall(r[i]) PROVE m <= Count(b)
  <2>1. ASSUME NEW d \in n + 1 .. n + m PROVE d \in SolidAt(b)
    <3>1. d - n \in 1 .. m /\ n + (d - n) = d /\ m + 1 - (d - n) \in 1 .. m
          /\ d \in 1 .. m + n
      BY <1>2
    <3>2. FromEnd(b, d) = FromEnd(r, d - n)
      BY <1>2, <3>1
    <3>3. SolidCall(FromEnd(r, d - n))
      BY <1>7, <3>1 DEF FromEnd, m
    <3>. QED
      BY <1>2, <3>1, <3>2, <3>3 DEF SolidAt
  <2>2. Cardinality(n + 1 .. n + m) = m
    <3>1. n + 1 \in Int /\ n + m \in Int
      BY <1>2
    <3>2. Cardinality(n + 1 .. n + m) = IF n + 1 > n + m THEN 0 ELSE (n + m) - (n + 1) + 1
      BY <3>1, FS_Interval
    <3>. QED
      BY <1>2, <3>2
  <2>3. Cardinality(n + 1 .. n + m) <= Count(b)
    <3>1. n + 1 .. n + m \in SUBSET SolidAt(b)
      BY <2>1
    <3>. QED
      BY <1>3, <3>1, FS_Subset DEF Count
  <2>. QED
    BY <2>2, <2>3
<1>. QED
  BY <1>1, <1>5, <1>6, <1>7 DEF m

-----------------------------------------------------------------------------
(* What calls come to, on the side of the encoder.                         *)

\* What a decoder meets of a call of an encoder: the low half of a wide integer,
\* the data of a byte array, its padding.
Rest(n) == Step("low", 0, n)
Blob(bytes) == Step("blob", Len(bytes), bytes)
Pad(n) == Step("pad", n, NULL)
Padding(n) == IF PadSize(n) = 0 THEN <<>> ELSE <<Pad(PadSize(n))>>

ItemCalls ==
    ClientCalls
        \cup {Call(Bytes(Len(bytes)), bytes) : bytes \in Seq(Byte)}
        \cup {Rest(n) : n \in Int}
        \cup {Blob(bytes) : bytes \in Seq(Byte)}
        \cup {Pad(n) : n \in Nat}

\* The bytes of a string that are encoded.
Text(c) == IF c.type.name = "cstring" THEN CString(c.arg) ELSE c.arg

\* A call puts bytes in the stream, for some values, and leaves the rest to others.
Expands(c, calls, values, bytes) ==
    LET name == c.type.name
        of == c.type.of
    IN  \/ /\ name \in Words
           /\ calls = <<>> /\ values = <<<<c.arg>>>> /\ bytes = Word(c.arg)
        \/ /\ name \in Wides
           /\ calls = <<Rest(c.arg)>> /\ values = <<>> /\ bytes = Word(High(c.arg))
        \/ /\ name = "low"
           /\ calls = <<>> /\ values = <<<<c.arg>>>> /\ bytes = Word(Low(c.arg))
        \/ /\ name \in Smalls
           /\ calls = <<>> /\ values = <<<<c.arg>>>>
           /\ LET size == SmallSize(name)
              IN  \E beyond \in 0 .. Power(Unit - size) - 1 :
                      bytes = Word(WordAt(c.arg, size, beyond))
        \/ /\ name = "void"
           /\ calls = <<>> /\ values = <<>> /\ bytes = <<>>
        \/ /\ name = "bytes"
           /\ calls = <<Blob(c.arg)>> \o Padding(Len(c.arg))
           /\ values = <<>> /\ bytes = <<>>
        \/ /\ name = "blob"
           /\ calls = <<>> /\ values = <<c.arg>> /\ bytes = c.arg
        \/ /\ name = "pad"
           /\ calls = <<>> /\ values = <<>> /\ bytes = Zeros(c.type.len)
        \/ /\ name \in {"var_bytes", "cstring"}
           /\ Len(Text(c)) <= WordMax
           /\ calls = <<Call(Bytes(Len(Text(c))), Text(c))>>
           /\ values = <<>> /\ bytes = Word(Len(Text(c)))
        \/ /\ name = "array"
           /\ calls = Elements(Copies(of[1], c.type.len), c.arg)
           /\ values = <<>> /\ bytes = <<>>
        \/ /\ name = "var_array"
           /\ Len(c.arg) <= WordMax
           /\ calls = Elements(Copies(of[1], Len(c.arg)), c.arg)
           /\ values = <<<<Len(c.arg)>>>> /\ bytes = Word(Len(c.arg))
        \/ /\ name = "struct"
           /\ calls = Elements(of, c.arg)
           /\ values = <<>> /\ bytes = <<>>
        \/ /\ name = "union"
           /\ calls = <<Call(of[c.arg.discr + 1], c.arg.arm)>>
           /\ values = <<<<c.arg.discr>>>> /\ bytes = Word(c.arg.discr)

LEMMA ItemCallIs ==
    ASSUME NEW c \in ItemCalls
    PROVE  \/ /\ c.type \in Types /\ c.arg \in Values[c.type] /\ c.type.name \in Names
              /\ IsType(c.type) /\ IsValue(c.type, c.arg)
           \/ /\ c.type.name = "bytes" /\ c.arg \in Seq(Byte) /\ c.type.len = Len(c.arg)
              /\ c.type = Bytes(Len(c.arg))
           \/ c.type.name = "low" /\ c.arg \in Int
           \/ c.type.name = "blob" /\ c.arg \in Seq(Byte) /\ c.type.len = Len(c.arg)
           \/ c.type.name = "pad" /\ c.type.len \in Nat
<1>1. CASE c \in ClientCalls
  BY <1>1, IsTypeOf, TypesAssumption DEF ClientCalls
<1>2. CASE \E bytes \in Seq(Byte) : c = Call(Bytes(Len(bytes)), bytes)
  BY <1>2, CallFields DEF Bytes, Type
<1>3. CASE \E n \in Int : c = Rest(n)
  BY <1>3, CallFields DEF Rest
<1>4. CASE \E bytes \in Seq(Byte) : c = Blob(bytes)
  BY <1>4, CallFields DEF Blob
<1>5. CASE \E n \in Nat : c = Pad(n)
  BY <1>5, CallFields DEF Pad
<1>. QED
  BY <1>1, <1>2, <1>3, <1>4, <1>5 DEF ItemCalls

\* A client's call, by its name.
LEMMA ClientItem ==
    ASSUME NEW c \in ItemCalls, c.type.name \in Names \ {"bytes"}
    PROVE  c.type \in Types /\ IsType(c.type) /\ IsValue(c.type, c.arg)
<1>1. c.type.name \notin {"bytes", "low", "blob", "pad"}
  BY DEF Names, Scalars, Words, Wides, Smalls
<1>. QED
  BY <1>1, ItemCallIs

LEMMA BytesItem ==
    ASSUME NEW c \in ItemCalls, c.type.name = "bytes"
    PROVE  c.arg \in Seq(Byte) /\ c.type.len = Len(c.arg)
<1>1. CASE c.type \in Types /\ IsValue(c.type, c.arg)
  BY <1>1 DEF IsValue
<1>. QED
  BY <1>1, ItemCallIs

LEMMA OtherItem ==
    ASSUME NEW c \in ItemCalls
    PROVE  /\ c.type.name = "low" => c.arg \in Int
           /\ c.type.name = "blob" => c.arg \in Seq(Byte) /\ c.type.len = Len(c.arg)
           /\ c.type.name = "pad" => c.type.len \in Nat
<1>1. \A name \in {"low", "blob", "pad"} : name \notin Names /\ name # "bytes"
  BY DEF Names, Scalars, Words, Wides, Smalls
<1>. QED
  BY <1>1, ItemCallIs

LEMMA ItemCallMade ==
    /\ \A type \in Types : \A value \in Values[type] : Call(type, value) \in ItemCalls
    /\ \A bytes \in Seq(Byte) : /\ Call(Bytes(Len(bytes)), bytes) \in ItemCalls
                                /\ Blob(bytes) \in ItemCalls
    /\ \A n \in Int : Rest(n) \in ItemCalls
    /\ \A n \in Nat : Pad(n) \in ItemCalls
<1>1. ASSUME NEW type \in Types, NEW value \in Values[type]
      PROVE  Call(type, value) \in ClientCalls
  <2>1. value \in ClientValues
    BY DEF ClientValues
  <2>. QED
    BY <2>1 DEF Call, ClientCalls
<1>. QED
  BY <1>1 DEF ItemCalls

\* An element-wise copy of types onto values of theirs.
LEMMA ElementsAreItems ==
    ASSUME NEW n \in Nat, NEW types, NEW values, DOMAIN values = 1 .. n,
           \A i \in 1 .. n : types[i] \in Types /\ values[i] \in Values[types[i]]
    PROVE  /\ Elements(types, values) \in Seq(ItemCalls)
           /\ Len(Elements(types, values)) = n
           /\ \A i \in 1 .. n : Elements(types, values)[i] = Call(types[i], values[i])
<1>1. Elements(types, values) \in [1 .. n -> ItemCalls]
  BY ItemCallMade DEF Elements
<1>2. \A i \in 1 .. n : Elements(types, values)[i] = Call(types[i], values[i])
  BY DEF Elements
<1>. QED
  BY <1>1, <1>2, FunctionIsSeq

\* The elements of an array.
LEMMA ArrayItems ==
    ASSUME NEW type \in Types, type.name \in {"array", "var_array"}, IsType(type),
           NEW n \in Nat, NEW values \in Seq(Values[type.of[1]]), Len(values) = n
    PROVE  /\ Elements(Copies(type.of[1], n), values) \in Seq(ItemCalls)
           /\ Len(Elements(Copies(type.of[1], n), values)) = n
           /\ \A i \in 1 .. n :
                  Elements(Copies(type.of[1], n), values)[i] = Call(type.of[1], values[i])
<1>1. DOMAIN values = 1 .. n /\ \A i \in 1 .. n : values[i] \in Values[type.of[1]]
  BY LenProperties, ElementOfSeq
<1>2. type.of[1] \in Types
  BY ElementType
<1>3. \A i \in 1 .. n : Copies(type.of[1], n)[i] = type.of[1]
  BY DEF Copies
<1>. DEFINE types == Copies(type.of[1], n)
<1>4. \A i \in 1 .. n : types[i] \in Types /\ values[i] \in Values[types[i]]
  BY <1>1, <1>2, <1>3
<1>. HIDE DEF types
<1>5. /\ Elements(types, values) \in Seq(ItemCalls)
      /\ Len(Elements(types, values)) = n
      /\ \A i \in 1 .. n : Elements(types, values)[i] = Call(types[i], values[i])
  BY <1>1, <1>4, ElementsAreItems
<1>. QED
  BY <1>3, <1>5 DEF types

LEMMA StructItems ==
    ASSUME NEW c \in ItemCalls, c.type.name = "struct"
    PROVE  /\ Elements(c.type.of, c.arg) \in Seq(ItemCalls)
           /\ DOMAIN c.type.of = 1 .. Len(c.type.of) /\ Len(c.type.of) \in Nat
           /\ Len(Elements(c.type.of, c.arg)) = Len(c.type.of)
           /\ \A i \in 1 .. Len(c.type.of) :
                  Elements(c.type.of, c.arg)[i] = Call(c.type.of[i], c.arg[i])
<1>1. c.type \in Types /\ IsType(c.type) /\ IsValue(c.type, c.arg)
  BY ClientItem DEF Names
<1>. DEFINE types == c.type.of
            values == c.arg
            n == Len(types)
<1>2. types \in Seq(Types)
  BY <1>1, IsTypeOf
<1>3. DOMAIN values = DOMAIN types /\ \A i \in DOMAIN types : values[i] \in Values[types[i]]
  BY <1>1 DEF IsValue
<1>. HIDE DEF types, values
<1>4. n \in Nat /\ DOMAIN types = 1 .. n /\ \A i \in 1 .. n : types[i] \in Types
  BY <1>2, LenProperties, ElementOfSeq
<1>5. /\ Elements(types, values) \in Seq(ItemCalls)
      /\ Len(Elements(types, values)) = n
      /\ \A i \in 1 .. n : Elements(types, values)[i] = Call(types[i], values[i])
  BY <1>3, <1>4, ElementsAreItems
<1>. QED
  BY <1>4, <1>5 DEF types, values

LEMMA UnionItem ==
    ASSUME NEW c \in ItemCalls, c.type.name = "union"
    PROVE  /\ c.arg.discr \in UnsignedWords /\ c.arg.discr \in 0 .. Len(c.type.of) - 1
           /\ c.type.of[c.arg.discr + 1] \in Types
           /\ Call(c.type.of[c.arg.discr + 1], c.arg.arm) \in ItemCalls
<1>1. c.type \in Types /\ IsType(c.type) /\ IsValue(c.type, c.arg)
  BY ClientItem DEF Names
<1>2. /\ c.arg.discr \in 0 .. Len(c.type.of) - 1
      /\ c.arg.discr \in UnsignedWords
      /\ c.arg.arm \in Values[c.type.of[c.arg.discr + 1]]
  BY <1>1 DEF IsValue
<1>. DEFINE types == c.type.of
            discr == c.arg.discr
<1>3. types \in Seq(Types) /\ Len(types) \in Nat
  BY <1>1, IsTypeOf, LenProperties
<1>4. types[discr + 1] \in Types
  <2>. HIDE DEF types, discr
  <2>1. discr + 1 \in 1 .. Len(types)
    BY <1>2, <1>3 DEF types, discr
  <2>. QED
    BY <1>3, <2>1, ElementOfSeq
<1>. QED
  BY <1>2, <1>4, ItemCallMade

LEMMA TextIs ==
    ASSUME NEW c \in ItemCalls, c.type.name \in {"var_bytes", "cstring"}
    PROVE  Text(c) \in Seq(Byte) /\ Len(Text(c)) \in Nat
<1>1. c.type \in Types /\ IsType(c.type) /\ IsValue(c.type, c.arg)
  BY ClientItem DEF Names, Scalars
<1>2. c.arg \in Seq(Byte)
  BY <1>1 DEF IsValue
<1>3. Text(c) \in Seq(Byte)
  BY <1>2, CStringIs DEF Text
<1>. QED
  BY <1>3, LenProperties

LEMMA IntegerItem ==
    ASSUME NEW c \in ItemCalls, c.type.name \in Words \cup Wides \cup Smalls
    PROVE  /\ c.arg \in Int
           /\ c.type.name \in Words => c.arg \in WordRange(c.type.name)
           /\ c.type.name \in Wides => High(c.arg) \in WordRange(c.type.name)
           /\ c.type.name \in Smalls => c.arg \in SmallRange(c.type.name)
<1>1. c.type \in Types /\ IsType(c.type) /\ IsValue(c.type, c.arg)
  BY ClientItem DEF Names, Scalars, Words, Wides, Smalls
<1>. QED
  BY <1>1 DEF IsValue

\* Bytes and what pads them.
LEMMA BytesCalls ==
    ASSUME NEW b \in Seq(Byte)
    PROVE  /\ <<Blob(b)>> \o Padding(Len(b)) \in Seq(ItemCalls)
           /\ (<<Blob(b)>> \o Padding(Len(b)))[1] = Blob(b)
           /\ 1 \in 1 .. Len(<<Blob(b)>> \o Padding(Len(b)))
<1>1. Len(b) \in Nat /\ PadSize(Len(b)) \in Nat
  BY LenProperties, PadSizeIs
<1>2. Padding(Len(b)) \in Seq(ItemCalls)
  BY <1>1, ItemCallMade, OneAndTwo, EmptySeq DEF Padding
<1>3. <<Blob(b)>> \in Seq(ItemCalls) /\ Len(<<Blob(b)>>) = 1 /\ <<Blob(b)>>[1] = Blob(b)
  BY ItemCallMade, OneAndTwo
<1>. DEFINE p == Padding(Len(b))
            q == <<Blob(b)>>
<1>. HIDE DEF p, q
<1>4. /\ q \o p \in Seq(ItemCalls)
      /\ Len(q \o p) = Len(q) + Len(p)
      /\ \A i \in 1 .. Len(q) + Len(p) :
             (q \o p)[i] = IF i <= Len(q) THEN q[i] ELSE p[i - Len(q)]
  BY <1>2, <1>3, ConcatProperties DEF p, q
<1>5. Len(p) \in Nat /\ Len(q) = 1 /\ q[1] = Blob(b)
  BY <1>2, <1>3, LenProperties DEF p, q
<1>6. 1 \in 1 .. Len(q) + Len(p) /\ 1 <= Len(q)
  BY <1>5
<1>7. (q \o p)[1] = Blob(b) /\ 1 \in 1 .. Len(q \o p)
  BY <1>4, <1>5, <1>6
<1>. QED
  BY <1>4, <1>7 DEF p, q

\* A call of which a call takes bytes takes some itself or makes a call that does.
SolidKept(c, calls, bytes) ==
    SolidCall(c) => \/ 1 <= Len(bytes)
                    \/ \E i \in 1 .. Len(calls) : SolidCall(calls[i])

LEMMA Expanding ==
    ASSUME NEW c \in ItemCalls, NEW calls, NEW values, NEW bytes,
           Expands(c, calls, values, bytes)
    PROVE  /\ calls \in Seq(ItemCalls)
           /\ values \in Seq(Seq(Int))
           /\ bytes \in Seq(Byte)
           /\ SolidKept(c, calls, bytes)
<1>. DEFINE name == c.type.name
<1>1. /\ <<>> \in Seq(ItemCalls) /\ <<>> \in Seq(Seq(Int)) /\ <<>> \in Seq(Byte)
  BY EmptySeq
<1>2. \A n \in Int : Word(n) \in Seq(Byte) /\ Len(Word(n)) = 4
  BY WordIsBytes DEF Unit
<1>3. c.type \in Solid => Takes(c.type, Solid)
  BY SolidTakes
<1>. DEFINE IsWord(b) == b \in Seq(Byte) /\ Len(b) = 4
<1>16. IsWord(bytes) => bytes \in Seq(Byte) /\ SolidKept(c, calls, bytes)
  BY DEF SolidKept
<1>17. \A n \in Int : IsWord(Word(n))
  BY <1>2
<1>. HIDE DEF IsWord
<1>4. CASE name \in Words
  <2>1. c.arg \in Int
    BY <1>4, IntegerItem
  <2>2. calls = <<>> /\ values = <<<<c.arg>>>> /\ bytes = Word(c.arg)
    BY <1>4 DEF Expands, Words, Wides, Smalls
  <2>11. IsWord(bytes)
    BY <1>17, <2>1, <2>2
  <2>12. values \in Seq(Seq(Int))
    BY <1>1, <2>1, <2>2, OneValue
  <2>13. calls \in Seq(ItemCalls)
    BY <1>1, <2>1, <2>2, OneValue
  <2>. QED
    BY <1>16, <2>11, <2>12, <2>13
<1>5. CASE name \in Wides
  <2>1. c.arg \in Int
    BY <1>5, IntegerItem
  <2>2. calls = <<Rest(c.arg)>> /\ values = <<>> /\ bytes = Word(High(c.arg))
    BY <1>5 DEF Expands, Words, Wides, Smalls
  <2>3. <<Rest(c.arg)>> \in Seq(ItemCalls)
    BY <2>1, ItemCallMade, OneAndTwo
  <2>4. High(c.arg) \in Int
    BY <2>1, PartsAreIntegers
  <2>11. IsWord(bytes)
    BY <1>17, <2>2, <2>4
  <2>12. values \in Seq(Seq(Int))
    BY <1>1, <2>2, <2>3
  <2>13. calls \in Seq(ItemCalls)
    BY <1>1, <2>2, <2>3
  <2>. QED
    BY <1>16, <2>11, <2>12, <2>13
<1>6. CASE name = "low"
  <2>1. c.arg \in Int
    BY <1>6, OtherItem
  <2>2. calls = <<>> /\ values = <<<<c.arg>>>> /\ bytes = Word(Low(c.arg))
    BY <1>6 DEF Expands, Words, Wides, Smalls
  <2>3. Low(c.arg) \in Int
    BY <2>1, PartsAreIntegers
  <2>11. IsWord(bytes)
    BY <1>17, <2>2, <2>3
  <2>12. values \in Seq(Seq(Int))
    BY <1>1, <2>1, <2>2, OneValue
  <2>13. calls \in Seq(ItemCalls)
    BY <1>1, <2>1, <2>2, OneValue
  <2>. QED
    BY <1>16, <2>11, <2>12, <2>13
<1>18. CASE name \in Smalls
  <2>1. c.arg \in Int
    BY <1>18, IntegerItem
  <2>2. /\ calls = <<>> /\ values = <<<<c.arg>>>>
        /\ \E beyond \in 0 .. Power(Unit - SmallSize(name)) - 1 :
               bytes = Word(WordAt(c.arg, SmallSize(name), beyond))
    BY <1>18 DEF Expands, Words, Wides, Smalls
  <2>3. PICK beyond \in Int : bytes = Word(WordAt(c.arg, SmallSize(name), beyond))
    BY <2>2
  <2>4. WordAt(c.arg, SmallSize(name), beyond) \in Int
    BY <2>1, PartsAreIntegers DEF SmallSize
  <2>11. IsWord(bytes)
    BY <1>17, <2>3, <2>4
  <2>12. values \in Seq(Seq(Int))
    BY <2>1, <2>2, OneValue
  <2>13. calls \in Seq(ItemCalls)
    BY <1>1, <2>2
  <2>. QED
    BY <1>16, <2>11, <2>12, <2>13
<1>7. CASE name = "void"
  <2>1. calls = <<>> /\ values = <<>> /\ bytes = <<>>
    BY <1>7 DEF Expands, Words, Wides, Smalls
  <2>2. ~SolidCall(c)
    BY <1>3, <1>7 DEF SolidCall, Takes, Words, Wides, Smalls
  <2>. QED
    BY <1>1, <2>1, <2>2 DEF SolidKept
<1>8. CASE name = "bytes"
  <2>1. c.arg \in Seq(Byte) /\ c.type.len = Len(c.arg)
    BY <1>8, BytesItem
  <2>2. calls = <<Blob(c.arg)>> \o Padding(Len(c.arg)) /\ values = <<>> /\ bytes = <<>>
    BY <1>8 DEF Expands, Words, Wides, Smalls
  <2>3. calls \in Seq(ItemCalls) /\ calls[1] = Blob(c.arg) /\ 1 \in 1 .. Len(calls)
    BY <2>1, <2>2, BytesCalls
  <2>4. SolidCall(c) => c.type.len > 0
    BY <1>3, <1>8 DEF SolidCall, Takes, Words, Wides, Smalls
  <2>5. SolidCall(c) => SolidCall(Blob(c.arg))
    BY <2>1, <2>4, CallFields DEF SolidCall, Blob
  <2>. QED
    BY <1>1, <2>2, <2>3, <2>5 DEF SolidKept
<1>9. CASE name = "blob"
  <2>1. c.arg \in Seq(Byte) /\ c.type.len = Len(c.arg)
    BY <1>9, OtherItem
  <2>2. calls = <<>> /\ values = <<c.arg>> /\ bytes = c.arg
    BY <1>9 DEF Expands, Words, Wides, Smalls
  <2>3. SolidCall(c) => c.type.len > 0
    BY <1>3, <1>9 DEF SolidCall, Takes, Words, Wides, Smalls
  <2>4. Len(c.arg) \in Nat
    BY <2>1, LenProperties
  <2>. QED
    BY <1>1, <2>1, <2>2, <2>3, <2>4, BytesAreIntegers DEF SolidKept
<1>10. CASE name = "pad"
  <2>1. c.type.len \in Nat
    BY <1>10, OtherItem
  <2>2. calls = <<>> /\ values = <<>> /\ bytes = Zeros(c.type.len)
    BY <1>10 DEF Expands, Words, Wides, Smalls
  <2>3. ~SolidCall(c)
    BY <1>3, <1>10 DEF SolidCall, Takes, Words, Wides, Smalls
  <2>. QED
    BY <1>1, <2>1, <2>2, <2>3, ZerosAreBytes DEF SolidKept
<1>11. CASE name \in {"var_bytes", "cstring"}
  <2>1. Text(c) \in Seq(Byte) /\ Len(Text(c)) \in Int
    BY <1>11, TextIs
  <2>2. /\ calls = <<Call(Bytes(Len(Text(c))), Text(c))>>
        /\ values = <<>> /\ bytes = Word(Len(Text(c)))
    BY <1>11 DEF Expands, Words, Wides, Smalls
  <2>3. calls \in Seq(ItemCalls)
    BY <2>1, <2>2, ItemCallMade, OneAndTwo
  <2>11. IsWord(bytes)
    BY <1>17, <2>1, <2>2
  <2>12. values \in Seq(Seq(Int))
    BY <1>1, <2>1, <2>2, <2>3
  <2>13. calls \in Seq(ItemCalls)
    BY <1>1, <2>1, <2>2, <2>3
  <2>. QED
    BY <1>16, <2>11, <2>12, <2>13
<1>12. CASE name = "array"
  <2>1. c.type \in Types /\ IsType(c.type) /\ IsValue(c.type, c.arg)
    BY <1>12, ClientItem DEF Names
  <2>. DEFINE n == c.type.len
              elt == c.type.of[1]
              made == Elements(Copies(elt, n), c.arg)
  <2>2. c.arg \in Seq(Values[elt]) /\ Len(c.arg) = n /\ n \in Nat
    BY <1>12, <2>1, IsTypeOf DEF IsValue
  <2>3. /\ made \in Seq(ItemCalls) /\ Len(made) = n
        /\ \A i \in 1 .. n : made[i] = Call(elt, c.arg[i])
    BY <1>12, <2>1, <2>2, ArrayItems
  <2>4. calls = made /\ values = <<>> /\ bytes = <<>>
    BY <1>12 DEF Expands, Words, Wides, Smalls
  <2>5. SolidCall(c) => n > 0 /\ elt \in Solid
    BY <1>3, <1>12 DEF SolidCall, Takes, Words, Wides, Smalls
  <2>. HIDE DEF made
  <2>6. n > 0 => 1 \in 1 .. n
    BY <2>2
  <2>7. SolidCall(c) => 1 \in 1 .. Len(made) /\ SolidCall(made[1])
    BY <2>3, <2>5, <2>6, CallFields DEF SolidCall
  <2>. QED
    BY <1>1, <2>3, <2>4, <2>7 DEF SolidKept
<1>13. CASE name = "var_array"
  <2>1. c.type \in Types /\ IsType(c.type) /\ IsValue(c.type, c.arg)
    BY <1>13, ClientItem DEF Names
  <2>. DEFINE n == Len(c.arg)
              elt == c.type.of[1]
              made == Elements(Copies(elt, n), c.arg)
  <2>2. c.arg \in Seq(Values[elt]) /\ n \in Nat
    BY <1>13, <2>1, LenProperties DEF IsValue
  <2>3. made \in Seq(ItemCalls)
    BY <1>13, <2>1, <2>2, ArrayItems
  <2>4. calls = made /\ values = <<<<n>>>> /\ bytes = Word(n)
    BY <1>13 DEF Expands, Words, Wides, Smalls
  <2>. HIDE DEF made, n
  <2>5. n \in Int
    BY <2>2
  <2>11. IsWord(bytes)
    BY <1>17, <2>4, <2>5
  <2>12. values \in Seq(Seq(Int))
    BY <1>1, <2>3, <2>4, <2>5, OneValue
  <2>13. calls \in Seq(ItemCalls)
    BY <1>1, <2>3, <2>4, <2>5, OneValue
  <2>. QED
    BY <1>16, <2>11, <2>12, <2>13
<1>14. CASE name = "struct"
  <2>. DEFINE of == c.type.of
              made == Elements(of, c.arg)
  <2>1. /\ made \in Seq(ItemCalls)
        /\ DOMAIN of = 1 .. Len(of) /\ Len(made) = Len(of)
        /\ \A i \in 1 .. Len(of) : made[i] = Call(of[i], c.arg[i])
    BY <1>14, StructItems
  <2>2. calls = made /\ values = <<>> /\ bytes = <<>>
    BY <1>14 DEF Expands, Words, Wides, Smalls
  <2>3. SolidCall(c) => \E i \in DOMAIN of : of[i] \in Solid
    BY <1>3, <1>14 DEF SolidCall, Takes, Words, Wides, Smalls
  <2>. HIDE DEF made, of
  <2>4. SolidCall(c) => \E i \in 1 .. Len(made) : SolidCall(made[i])
    BY <2>1, <2>3, CallFields DEF SolidCall
  <2>. QED
    BY <1>1, <2>1, <2>2, <2>4 DEF SolidKept
<1>15. CASE name = "union"
  <2>. DEFINE discr == c.arg.discr
              arm == Call(c.type.of[discr + 1], c.arg.arm)
  <2>1. discr \in Int /\ arm \in ItemCalls
    BY <1>15, UnionItem
  <2>2. calls = <<arm>> /\ values = <<<<discr>>>> /\ bytes = Word(discr)
    BY <1>15 DEF Expands, Words, Wides, Smalls
  <2>. HIDE DEF arm, discr
  <2>11. IsWord(bytes)
    BY <1>17, <2>1, <2>2
  <2>12. values \in Seq(Seq(Int))
    BY <1>1, <2>1, <2>2, OneValue, OneAndTwo
  <2>13. calls \in Seq(ItemCalls)
    BY <1>1, <2>1, <2>2, OneValue, OneAndTwo
  <2>. QED
    BY <1>16, <2>11, <2>12, <2>13
<1>. QED
  BY <1>4, <1>5, <1>6, <1>7, <1>8, <1>9, <1>10, <1>11, <1>12, <1>13, <1>14, <1>15, <1>18
     DEF Expands

-----------------------------------------------------------------------------
(* The stages of a call.                                                   *)

\* What is left to do, and the values and bytes of what is done.
Stages == [calls : Seq(ItemCalls), values : Seq(Seq(Int)), bytes : Seq(Byte)]
Stage(calls, values, bytes) == [calls |-> calls, values |-> values, bytes |-> bytes]

\* The stage after one with calls left.
Goes(y, z) ==
    /\ y.calls # <<>>
    /\ \E calls, values, bytes :
           /\ Expands(Head(y.calls), calls, values, bytes)
           /\ z = Stage(calls \o Tail(y.calls), y.values \o values, y.bytes \o bytes)

\* A sequence that another begins with.
Begins(b, c) == Len(b) <= Len(c) /\ \A i \in 1 .. Len(b) : b[i] = c[i]

\* At least so many bytes there will be.
Weight(y) == Len(y.bytes) + Count(y.calls)

\* The stages from first to last.
Run(W, first, last) ==
    /\ W \subseteq Stages /\ first \in W /\ last \in W
    /\ \A y \in W : y = last \/ \E z \in W : Goes(y, z)
    /\ \A y \in W : Begins(y.bytes, last.bytes) /\ Weight(y) <= Weight(last)

LEMMA WeightIsNat ==
    ASSUME NEW y \in Stages
    PROVE  /\ Weight(y) \in Nat /\ Len(y.bytes) \in Nat
           /\ Count(y.calls) \in Nat
           /\ y.calls \in Seq(ItemCalls) /\ y.bytes \in Seq(Byte)
           /\ y.values \in Seq(Seq(Int))
<1>1. y.calls \in Seq(ItemCalls) /\ y.bytes \in Seq(Byte) /\ y.values \in Seq(Seq(Int))
  BY DEF Stages
<1>2. Len(y.bytes) \in Nat /\ Count(y.calls) \in Nat
  BY <1>1, LenProperties, CountIsNat
<1>. QED
  BY <1>1, <1>2 DEF Weight

\* What was done before a step.
LEMMA StepParts ==
    ASSUME NEW y \in Stages, y.calls # <<>>
    PROVE  Head(y.calls) \in ItemCalls /\ Tail(y.calls) \in Seq(ItemCalls)
BY HeadTailProperties DEF Stages

\* A step in parts.
Steps(y, z, calls, values, bytes) ==
    /\ Expands(Head(y.calls), calls, values, bytes)
    /\ z.calls = calls \o Tail(y.calls) /\ z.values = y.values \o values
    /\ Len(bytes) \in Nat /\ Len(z.bytes) = Len(y.bytes) + Len(bytes)
    /\ \A i \in 1 .. Len(bytes) : z.bytes[Len(y.bytes) + i] = bytes[i]

LEMMA Stepping ==
    ASSUME NEW y \in Stages, y.calls # <<>>,
           NEW calls, NEW values, NEW bytes,
           Expands(Head(y.calls), calls, values, bytes),
           NEW z, z = Stage(calls \o Tail(y.calls), y.values \o values, y.bytes \o bytes)
    PROVE  /\ z \in Stages
           /\ Goes(y, z)
           /\ Begins(y.bytes, z.bytes)
           /\ Weight(y) <= Weight(z)
           /\ Steps(y, z, calls, values, bytes)
<1>. DEFINE c == Head(y.calls)
            rest == Tail(y.calls)
            m == Len(y.bytes)
            n == Len(bytes)
<1>1. c \in ItemCalls /\ rest \in Seq(ItemCalls)
  BY StepParts
<1>2. /\ y.calls \in Seq(ItemCalls) /\ y.values \in Seq(Seq(Int)) /\ y.bytes \in Seq(Byte)
      /\ m \in Nat
  BY WeightIsNat
<1>3. /\ calls \in Seq(ItemCalls) /\ values \in Seq(Seq(Int)) /\ bytes \in Seq(Byte)
      /\ SolidKept(c, calls, bytes)
  BY <1>1, Expanding
<1>4. z.calls = calls \o rest /\ z.values = y.values \o values /\ z.bytes = y.bytes \o bytes
  BY DEF Stage
<1>5. Goes(y, z)
  BY DEF Goes
<1>6. z.calls \in Seq(ItemCalls) /\ z.values \in Seq(Seq(Int))
  BY <1>1, <1>2, <1>3, <1>4, ConcatProperties
<1>7. /\ z.bytes \in Seq(Byte) /\ Len(z.bytes) = m + n /\ n \in Nat
      /\ \A i \in 1 .. m + n : z.bytes[i] = IF i <= m THEN y.bytes[i] ELSE bytes[i - m]
  <2>1. y.bytes \in Seq(Byte) /\ bytes \in Seq(Byte)
    BY <1>2, <1>3
  <2>2. /\ y.bytes \o bytes \in Seq(Byte)
        /\ Len(y.bytes \o bytes) = Len(y.bytes) + Len(bytes)
        /\ \A i \in 1 .. Len(y.bytes) + Len(bytes) :
               (y.bytes \o bytes)[i] = IF i <= Len(y.bytes) THEN y.bytes[i]
                                                            ELSE bytes[i - Len(y.bytes)]
    BY <2>1, ConcatProperties
  <2>3. Len(bytes) \in Nat
    BY <2>1, LenProperties
  <2>. QED
    BY <1>4, <2>2, <2>3
<1>8. z \in Stages
  BY <1>6, <1>7 DEF Stage, Stages
<1>. HIDE DEF m, n, c, rest
<1>9. Begins(y.bytes, z.bytes)
  <2>1. \A i \in 1 .. m : i \in 1 .. m + n /\ i <= m
    BY <1>2, <1>7
  <2>. QED
    BY <1>2, <1>7, <2>1 DEF Begins, m
<1>10. \A i \in 1 .. n : z.bytes[m + i] = bytes[i]
  <2>1. \A i \in 1 .. n : m + i \in 1 .. m + n /\ ~ (m + i <= m) /\ (m + i) - m = i
    BY <1>2, <1>7
  <2>. QED
    BY <1>7, <2>1
<1>11. Weight(y) <= Weight(z)
  <2>1. Count(y.calls) <= Count(rest) + 1 /\ (~SolidCall(c) => Count(y.calls) = Count(rest))
    BY <1>2, CountTail DEF c, rest
  <2>2. /\ Count(rest) <= Count(z.calls)
        /\ (\E i \in 1 .. Len(calls) : SolidCall(calls[i]))
               => Count(rest) + 1 <= Count(z.calls)
    BY <1>1, <1>3, <1>4, CountConcat
  <2>3. Count(rest) \in Nat /\ Count(z.calls) \in Nat /\ Count(y.calls) \in Nat
    BY <1>1, <1>2, <1>6, CountIsNat
  <2>4. Count(y.calls) <= Count(z.calls) + n
    BY <1>3, <1>7, <2>1, <2>2, <2>3 DEF SolidKept, n
  <2>5. Weight(y) = m + Count(y.calls) /\ Weight(z) = (m + n) + Count(z.calls)
    BY <1>7 DEF Weight, m
  <2>. QED
    BY <1>2, <1>7, <2>3, <2>4, <2>5
<1>12. Steps(y, z, calls, values, bytes)
  BY <1>4, <1>7, <1>10 DEF Steps, m, n, c, rest
<1>. QED
  BY <1>5, <1>8, <1>9, <1>11, <1>12

LEMMA BeginsOn ==
    ASSUME NEW a, NEW b, NEW c, Len(a) \in Nat, Len(b) \in Nat, Len(c) \in Nat,
           Begins(a, b), Begins(b, c)
    PROVE  Begins(a, c)
<1>1. Len(a) <= Len(b) /\ Len(b) <= Len(c)
  BY DEF Begins
<1>2. \A i \in 1 .. Len(a) : i \in 1 .. Len(b)
  BY <1>1
<1>. QED
  BY <1>1, <1>2 DEF Begins

LEMMA BeginsItself ==
    ASSUME NEW a, Len(a) \in Nat
    PROVE  Begins(a, a)
BY DEF Begins

LEMMA Starting ==
    ASSUME NEW first \in Stages
    PROVE  Run({first}, first, first)
BY WeightIsNat, BeginsItself DEF Run

\* A run goes on.
LEMMA Extending ==
    ASSUME NEW W, NEW first, NEW y, Run(W, first, y),
           NEW z \in Stages, Goes(y, z), Begins(y.bytes, z.bytes), Weight(y) <= Weight(z)
    PROVE  Run(W \cup {z}, first, z)
<1>1. W \subseteq Stages /\ first \in W /\ y \in W
  BY DEF Run
<1>2. ASSUME NEW x \in W PROVE x = z \/ \E w \in W \cup {z} : Goes(x, w)
  BY <1>2 DEF Run
<1>3. ASSUME NEW x \in W PROVE Begins(x.bytes, z.bytes) /\ Weight(x) <= Weight(z)
  <2>1. Begins(x.bytes, y.bytes) /\ Weight(x) <= Weight(y) /\ x \in Stages /\ y \in Stages
    BY <1>1 DEF Run
  <2>2. /\ Len(x.bytes) \in Nat /\ Len(y.bytes) \in Nat /\ Len(z.bytes) \in Nat
        /\ Weight(x) \in Nat /\ Weight(y) \in Nat /\ Weight(z) \in Nat
    BY <2>1, WeightIsNat
  <2>. QED
    BY <2>1, <2>2, BeginsOn
<1>4. Begins(z.bytes, z.bytes) /\ Weight(z) <= Weight(z)
  BY WeightIsNat, BeginsItself
<1>. QED
  BY <1>1, <1>2, <1>3, <1>4 DEF Run

-----------------------------------------------------------------------------
(* What the array holds of an item.                                        *)

LEMMA NoneCounted == Count(<<>>) = 0
<1>1. SolidAt(<<>>) = {}
  BY DEF SolidAt
<1>. QED
  BY <1>1, FS_EmptySet DEF Count

LEMMA Reassociate ==
    ASSUME NEW S, NEW a \in Seq(S), NEW b \in Seq(S), NEW c \in Seq(S)
    PROVE  (a \o b) \o c = a \o (b \o c) /\ <<>> \o a = a /\ a \o <<>> = a
BY ConcatAssociative, ConcatEmptySeq

LEMMA Pushed ==
    ASSUME NEW S, NEW x \in S, NEW s \in Seq(S)
    PROVE  /\ <<x>> \o s \in Seq(S) /\ <<x>> \o s # <<>>
           /\ Head(<<x>> \o s) = x /\ Tail(<<x>> \o s) = s
<1>1. <<x>> \in Seq(S) /\ Len(<<x>>) = 1 /\ <<x>>[1] = x
  BY OneAndTwo
<1>2. PICK one \in Seq(S) : one = <<x>> /\ Len(one) = 1 /\ one[1] = x
  BY <1>1
<1>3. PICK b \in Seq(S) : b = one \o s
  BY ConcatProperties
<1>4. /\ Len(b) = 1 + Len(s) /\ Len(s) \in Nat
      /\ \A i \in 1 .. 1 + Len(s) : b[i] = IF i <= 1 THEN one[i] ELSE s[i - 1]
  <2>1. /\ Len(one \o s) = Len(one) + Len(s)
        /\ \A i \in 1 .. Len(one) + Len(s) :
               (one \o s)[i] = IF i <= Len(one) THEN one[i] ELSE s[i - Len(one)]
    BY ConcatProperties
  <2>2. Len(s) \in Nat
    BY LenProperties
  <2>. QED
    BY <1>2, <1>3, <2>1, <2>2
<1>5. b # <<>>
  BY <1>4, EmptySeq
<1>6. Head(b) = x
  <2>1. 1 \in 1 .. 1 + Len(s) /\ Head(b) = b[1]
    BY <1>4, <1>5
  <2>. QED
    BY <1>2, <1>4, <2>1
<1>7. /\ Tail(b) \in Seq(S)
      /\ Len(Tail(b)) = Len(b) - 1
      /\ \A i \in 1 .. Len(Tail(b)) : Tail(b)[i] = b[i + 1]
  BY <1>5, HeadTailProperties
<1>8. \A i \in 1 .. Len(s) : Tail(b)[i] = s[i]
  <2>1. \A i \in 1 .. Len(s) : i + 1 \in 1 .. 1 + Len(s) /\ ~ (i + 1 <= 1) /\ (i + 1) - 1 = i
    BY <1>4
  <2>. QED
    BY <1>4, <1>7, <2>1
<1>9. Tail(b) = s
  <2>1. Len(Tail(b)) = Len(s)
    BY <1>4, <1>7
  <2>. QED
    BY <1>7, <1>8, <2>1, SeqEqual
<1>. QED
  BY <1>2, <1>3, <1>5, <1>6, <1>9

LEMMA PushedBefore ==
    ASSUME NEW S, NEW x \in S, NEW r \in Seq(S), NEW s \in Seq(S)
    PROVE  /\ (<<x>> \o r) \o s = <<x>> \o (r \o s)
           /\ <<x>> \o r \in Seq(S) /\ r \o s \in Seq(S)
<1>1. PICK one \in Seq(S) : one = <<x>>
  BY OneAndTwo
<1>2. (one \o r) \o s = one \o (r \o s)
  BY ConcatAssociative
<1>3. one \o r \in Seq(S) /\ r \o s \in Seq(S)
  BY ConcatProperties
<1>. QED
  BY <1>1, <1>2, <1>3

\* Calls whose encoder checks that there is room before it writes.
Counted == {"var_bytes", "cstring", "var_array"}

First(type, value) == Stage(<<Call(type, value)>>, <<>>, <<>>)

\* What m has between base and the end of an item are bytes of a call for a value
\* of a type: all of them, or the first ones if the encoder failed, which had
\* more to write or found no room for what it was to count.
Tells(m, type, base, item, whole, W, last) ==
    /\ type \in Types
    /\ base \in Nat /\ item.end \in Nat /\ base <= item.end
    /\ \E value \in Values[type] : Run(W, First(type, value), last)
    /\ item.end <= base + Len(last.bytes)
    /\ \A i \in 1 .. item.end - base : m[base + i] = last.bytes[i]
    /\ IF whole
       THEN /\ last.calls = <<>> /\ item.values = last.values
            /\ item.end = base + Len(last.bytes)
       ELSE item.end = base + Len(last.bytes) =>
                last.calls # <<>> /\ Head(last.calls).type.name \in Counted
Told(m, type, base, item, whole) ==
    \E W, last : Tells(m, type, base, item, whole, W, last)

LEMMA ToldStill ==
    ASSUME NEW m, NEW type, NEW base, NEW item, NEW whole,
           Told(m, type, base, item, whole),
           NEW n, \A i \in 1 .. item.end : n[i] = m[i]
    PROVE  Told(n, type, base, item, whole)
<1>1. PICK W, last : Tells(m, type, base, item, whole, W, last)
  BY DEF Told
<1>2. base \in Nat /\ item.end \in Nat
  BY <1>1 DEF Tells
<1>3. \A i \in 1 .. item.end - base : base + i \in 1 .. item.end
  BY <1>2
<1>4. Tells(n, type, base, item, whole, W, last)
  BY <1>1, <1>3 DEF Tells
<1>. QED
  BY <1>4 DEF Told

LEMMA GoesBy ==
    ASSUME NEW y \in Stages, NEW z, Goes(y, z)
    PROVE  \E calls, values, bytes : Steps(y, z, calls, values, bytes)
<1>1. y.calls # <<>>
  BY DEF Goes
<1>2. PICK calls, values, bytes :
          /\ Expands(Head(y.calls), calls, values, bytes)
          /\ z = Stage(calls \o Tail(y.calls), y.values \o values, y.bytes \o bytes)
  BY DEF Goes
<1>3. Steps(y, z, calls, values, bytes)
  BY <1>1, <1>2, Stepping
<1>. QED
  BY <1>3

\* From a stage of an item a decoder, at a place of the stream that ends at lim,
\* can go on to the next one, whose bytes it finds there.
Advance(m, base, lim, item, whole, y, z, calls, values, bytes) ==
    /\ Steps(y, z, calls, values, bytes)
    /\ base + Len(z.bytes) <= lim =>
           \A i \in 1 .. Len(bytes) : m[base + Len(y.bytes) + i] = bytes[i]
    /\ whole => base + Weight(z) <= item.end

LEMMA Onward ==
    ASSUME NEW m, NEW type, NEW base, NEW item, NEW whole, NEW W, NEW last,
           Tells(m, type, base, item, whole, W, last),
           NEW y \in W, y.calls # <<>>,
           NEW lim \in Nat, whole \/ lim <= item.end,
           base + Len(y.bytes) <= lim,
           whole \/ Head(y.calls).type.name \notin Counted \/ base + Len(y.bytes) < lim
    PROVE  \E z \in W : \E calls, values, bytes :
               Advance(m, base, lim, item, whole, y, z, calls, values, bytes)
<1>1. /\ base \in Nat /\ item.end \in Nat /\ base <= item.end
      /\ item.end <= base + Len(last.bytes)
      /\ \A i \in 1 .. item.end - base : m[base + i] = last.bytes[i]
  BY DEF Tells
<1>2. /\ W \subseteq Stages /\ last \in W
      /\ \A x \in W : x = last \/ \E z \in W : Goes(x, z)
      /\ \A x \in W : Begins(x.bytes, last.bytes) /\ Weight(x) <= Weight(last)
  BY DEF Tells, Run
<1>3. Len(last.bytes) \in Nat /\ Len(y.bytes) \in Nat /\ y \in Stages
  BY <1>2, WeightIsNat
<1>4. y # last
  <2>1. ASSUME y = last PROVE FALSE
    <3>1. ~whole /\ lim <= item.end
      BY <2>1 DEF Tells
    <3>4. base + Len(last.bytes) <= lim /\ Len(last.bytes) \in Nat
      BY <1>3, <2>1
    <3>2. item.end = base + Len(last.bytes) /\ lim = item.end
      BY <1>1, <3>1, <3>4
    <3>5. Head(y.calls).type.name \notin Counted \/ base + Len(y.bytes) < lim
      BY <3>1
    <3>3. Head(last.calls).type.name \in Counted
      BY <3>1, <3>2 DEF Tells
    <3>. QED
      BY <2>1, <3>2, <3>3, <3>5, <1>1, <1>3
  <2>. QED
    BY <2>1
<1>5. PICK z \in W : Goes(y, z)
  BY <1>2, <1>4
<1>6. PICK calls, values, bytes : Steps(y, z, calls, values, bytes)
  BY <1>3, <1>5, GoesBy
<1>7. /\ Len(bytes) \in Nat /\ Len(z.bytes) = Len(y.bytes) + Len(bytes)
      /\ \A i \in 1 .. Len(bytes) : z.bytes[Len(y.bytes) + i] = bytes[i]
  BY <1>6 DEF Steps
<1>9. /\ z \in Stages /\ Begins(z.bytes, last.bytes) /\ Weight(z) <= Weight(last)
      /\ Weight(z) \in Nat /\ Len(z.bytes) \in Nat
  BY <1>2, WeightIsNat
<1>10. ASSUME whole PROVE base + Weight(z) <= item.end
  <2>1. last.calls = <<>> /\ item.end = base + Len(last.bytes)
    BY <1>10 DEF Tells
  <2>2. Weight(last) = Len(last.bytes)
    BY <1>3, <2>1, NoneCounted DEF Weight
  <2>. QED
    BY <1>1, <1>3, <1>9, <2>1, <2>2
<1>11. ASSUME base + Len(z.bytes) <= lim, NEW i \in 1 .. Len(bytes)
       PROVE  m[base + Len(y.bytes) + i] = bytes[i]
  <2>1. Len(y.bytes) + i \in 1 .. Len(z.bytes)
    BY <1>3, <1>7
  <2>2. last.bytes[Len(y.bytes) + i] = bytes[i] /\ Len(z.bytes) <= Len(last.bytes)
    <3>1. last.bytes[Len(y.bytes) + i] = z.bytes[Len(y.bytes) + i]
          /\ Len(z.bytes) <= Len(last.bytes)
      BY <1>9, <2>1 DEF Begins
    <3>. QED
      BY <1>7, <3>1
  <2>3. base + Len(z.bytes) <= item.end
    <3>1. CASE whole
      <4>1. item.end = base + Len(last.bytes)
        BY <3>1 DEF Tells
      <4>. QED
        BY <1>1, <1>3, <1>9, <2>2, <4>1
    <3>2. CASE lim <= item.end
      BY <1>1, <1>9, <1>11, <3>2
    <3>. QED
      BY <3>1, <3>2
  <2>4. Len(y.bytes) + i \in 1 .. item.end - base
    BY <1>1, <1>3, <1>7, <1>9, <2>1, <2>3
  <2>5. m[base + (Len(y.bytes) + i)] = last.bytes[Len(y.bytes) + i]
    BY <1>1, <2>4
  <2>6. base + (Len(y.bytes) + i) = base + Len(y.bytes) + i
    BY <1>1, <1>3, <1>7
  <2>. QED
    BY <2>2, <2>5, <2>6
<1>. QED
  BY <1>6, <1>10, <1>11 DEF Advance

-----------------------------------------------------------------------------
(* The invariant of the channel.                                           *)

EndOf(k) == IF k = 0 THEN 0 ELSE sent[k].end

\* What is in the array of the items written so far; but the last of them may be
\* one whose encoder failed.
Ledger ==
    /\ sent \in Seq(Items) /\ Len(script) = Len(sent)
    /\ acked \in 0 .. Len(sent) /\ Len(sent) <= acked + 1
    /\ \A k \in 1 .. Len(sent) :
           sent[k].end <= Written /\ Told(mem, script[k], EndOf(k - 1), sent[k], k <= acked)

\* Where the stream is between calls.  Nothing is encoded after a failure that
\* has left bytes in it.
Between ==
    call = NULL =>
        IF phase = "writer"
        THEN /\ stream.pos = EndOf(Len(sent))
             /\ acked = Len(sent) \/ (rc # "OK" /\ stream.pos # start)
        ELSE IF rc = "OK" THEN stream.pos = EndOf(Len(received))
                          ELSE start = EndOf(Len(received))

\* The bytes b are what c has after its first n.
Ends(c, n, b) == Len(c) = n + Len(b) /\ \A i \in 1 .. Len(b) : c[n + i] = b[i]

\* An encoder has come to a stage, but for one or two writes, or has just decided
\* how to go on from a stage with something to count.
Putting(y) ==
    /\ part = y.values
    /\ \/ todo = y.calls /\ stream.pos = start + Len(y.bytes)
       \/ \E b \in Seq(Byte) :
              todo = <<Put(b)>> \o y.calls /\ Ends(y.bytes, stream.pos - start, b)
       \/ \E a, b \in Seq(Byte) :
              /\ todo = <<Put(a)>> \o (<<Put(b)>> \o y.calls)
              /\ Ends(y.bytes, stream.pos - start, a \o b)
Counting(y) ==
    /\ y.calls # <<>> /\ Head(y.calls).type.name \in Counted
    /\ stream.pos = start + Len(y.bytes)
    /\ \E n \in Nat, calls \in Seq(ItemCalls), values \in Seq(Seq(Int)) :
           /\ todo = <<Length(n)>> \o (calls \o Tail(y.calls))
           /\ part = y.values \o values
           /\ n <= WordMax => Expands(Head(y.calls), calls, values, Word(n))
Leads(W, value, y) ==
    /\ value \in Values[call]
    /\ Run(W, First(call, value), y)
    /\ start <= stream.pos
    /\ \A i \in 1 .. stream.pos - start : mem[start + i] = y.bytes[i]
    /\ Putting(y) \/ Counting(y)
Sending ==
    phase = "writer" /\ call # NULL =>
        /\ start = EndOf(Len(sent)) /\ acked = Len(sent)
        /\ call \in Types /\ peer = call
        /\ \E W, value, y : Leads(W, value, y)

\* A decoder is at a stage of the item that was encoded where it is.
Current == Len(received) + 1
Follows(W, last, y) ==
    /\ Tells(mem, call, start, sent[Current], Current <= acked, W, last)
    /\ y \in W
    /\ Match(todo, y.calls) /\ part = y.values /\ stream.pos = start + Len(y.bytes)
Receiving ==
    phase = "reader" /\ call # NULL =>
        /\ start = EndOf(Len(received))
        /\ Len(received) < Len(sent) /\ call = script[Current]
        /\ \E W, last, y : Follows(W, last, y)

Arrived ==
    IF phase = "writer"
    THEN received = <<>>
    ELSE /\ wire = EndOf(Len(sent))
         /\ Truncation \/ (stream.limit = wire /\ acked = Len(sent))
         /\ Len(received) <= Len(sent)
         /\ \A i \in 1 .. Len(received) : received[i] = sent[i]

\* Nothing can be said of integers smaller than a word, of which an encoder
\* writes what lies next to them in memory.
OnlyWords == \A type \in Types : type.name \notin Smalls

CInv ==
    Ledger /\ Between /\ Sending /\ Receiving /\ Arrived /\ (OnlyWords => Decodable)
DInv == IInv /\ CInv

-----------------------------------------------------------------------------
(* Decoders.                                                               *)

\* What a decoder can rely on.
LEMMA ReaderAt ==
    ASSUME DInv, phase = "reader", todo # <<>>
    PROVE  /\ call # NULL /\ StreamOK /\ stream.limit \in Nat /\ stream.pos \in Nat
           /\ stream.pos <= stream.limit /\ stream.limit <= wire
           /\ todo \in Seq(ReaderCalls) /\ part \in Seq(Seq(Int))
           /\ start = EndOf(Len(received)) /\ call = script[Current]
           /\ Current \in 1 .. Len(sent) /\ sent[Current].end \in Nat /\ wire \in Nat
           /\ sent[Current].end <= wire
           /\ Current <= acked \/ sent[Current].end = wire
           /\ \E W, last, y : Follows(W, last, y)
<1>1. /\ TypeOK /\ StreamInBounds /\ todo \in Seq(Waiting) /\ received \in Seq(Items)
      /\ Ledger /\ Receiving /\ Arrived
  BY DEF DInv, IInv, CInv
<1>2. call # NULL
  BY <1>1 DEF TypeOK
<1>3. /\ start = EndOf(Len(received)) /\ Len(received) < Len(sent) /\ call = script[Current]
      /\ \E W, last, y : Follows(W, last, y)
  BY <1>1, <1>2 DEF Receiving
<1>4. /\ sent \in Seq(Items) /\ acked \in 0 .. Len(sent) /\ Len(sent) <= acked + 1
      /\ wire = EndOf(Len(sent)) /\ Len(sent) \in Nat /\ Len(received) \in Nat
  BY <1>1, LenProperties DEF Ledger, Arrived
<1>5. Current \in 1 .. Len(sent)
  BY <1>3, <1>4 DEF Current
<1>6. sent[Current].end \in Nat /\ sent[Current].end <= wire
  <2>1. sent[Current] \in Items
    BY <1>4, <1>5, ElementOfSeq
  <2>2. sent[Current].end <= wire
    BY <1>1, <1>5 DEF Ledger, Written
  <2>. QED
    BY <2>1, <2>2 DEF Items
<1>7. Current <= acked \/ sent[Current].end = wire
  <2>1. ~ (Current <= acked) => Current = Len(sent) /\ Len(sent) # 0
    BY <1>4, <1>5
  <2>. QED
    BY <1>4, <2>1 DEF EndOf
<1>8. /\ StreamOK /\ stream.limit \in Nat /\ stream.pos \in Nat /\ wire \in Nat
      /\ stream.pos <= stream.limit /\ stream.limit <= wire
  BY <1>1, XdrAssumption DEF TypeOK, StreamInBounds, StreamOK
<1>9. todo \in Seq(ReaderCalls) /\ part \in Seq(Seq(Int))
  BY <1>1 DEF Waiting, TypeOK
<1>. QED
  BY <1>2, <1>3, <1>5, <1>6, <1>7, <1>8, <1>9

\* A decoder that is not storing has a stage to go on to, unless its encoder
\* failed where the stream ends.
Meets(W, last, y, z, calls, values, bytes) ==
    /\ Follows(W, last, y)
    /\ y \in Stages /\ z \in Stages /\ z \in W
    /\ Head(y.calls) \in ItemCalls /\ Tail(y.calls) \in Seq(ItemCalls)
    /\ Agree(Next1, Head(y.calls)) /\ Match(Tail(todo), Tail(y.calls))
    /\ Steps(y, z, calls, values, bytes)
    /\ Len(bytes) <= stream.limit - stream.pos => Ahead(Len(bytes)) = bytes
    /\ Current <= acked /\ stream.limit = wire =>
           stream.pos + Len(bytes) + Count(z.calls) <= stream.limit

LEMMA AgreeOnCounts ==
    ASSUME NEW x, NEW c, Agree(x, c), c.type.name \in Counted
    PROVE  x.type.name \in Counted
BY DEF Agree, Counted

LEMMA Meeting ==
    ASSUME DInv, phase = "reader", todo # <<>>, ~IsStore(Next1),
           \/ Current <= acked
           \/ Next1.type.name \notin Counted
           \/ stream.limit - stream.pos >= Unit
    PROVE  \E W, last, y, z, calls, values, bytes : Meets(W, last, y, z, calls, values, bytes)
<1>1. /\ StreamOK /\ stream.limit \in Nat /\ stream.pos \in Nat
      /\ stream.pos <= stream.limit /\ stream.limit <= wire
      /\ todo \in Seq(ReaderCalls)
      /\ sent[Current].end \in Nat /\ wire \in Nat /\ sent[Current].end <= wire
      /\ Current <= acked \/ sent[Current].end = wire
  BY ReaderAt
<1>2. PICK W, last, y : Follows(W, last, y)
  BY ReaderAt
<1>3. /\ Tells(mem, call, start, sent[Current], Current <= acked, W, last)
      /\ y \in W /\ Match(todo, y.calls) /\ stream.pos = start + Len(y.bytes)
  BY <1>2 DEF Follows
<1>4. W \subseteq Stages /\ start \in Nat
  BY <1>3 DEF Tells, Run
<1>5. y \in Stages /\ y.calls \in Seq(ItemCalls) /\ Len(y.bytes) \in Nat
  BY <1>3, <1>4, WeightIsNat
<1>6. y.calls # <<>> /\ Agree(Next1, Head(y.calls)) /\ Match(Tail(todo), Tail(y.calls))
  BY <1>1, <1>3, <1>5, MatchTail DEF Next1
<1>7. Head(y.calls) \in ItemCalls /\ Tail(y.calls) \in Seq(ItemCalls)
  BY <1>5, <1>6, StepParts
<1>8. \/ Current <= acked
      \/ Head(y.calls).type.name \notin Counted
      \/ start + Len(y.bytes) < stream.limit
  <2>1. CASE Next1.type.name \notin Counted
    BY <1>6, <2>1, AgreeOnCounts
  <2>2. CASE stream.limit - stream.pos >= Unit
    BY <1>1, <1>3, <2>2 DEF Unit
  <2>3. CASE Current <= acked
    BY <2>3
  <2>. QED
    BY <2>1, <2>2, <2>3
<1>9. PICK z \in W : \E calls, values, bytes :
          Advance(mem, start, stream.limit, sent[Current], Current <= acked, y, z,
                  calls, values, bytes)
  BY <1>1, <1>3, <1>6, <1>8, Onward
<1>10. PICK calls, values, bytes :
          Advance(mem, start, stream.limit, sent[Current], Current <= acked, y, z,
                  calls, values, bytes)
  BY <1>9
<1>11. /\ Steps(y, z, calls, values, bytes)
       /\ start + Len(z.bytes) <= stream.limit =>
              \A i \in 1 .. Len(bytes) : mem[start + Len(y.bytes) + i] = bytes[i]
       /\ Current <= acked => start + Weight(z) <= sent[Current].end
  BY <1>10 DEF Advance
<1>12. z \in Stages /\ Len(bytes) \in Nat /\ Len(z.bytes) = Len(y.bytes) + Len(bytes)
  BY <1>4, <1>11 DEF Steps
<1>13. Count(z.calls) \in Nat /\ Weight(z) = Len(z.bytes) + Count(z.calls)
  BY <1>12, WeightIsNat DEF Weight
<1>14. Current <= acked /\ stream.limit = wire =>
           stream.pos + Len(bytes) + Count(z.calls) <= stream.limit
  BY <1>1, <1>3, <1>4, <1>5, <1>11, <1>12, <1>13
<1>15. bytes \in Seq(Byte)
  <2>1. Expands(Head(y.calls), calls, values, bytes)
    BY <1>11 DEF Steps
  <2>. QED
    BY <1>7, <2>1, Expanding
<1>16. ASSUME Len(bytes) <= stream.limit - stream.pos PROVE Ahead(Len(bytes)) = bytes
  <2>1. start + Len(z.bytes) <= stream.limit
    BY <1>1, <1>3, <1>4, <1>5, <1>12, <1>16
  <2>2. \A i \in 1 .. Len(bytes) : mem[stream.pos + i] = bytes[i]
    BY <1>3, <1>11, <2>1
  <2>3. stream.data = stream.pos
    BY <1>1 DEF StreamOK, StreamInBounds
  <2>4. bytes = [i \in 1 .. Len(bytes) |-> bytes[i]]
    BY <1>15, LenProperties
  <2>. QED
    BY <2>2, <2>3, <2>4 DEF Ahead
<1>17. Meets(W, last, y, z, calls, values, bytes)
  BY <1>2, <1>5, <1>6, <1>7, <1>11, <1>12, <1>14, <1>16 DEF Meets
<1>. QED
  BY <1>17

\* Later stages of the item.
LEMMA Further ==
    ASSUME DInv, phase = "reader", todo # <<>>,
           NEW W, NEW last, NEW y, Follows(W, last, y),
           NEW z \in W, z.calls # <<>>, Head(z.calls).type.name \notin Counted,
           start + Len(z.bytes) <= stream.limit
    PROVE  \E w \in W : \E calls, values, bytes :
               /\ w \in Stages /\ z \in Stages /\ Steps(z, w, calls, values, bytes)
               /\ Current <= acked => start + Weight(w) <= sent[Current].end
<1>1. /\ stream.limit \in Nat /\ stream.limit <= wire
      /\ sent[Current].end \in Nat /\ wire \in Nat
      /\ Current <= acked \/ sent[Current].end = wire
  BY ReaderAt
<1>2. Tells(mem, call, start, sent[Current], Current <= acked, W, last)
  BY DEF Follows
<1>3. PICK w \in W : \E calls, values, bytes :
          Advance(mem, start, stream.limit, sent[Current], Current <= acked, z, w,
                  calls, values, bytes)
  BY <1>1, <1>2, Onward
<1>4. PICK calls, values, bytes :
          Advance(mem, start, stream.limit, sent[Current], Current <= acked, z, w,
                  calls, values, bytes)
  BY <1>3
<1>5. w \in Stages /\ z \in Stages
  BY <1>2 DEF Tells, Run
<1>. QED
  BY <1>4, <1>5 DEF Advance

\* A decoder goes on to a stage.
LEMMA Following ==
    ASSUME DInv, phase = "reader", todo # <<>>, UNCHANGED mem, stream'.limit = stream.limit,
           NEW to, NEW new, NEW got, Allocates(to, new, got),
           NEW W, NEW last, NEW x, Follows(W, last, x),
           NEW y \in W, Match(new \o Tail(todo), y.calls), part \o got = y.values,
           stream'.pos = start + Len(y.bytes)
    PROVE  CInv'
<1>1. /\ todo' = new \o Tail(todo) /\ part' = part \o got
      /\ UNCHANGED <<phase, call, rc, start, peer, script, sent, acked, wire, received>>
  BY DEF Allocates
<1>2. Ledger /\ Arrived /\ (OnlyWords => Decodable) /\ call # NULL
  BY ReaderAt DEF DInv, CInv
<1>3. Ledger'
  BY <1>1, <1>2 DEF Ledger, Written, EndOf
<1>4. Arrived' /\ (OnlyWords => Decodable')
  BY <1>1, <1>2 DEF Arrived, Decodable, EndOf
<1>5. Between' /\ Sending'
  BY <1>1, <1>2 DEF Between, Sending
<1>6. Follows(W, last, y)'
  BY <1>1 DEF Follows, Current
<1>7. Receiving'
  <2>1. (start = EndOf(Len(received)) /\ Len(received) < Len(sent) /\ call = script[Current])'
    BY <1>1, <1>2 DEF DInv, CInv, Receiving, EndOf, Current
  <2>. QED
    BY <1>6, <2>1 DEF Receiving
<1>. QED
  BY <1>3, <1>4, <1>5, <1>7 DEF CInv, OnlyWords

\* It fails, but not when all of the item is there.
LEMMA GivingUp ==
    ASSUME DInv, phase = "reader", todo # <<>>, UNCHANGED mem, stream'.limit = stream.limit,
           NEW code \in Statuses, Fails(code),
           OnlyWords => ~ (Current <= acked /\ stream.limit = wire), code # "OK"
    PROVE  CInv'
<1>1. /\ rc' = code /\ call' = NULL
      /\ UNCHANGED <<script, sent, phase, start, peer, acked, wire, received>>
  BY DEF Fails
<1>2. Ledger /\ Arrived /\ call # NULL /\ start = EndOf(Len(received))
  BY ReaderAt DEF DInv, CInv
<1>3. Ledger'
  BY <1>1, <1>2 DEF Ledger, Written, EndOf
<1>4. Arrived'
  BY <1>1, <1>2 DEF Arrived, EndOf
<1>5. Between' /\ Sending' /\ Receiving'
  BY <1>1, <1>2 DEF Between, Sending, Receiving, EndOf
<1>6. OnlyWords => Decodable'
  <2>1. ~ (Len(received) + 1 <= acked) => Len(received) >= acked
    <3>1. Len(received) \in Nat /\ acked \in Nat
      BY <1>2, LenProperties DEF DInv, IInv, Ledger
    <3>. QED
      BY <3>1
  <2>. QED
    BY <1>1, <2>1 DEF Decodable, Current
<1>. QED
  BY <1>3, <1>4, <1>5, <1>6 DEF CInv, OnlyWords

\* What agrees with a call.
LEMMA Agreeing ==
    ASSUME NEW x, NEW c, Agree(x, c)
    PROVE  /\ x.type.name \in Names => x.type = c.type
           /\ x.type.name = "chars" =>
                  /\ c.type.name = "bytes" /\ x.type.len = c.type.len
                  /\ CString(c.arg) = c.arg
           /\ x.type.name = "blob" => c.type.name = "blob" /\ x.type.len = c.type.len
           /\ x.type.name = "string" =>
                  /\ c.type.name = "blob" /\ x.type.len = c.type.len
                  /\ CString(c.arg) = c.arg
           /\ x.type.name = "low" => c.type.name = "low" /\ x.arg = High(c.arg)
           /\ x.type.name = "pad" => c.type.name = "pad" /\ x.type.len = c.type.len
<1>1. \A name \in {"chars", "blob", "string", "low", "pad"} : name \notin Names
  BY DEF Names, Scalars, Words, Wides, Smalls
<1>. QED
  BY <1>1 DEF Agree

\* A call is replaced by others that agree.
LEMMA Continuing ==
    ASSUME DInv, phase = "reader", todo # <<>>, UNCHANGED mem, stream'.limit = stream.limit,
           NEW W, NEW last, NEW y, NEW z, NEW calls, NEW values, NEW bytes,
           Meets(W, last, y, z, calls, values, bytes),
           NEW to, NEW new, Allocates(to, new, values),
           Match(new \o Tail(todo), calls \o Tail(y.calls)),
           stream'.pos = stream.pos + Len(bytes)
    PROVE  CInv'
<1>1. /\ Follows(W, last, y) /\ z \in W /\ y \in Stages
      /\ z.calls = calls \o Tail(y.calls) /\ z.values = y.values \o values
      /\ Len(bytes) \in Nat /\ Len(z.bytes) = Len(y.bytes) + Len(bytes)
  BY DEF Meets, Steps
<1>2. part = y.values /\ stream.pos = start + Len(y.bytes) /\ start \in Nat
  BY <1>1 DEF Follows, Tells
<1>3. Len(y.bytes) \in Nat
  BY <1>1, WeightIsNat
<1>4. stream'.pos = start + Len(z.bytes)
  BY <1>1, <1>2, <1>3
<1>5. Match(new \o Tail(todo), z.calls) /\ part \o values = z.values
  BY <1>1, <1>2
<1>. QED
  BY <1>1, <1>4, <1>5, Following

LEMMA NothingNew ==
    ASSUME DInv, phase = "reader", todo # <<>>,
           NEW W, NEW last, NEW y, NEW z, NEW calls, NEW values, NEW bytes,
           Meets(W, last, y, z, calls, values, bytes)
    PROVE  /\ Tail(todo) \in Seq(ReaderCalls) /\ Tail(y.calls) \in Seq(ItemCalls)
           /\ Match(Tail(todo), Tail(y.calls))
           /\ Match(<<>> \o Tail(todo), <<>> \o Tail(y.calls))
<1>1. Tail(todo) \in Seq(ReaderCalls)
  BY ReaderAt, HeadTailProperties
<1>2. Tail(y.calls) \in Seq(ItemCalls) /\ Match(Tail(todo), Tail(y.calls))
  BY DEF Meets
<1>3. <<>> \o Tail(todo) = Tail(todo) /\ <<>> \o Tail(y.calls) = Tail(y.calls)
  BY <1>1, <1>2, ConcatEmptySeq
<1>. QED
  BY <1>1, <1>2, <1>3

LEMMA MatchOne ==
    ASSUME NEW S, NEW t \in Seq(S), NEW x \in S, ~IsStore(x),
           NEW R, NEW s \in Seq(R), NEW c \in R, Match(t, s), Agree(x, c)
    PROVE  Match(<<x>> \o t, <<c>> \o s)
<1>1. /\ <<x>> \in Seq(S) /\ Len(<<x>>) = 1 /\ <<x>>[1] = x
      /\ <<c>> \in Seq(R) /\ Len(<<c>>) = 1 /\ <<c>>[1] = c
  BY OneAndTwo
<1>2. PICK r \in Seq(S) : r = <<x>> /\ Len(r) = 1 /\ r[1] = x
  BY <1>1
<1>3. PICK q \in Seq(R) : q = <<c>> /\ Len(q) = 1 /\ q[1] = c
  BY <1>1
<1>4. \A i \in 1 .. Len(q) : ~IsStore(r[i]) /\ Agree(r[i], q[i])
  BY <1>2, <1>3
<1>5. Len(r) = Len(q)
  BY <1>2, <1>3
<1>6. Match(r \o t, q \o s)
  BY <1>4, <1>5, MatchRow
<1>. QED
  BY <1>2, <1>3, <1>6

LEMMA ReadWord ==
    ASSUME DInv, phase = "reader", todo # <<>>, Reads(Unit),
           NEW W, NEW last, NEW y, NEW z, NEW calls, NEW values, NEW bytes,
           Meets(W, last, y, z, calls, values, bytes),
           NEW n \in Int, bytes = Word(n)
    PROVE  /\ AheadWord = Word(n) /\ Len(bytes) = Unit
           /\ stream'.limit = stream.limit
           /\ stream'.pos = stream.pos + Len(bytes)
<1>1. Len(bytes) = Unit
  BY WordIsBytes
<1>2. stream.limit - stream.pos >= Unit /\ stream' = tn_xdr_mem_reader(Unit, stream.pos + Unit)
  BY DEF Reads
<1>3. stream \in [pos : 0 .. Limit, data : 0 .. Limit, limit : 0 .. Limit]
  BY ReaderAt DEF StreamOK
<1>4. stream'.limit = stream.limit /\ stream'.pos = stream.pos + Unit
  BY <1>2, <1>3 DEF tn_xdr_mem_reader
<1>5. Ahead(Unit) = Word(n)
  <2>1. Len(bytes) <= stream.limit - stream.pos
    BY <1>1, <1>2, <1>3 DEF Unit
  <2>. QED
    BY <1>1, <2>1 DEF Meets
<1>. QED
  BY <1>1, <1>4, <1>5 DEF AheadWord

LEMMA WordSurvives ==
    ASSUME NEW name, NEW n \in WordRange(name)
    PROVE  Integer(Word(n), IsSigned(name)) = n
<1>1. CASE IsSigned(name)
  <2>1. IsSigned(name) = TRUE /\ n \in SignedWords
    BY <1>1 DEF IsSigned, WordRange
  <2>. QED
    BY <2>1, WordsSurvive
<1>2. CASE ~IsSigned(name)
  <2>1. IsSigned(name) = FALSE /\ n \in UnsignedWords
    BY <1>2 DEF IsSigned, WordRange
  <2>. QED
    BY <2>1, WordsSurvive
<1>. QED
  BY <1>1, <1>2

LEMMA WordFollows ==
    ASSUME DInv, DecodeWord
    PROVE  CInv'
<1>1. /\ phase = "reader" /\ todo # <<>> /\ Next1.type.name \in Words /\ Reads(Unit)
      /\ Becomes(<<>>, <<<<Integer(AheadWord, IsSigned(Next1.type.name))>>>>)
      /\ UNCHANGED mem /\ stream.limit - stream.pos >= Unit
  BY DEF DecodeWord, Doing, Reads
<1>2. ~IsStore(Next1) /\ Next1.type.name \in Names
  BY <1>1 DEF IsStore, Names, Scalars, Words
<1>3. PICK W, last, y, z, calls, values, bytes : Meets(W, last, y, z, calls, values, bytes)
  BY <1>1, <1>2, Meeting
<1>. DEFINE c == Head(y.calls)
<1>4. c \in ItemCalls /\ c.type = Next1.type /\ Expands(c, calls, values, bytes)
  BY <1>2, <1>3, Agreeing DEF Meets, Steps
<1>5. c.arg \in Int /\ c.arg \in WordRange(c.type.name)
  BY <1>1, <1>4, IntegerItem
<1>6. calls = <<>> /\ values = <<<<c.arg>>>> /\ bytes = Word(c.arg)
  BY <1>1, <1>4 DEF Expands, Words, Wides, Smalls
<1>7. /\ AheadWord = Word(c.arg) /\ stream'.limit = stream.limit
      /\ stream'.pos = stream.pos + Len(bytes)
  BY <1>1, <1>3, <1>5, <1>6, ReadWord
<1>8. Integer(Word(c.arg), IsSigned(c.type.name)) = c.arg
  BY <1>5, WordSurvives
<1>9. Allocates(objects, <<>>, values)
  BY <1>1, <1>4, <1>6, <1>7, <1>8 DEF Becomes
<1>10. Match(<<>> \o Tail(todo), calls \o Tail(y.calls))
  BY <1>1, <1>3, <1>6, NothingNew
<1>. QED
  BY <1>1, <1>3, <1>7, <1>9, <1>10, Continuing

LEMMA HighFollows ==
    ASSUME DInv, DecodeHigh
    PROVE  CInv'
<1>1. /\ phase = "reader" /\ todo # <<>> /\ Next1.type.name \in Wides /\ Reads(Unit)
      /\ Becomes(<<Step("low", 0, Integer(AheadWord, IsSigned(Next1.type.name)))>>, <<>>)
      /\ UNCHANGED mem /\ stream.limit - stream.pos >= Unit
  BY DEF DecodeHigh, Doing, Reads
<1>2. ~IsStore(Next1) /\ Next1.type.name \in Names
  BY <1>1 DEF IsStore, Names, Scalars, Wides
<1>3. PICK W, last, y, z, calls, values, bytes : Meets(W, last, y, z, calls, values, bytes)
  BY <1>1, <1>2, Meeting
<1>. DEFINE c == Head(y.calls)
            low == Step("low", 0, High(c.arg))
<1>4. c \in ItemCalls /\ c.type = Next1.type /\ Expands(c, calls, values, bytes)
  BY <1>2, <1>3, Agreeing DEF Meets, Steps
<1>5. c.arg \in Int /\ High(c.arg) \in WordRange(c.type.name) /\ High(c.arg) \in Int
  BY <1>1, <1>4, IntegerItem, PartsAreIntegers
<1>6. calls = <<Rest(c.arg)>> /\ values = <<>> /\ bytes = Word(High(c.arg))
  BY <1>1, <1>4 DEF Expands, Words, Wides, Smalls
<1>7. /\ AheadWord = Word(High(c.arg)) /\ stream'.limit = stream.limit
      /\ stream'.pos = stream.pos + Len(bytes)
  BY <1>1, <1>3, <1>5, <1>6, ReadWord
<1>8. Integer(Word(High(c.arg)), IsSigned(c.type.name)) = High(c.arg)
  BY <1>5, WordSurvives
<1>9. Allocates(objects, <<low>>, values)
  BY <1>1, <1>4, <1>6, <1>7, <1>8 DEF Becomes
<1>10. low \in ReaderCalls /\ Rest(c.arg) \in ItemCalls
  BY <1>5, ReaderCallMade, ItemCallMade
<1>11. Agree(low, Rest(c.arg)) /\ ~IsStore(low)
  BY CallFields DEF Agree, Rest, IsStore
<1>. HIDE DEF low
<1>12. Match(<<low>> \o Tail(todo), <<Rest(c.arg)>> \o Tail(y.calls))
  <2>1. /\ Tail(todo) \in Seq(ReaderCalls) /\ Tail(y.calls) \in Seq(ItemCalls)
        /\ Match(Tail(todo), Tail(y.calls))
    BY <1>1, <1>3, NothingNew
  <2>. QED
    BY <1>10, <1>11, <2>1, MatchOne
<1>13. Match(<<low>> \o Tail(todo), calls \o Tail(y.calls))
  BY <1>6, <1>12
<1>. QED
  BY <1>1, <1>3, <1>7, <1>9, <1>13, Continuing

LEMMA HalvesJoin ==
    ASSUME NEW n \in Int
    PROVE  Wide(High(n), Unsigned(Word(Low(n)))) = n
<1>. DEFINE p == Power(Unit)
<1>1. p \in Nat \ {0}
  BY PowersPositive DEF Unit
<1>. HIDE DEF p
<1>2. /\ n \div p \in Int /\ n % p \in 0 .. p - 1
      /\ n = ((n \div p) * p) + (n % p)
  BY <1>1, Division
<1>3. Unsigned(Word(n % p)) = (n % p) % p
  BY <1>2, WordHolds DEF p
<1>4. (n % p) % p = n % p
  <2>1. \A r \in 0 .. p - 1 : r = (0 * p) + r
    BY <1>1
  <2>2. \A r \in 0 .. p - 1 : r % p = r
    BY <1>1, <2>1, RemainderIs
  <2>. QED
    BY <1>2, <2>2
<1>5. ((n \div p) * p) + Unsigned(Word(n % p)) = n
  BY <1>2, <1>3, <1>4
<1>. QED
  BY <1>5 DEF Wide, High, Low, p

LEMMA LowFollows ==
    ASSUME DInv, DecodeLow
    PROVE  CInv'
<1>1. /\ phase = "reader" /\ todo # <<>> /\ Next1.type.name = "low" /\ Reads(Unit)
      /\ Becomes(<<>>, <<<<Wide(Next1.arg, Unsigned(AheadWord))>>>>)
      /\ UNCHANGED mem /\ stream.limit - stream.pos >= Unit
  BY DEF DecodeLow, Doing, Reads
<1>2. ~IsStore(Next1)
  BY <1>1 DEF IsStore
<1>3. PICK W, last, y, z, calls, values, bytes : Meets(W, last, y, z, calls, values, bytes)
  BY <1>1, <1>2, Meeting
<1>. DEFINE c == Head(y.calls)
<1>4. /\ c \in ItemCalls /\ c.type.name = "low" /\ Next1.arg = High(c.arg)
      /\ Expands(c, calls, values, bytes)
  BY <1>1, <1>3, Agreeing DEF Meets, Steps
<1>5. c.arg \in Int /\ Low(c.arg) \in Int
  BY <1>4, OtherItem, PartsAreIntegers
<1>6. calls = <<>> /\ values = <<<<c.arg>>>> /\ bytes = Word(Low(c.arg))
  BY <1>4 DEF Expands, Words, Wides, Smalls
<1>7. /\ AheadWord = Word(Low(c.arg)) /\ stream'.limit = stream.limit
      /\ stream'.pos = stream.pos + Len(bytes)
  BY <1>1, <1>3, <1>5, <1>6, ReadWord
<1>8. Wide(High(c.arg), Unsigned(Word(Low(c.arg)))) = c.arg
  BY <1>5, HalvesJoin
<1>9. Allocates(objects, <<>>, values)
  BY <1>1, <1>4, <1>6, <1>7, <1>8 DEF Becomes
<1>10. Match(<<>> \o Tail(todo), calls \o Tail(y.calls))
  BY <1>1, <1>3, <1>6, NothingNew
<1>. QED
  BY <1>1, <1>3, <1>7, <1>9, <1>10, Continuing

LEMMA VoidFollows ==
    ASSUME DInv, DecodeVoid
    PROVE  CInv'
<1>1. /\ phase = "reader" /\ todo # <<>> /\ Next1.type.name = "void"
      /\ Becomes(<<>>, <<>>) /\ UNCHANGED <<mem, stream>>
  BY DEF DecodeVoid, Doing
<1>2. ~IsStore(Next1) /\ Next1.type.name \in Names /\ Next1.type.name \notin Counted
  BY <1>1 DEF IsStore, Names, Scalars, Counted
<1>3. PICK W, last, y, z, calls, values, bytes : Meets(W, last, y, z, calls, values, bytes)
  BY <1>1, <1>2, Meeting
<1>. DEFINE c == Head(y.calls)
<1>4. c.type = Next1.type /\ Expands(c, calls, values, bytes)
  BY <1>2, <1>3, Agreeing DEF Meets, Steps
<1>5. calls = <<>> /\ values = <<>> /\ bytes = <<>>
  BY <1>1, <1>4 DEF Expands, Words, Wides, Smalls
<1>6. stream'.limit = stream.limit /\ stream'.pos = stream.pos + Len(bytes)
  BY <1>1, <1>5, ReaderAt, EmptySeq
<1>7. Allocates(objects, <<>>, values)
  BY <1>1, <1>5 DEF Becomes
<1>8. Match(<<>> \o Tail(todo), calls \o Tail(y.calls))
  BY <1>1, <1>3, <1>5, NothingNew
<1>. QED
  BY <1>1, <1>3, <1>6, <1>7, <1>8, Continuing

LEMMA StoreFollows ==
    ASSUME DInv, DecodeStore
    PROVE  CInv'
<1>1. /\ phase = "reader" /\ todo # <<>> /\ IsStore(Next1)
      /\ Becomes(<<>>, <<>>) /\ UNCHANGED <<mem, stream>>
  BY DEF DecodeStore, Doing, IsStore
<1>2. todo \in Seq(ReaderCalls) /\ part \in Seq(Seq(Int))
  BY <1>1, ReaderAt
<1>3. PICK W, last, y : Follows(W, last, y)
  BY <1>1, ReaderAt
<1>4. /\ y \in W /\ Match(todo, y.calls) /\ part = y.values
      /\ stream.pos = start + Len(y.bytes) /\ W \subseteq Stages
  BY <1>3 DEF Follows, Tells, Run
<1>5. y.calls \in Seq(ItemCalls)
  BY <1>4, WeightIsNat
<1>6. Match(Tail(todo), y.calls)
  BY <1>1, <1>2, <1>4, <1>5, MatchTail DEF Next1
<1>7. <<>> \o Tail(todo) = Tail(todo) /\ part \o <<>> = part
  BY <1>1, <1>2, HeadTailProperties, ConcatEmptySeq
<1>8. Allocates(objects, <<>>, <<>>) /\ stream'.limit = stream.limit
      /\ stream'.pos = start + Len(y.bytes)
  BY <1>1, <1>4 DEF Becomes
<1>9. Match(<<>> \o Tail(todo), y.calls) /\ part \o <<>> = y.values
  BY <1>4, <1>6, <1>7
<1>. QED
  BY <1>1, <1>3, <1>4, <1>8, <1>9, Following

\* A read of any size.
LEMMA ReadBytes ==
    ASSUME DInv, phase = "reader", todo # <<>>,
           NEW W, NEW last, NEW y, NEW z, NEW calls, NEW values, NEW bytes,
           Meets(W, last, y, z, calls, values, bytes), Reads(Len(bytes))
    PROVE  /\ Ahead(Len(bytes)) = bytes
           /\ stream'.limit = stream.limit
           /\ stream'.pos = stream.pos + Len(bytes)
<1>1. /\ stream.limit - stream.pos >= Len(bytes)
      /\ stream' = tn_xdr_mem_reader(Len(bytes), stream.pos + Len(bytes))
  BY DEF Reads
<1>2. stream \in [pos : 0 .. Limit, data : 0 .. Limit, limit : 0 .. Limit]
  BY ReaderAt DEF StreamOK
<1>3. stream'.limit = stream.limit /\ stream'.pos = stream.pos + Len(bytes)
  BY <1>1, <1>2 DEF tn_xdr_mem_reader
<1>4. Len(bytes) \in Nat
  BY DEF Meets, Steps
<1>5. Ahead(Len(bytes)) = bytes
  <2>1. Len(bytes) <= stream.limit - stream.pos
    BY <1>1, <1>2, <1>4
  <2>. QED
    BY <2>1 DEF Meets
<1>. QED
  BY <1>3, <1>5

LEMMA BlobFollows ==
    ASSUME DInv, DecodeBlob
    PROVE  CInv'
<1>. DEFINE len == Next1.type.len
            data == IF Next1.type.name = "string" THEN CString(Ahead(len)) ELSE Ahead(len)
<1>1. /\ phase = "reader" /\ todo # <<>> /\ Next1.type.name \in {"blob", "string"}
      /\ Reads(len) /\ Becomes(<<>>, <<data>>) /\ UNCHANGED mem
  BY DEF DecodeBlob, Doing
<1>2. ~IsStore(Next1) /\ Next1.type.name \notin Counted
  BY <1>1 DEF IsStore, Counted
<1>3. PICK W, last, y, z, calls, values, bytes : Meets(W, last, y, z, calls, values, bytes)
  BY <1>1, <1>2, Meeting
<1>. DEFINE c == Head(y.calls)
<1>4. /\ c \in ItemCalls /\ c.type.name = "blob" /\ c.type.len = len
      /\ Next1.type.name = "string" => CString(c.arg) = c.arg
      /\ Expands(c, calls, values, bytes)
  BY <1>1, <1>3, Agreeing DEF Meets, Steps
<1>5. calls = <<>> /\ values = <<c.arg>> /\ bytes = c.arg
  BY <1>4 DEF Expands, Words, Wides, Smalls
<1>6. Len(bytes) = len
  BY <1>4, <1>5, OtherItem
<1>7. /\ Ahead(len) = bytes /\ stream'.limit = stream.limit
      /\ stream'.pos = stream.pos + Len(bytes)
  <2>1. Reads(Len(bytes))
    BY <1>1, <1>6
  <2>. QED
    BY <1>1, <1>3, <1>6, <2>1, ReadBytes
<1>8. data = c.arg
  BY <1>4, <1>5, <1>7
<1>9. Allocates(objects, <<>>, values)
  BY <1>1, <1>5, <1>8 DEF Becomes
<1>10. Match(<<>> \o Tail(todo), calls \o Tail(y.calls))
  BY <1>1, <1>3, <1>5, NothingNew
<1>. QED
  BY <1>1, <1>3, <1>7, <1>9, <1>10, Continuing

LEMMA PadFollows ==
    ASSUME DInv, DecodePad
    PROVE  CInv'
<1>. DEFINE len == Next1.type.len
<1>1. /\ phase = "reader" /\ todo # <<>> /\ Next1.type.name = "pad"
      /\ Reads(len) /\ UNCHANGED mem
      /\ Ahead(len) = Zeros(len) => Becomes(<<>>, <<>>)
  BY DEF DecodePad, Doing
<1>2. ~IsStore(Next1) /\ Next1.type.name \notin Counted
  BY <1>1 DEF IsStore, Counted
<1>3. PICK W, last, y, z, calls, values, bytes : Meets(W, last, y, z, calls, values, bytes)
  BY <1>1, <1>2, Meeting
<1>. DEFINE c == Head(y.calls)
<1>4. /\ c \in ItemCalls /\ c.type.name = "pad" /\ c.type.len = len
      /\ Expands(c, calls, values, bytes)
  BY <1>1, <1>3, Agreeing DEF Meets, Steps
<1>5. calls = <<>> /\ values = <<>> /\ bytes = Zeros(len)
  BY <1>4 DEF Expands, Words, Wides, Smalls
<1>6. Len(bytes) = len
  BY <1>4, <1>5, OtherItem, ZerosAreBytes
<1>7. /\ Ahead(len) = bytes /\ stream'.limit = stream.limit
      /\ stream'.pos = stream.pos + Len(bytes)
  <2>1. Reads(Len(bytes))
    BY <1>1, <1>6
  <2>. QED
    BY <1>1, <1>3, <1>6, <2>1, ReadBytes
<1>9. Allocates(objects, <<>>, values)
  BY <1>1, <1>5, <1>7 DEF Becomes
<1>10. Match(<<>> \o Tail(todo), calls \o Tail(y.calls))
  BY <1>1, <1>3, <1>5, NothingNew
<1>. QED
  BY <1>1, <1>3, <1>7, <1>9, <1>10, Continuing

\* Numbers that differ by a multiple of d, but by less than d.
LEMMA SameRemainder ==
    ASSUME NEW d \in Nat \ {0}, NEW m \in Int, NEW n \in Int, NEW q \in Int,
           m = n + (q * d), m - n < d, n - m < d
    PROVE  m = n
<1>1. CASE q >= 1
  <2>1. q * d >= d
    BY <1>1
  <2>. QED
    BY <2>1
<1>2. CASE q <= -1
  <2>1. q * d <= -d
    BY <1>2
  <2>. QED
    BY <2>1
<1>3. CASE q = 0
  BY <1>3
<1>. QED
  BY <1>1, <1>2, <1>3

LEMMA SmallsApart ==
    ASSUME NEW name \in Smalls, NEW m \in SmallRange(name), NEW n \in SmallRange(name)
    PROVE  /\ m \in Int /\ n \in Int
           /\ m - n < Power(SmallSize(name)) /\ n - m < Power(SmallSize(name))
<1>1. Power(1) \in Nat /\ Power(2) \in Nat /\ Power(1) >= 2
  BY PowersPositive, Powers, WireAssumption
<1>2. CASE name = "bool"
  <2>1. m \in 0 .. 1 /\ n \in 0 .. 1 /\ SmallSize(name) = 1
    BY <1>2 DEF SmallRange, SmallSize
  <2>. QED
    BY <1>1, <2>1
<1>3. CASE name \in {"uint8", "uint16"}
  <2>. DEFINE d == Power(SmallSize(name))
  <2>1. d \in Nat /\ m \in 0 .. d - 1 /\ n \in 0 .. d - 1
    BY <1>1, <1>3 DEF SmallRange, SmallSize
  <2>. HIDE DEF d
  <2>2. m - n < d /\ n - m < d
    BY <2>1
  <2>. QED
    BY <2>1, <2>2 DEF d
<1>4. CASE name \in {"int8", "int16"}
  <2>. DEFINE d == Power(SmallSize(name))
  <2>1. d \in Nat /\ m \in -(d \div 2) .. (d \div 2) - 1 /\ n \in -(d \div 2) .. (d \div 2) - 1
    BY <1>1, <1>4 DEF SmallRange, SmallSize
  <2>. HIDE DEF d
  <2>2. m - n < d /\ n - m < d
    BY <2>1
  <2>. QED
    BY <2>1, <2>2 DEF d
<1>. QED
  BY <1>2, <1>3, <1>4 DEF Smalls

\* A word that holds a small integer and something else beyond it is taken for
\* that integer, or for none.
LEMMA SmallSurvives ==
    ASSUME NEW name \in Smalls, NEW v \in SmallRange(name),
           NEW beyond \in 0 .. Power(Unit - SmallSize(name)) - 1,
           NEW signed \in BOOLEAN,
           Integer(Word(WordAt(v, SmallSize(name), beyond)), signed) \in SmallRange(name)
    PROVE  Integer(Word(WordAt(v, SmallSize(name), beyond)), signed) = v
<1>. DEFINE d == Power(SmallSize(name))
            e == Power(Unit - SmallSize(name))
            p == Power(Unit)
            w == (v % d) + (beyond * d)
            n == Integer(Word(WordAt(v, SmallSize(name), beyond)), signed)
<1>1. d \in Nat \ {0} /\ e \in Nat \ {0} /\ p \in Nat \ {0} /\ p = e * d
  <2>1. CASE SmallSize(name) = 1
    <3>1. Unit - 1 = 3
      BY DEF Unit
    <3>2. Power(4) = Power(3) * Power(1)
      BY Powers, PowersPositive
    <3>. QED
      BY <2>1, <3>1, <3>2, PowersPositive DEF Unit
  <2>2. CASE SmallSize(name) = 2
    <3>1. Unit - 2 = 2
      BY DEF Unit
    <3>2. Power(4) = Power(2) * Power(2)
      BY Powers, PowersPositive
    <3>. QED
      BY <2>2, <3>1, <3>2, PowersPositive DEF Unit
  <2>. QED
    BY <2>1, <2>2 DEF SmallSize
<1>2. v \in Int /\ n \in Int /\ n - v < d /\ v - n < d
  BY SmallsApart
<1>3. WordAt(v, SmallSize(name), beyond) = w /\ beyond \in 0 .. e - 1
  BY DEF WordAt
<1>. HIDE DEF d, e, p
<1>4. v \div d \in Int /\ v % d \in 0 .. d - 1 /\ v = ((v \div d) * d) + (v % d)
  BY <1>1, <1>2, Division
<1>5. w \in 0 .. p - 1
  <2>1. beyond * d <= (e - 1) * d /\ beyond * d \in Nat
    BY <1>1, <1>3
  <2>2. (e - 1) * d = p - d
    BY <1>1
  <2>3. beyond * d <= p - d
    BY <2>1, <2>2
  <2>4. \A r \in 0 .. d - 1 : \A u \in Nat : u <= p - d => r + u \in 0 .. p - 1
    BY <1>1
  <2>. QED
    BY <1>4, <2>1, <2>3, <2>4
<1>6. Unsigned(Word(w)) = w
  <2>. HIDE DEF w
  <2>1. Unsigned(Word(w)) = w % p
    BY <1>5, WordHolds DEF p
  <2>2. w = (0 * p) + w
    BY <1>1, <1>5
  <2>3. w % p = w
    BY <1>1, <1>5, <2>2, RemainderIs
  <2>. QED
    BY <2>1, <2>3
<1>7. n = w \/ n = w - p
  <2>1. n = Integer(Word(w), signed)
    BY <1>3
  <2>. HIDE DEF w, n
  <2>. QED
    BY <1>6, <2>1 DEF Integer, AsSigned, p
<1>8. \E q \in Int : n = v + (q * d)
  <2>. DEFINE a == v \div d
              r == v % d
  <2>. HIDE DEF n, a, r
  <2>1. CASE n = w
    <3>1. n = r + (beyond * d) /\ v = (a * d) + r /\ a \in Int /\ r \in Int
      BY <1>4, <2>1 DEF a, r
    <3>2. n = v + ((beyond - a) * d)
      BY <1>1, <1>3, <3>1
    <3>3. beyond - a \in Int
      BY <1>3, <3>1
    <3>. QED
      BY <3>2, <3>3
  <2>2. CASE n = w - p
    <3>1. n = r + (beyond * d) - (e * d) /\ v = (a * d) + r /\ a \in Int /\ r \in Int
      BY <1>1, <1>4, <2>2 DEF a, r
    <3>2. n = v + ((beyond - e - a) * d)
      BY <1>1, <1>3, <3>1
    <3>3. beyond - e - a \in Int
      BY <1>1, <1>3, <3>1
    <3>. QED
      BY <3>2, <3>3
  <2>. QED
    BY <1>7, <2>1, <2>2
<1>. HIDE DEF n
<1>9. n = v
  BY <1>1, <1>2, <1>8, SameRemainder
<1>. QED
  BY <1>9 DEF n

LEMMA SmallFollows ==
    ASSUME DInv, DecodeSmall
    PROVE  CInv'
<1>. DEFINE name == Next1.type.name
            signed == name \notin {"uint8", "uint16"}
            buf == Integer(AheadWord, signed)
<1>1. /\ phase = "reader" /\ todo # <<>> /\ name \in Smalls /\ Reads(Unit)
      /\ UNCHANGED mem /\ stream.limit - stream.pos >= Unit
      /\ \/ buf \in SmallRange(name) /\ Becomes(<<>>, <<<<buf>>>>)
         \/ Fails("EOVERFLOW")
  BY DEF DecodeSmall, Doing, Reads
<1>2. ~IsStore(Next1) /\ name \in Names
  BY <1>1 DEF IsStore, Names, Scalars, Smalls
<1>3. PICK W, last, y, z, calls, values, bytes : Meets(W, last, y, z, calls, values, bytes)
  BY <1>1, <1>2, Meeting
<1>. DEFINE c == Head(y.calls)
<1>4. c \in ItemCalls /\ c.type = Next1.type /\ Expands(c, calls, values, bytes)
  BY <1>2, <1>3, Agreeing DEF Meets, Steps
<1>5. c.arg \in Int /\ c.arg \in SmallRange(name)
  BY <1>1, <1>4, IntegerItem
<1>6. /\ calls = <<>> /\ values = <<<<c.arg>>>>
      /\ \E beyond \in 0 .. Power(Unit - SmallSize(name)) - 1 :
             bytes = Word(WordAt(c.arg, SmallSize(name), beyond))
  BY <1>1, <1>4 DEF Expands, Words, Wides, Smalls
<1>7. PICK beyond \in 0 .. Power(Unit - SmallSize(name)) - 1 :
          bytes = Word(WordAt(c.arg, SmallSize(name), beyond))
  BY <1>6
<1>8. WordAt(c.arg, SmallSize(name), beyond) \in Int
  <2>1. beyond \in Int /\ SmallSize(name) \in {1, 2}
    BY DEF SmallSize
  <2>. QED
    BY <1>5, <2>1, PartsAreIntegers
<1>9. /\ AheadWord = Word(WordAt(c.arg, SmallSize(name), beyond))
      /\ stream'.limit = stream.limit /\ stream'.pos = stream.pos + Len(bytes)
  BY <1>1, <1>3, <1>7, <1>8, ReadWord
<1>10. CASE buf \in SmallRange(name) /\ Becomes(<<>>, <<<<buf>>>>)
  <2>1. buf = c.arg
    BY <1>1, <1>5, <1>9, <1>10, SmallSurvives
  <2>2. Allocates(objects, <<>>, values)
    BY <1>6, <1>10, <2>1 DEF Becomes
  <2>3. Match(<<>> \o Tail(todo), calls \o Tail(y.calls))
    BY <1>1, <1>3, <1>6, NothingNew
  <2>. QED
    BY <1>1, <1>3, <1>9, <2>2, <2>3, Continuing
<1>11. CASE Fails("EOVERFLOW")
  <2>1. ~OnlyWords
    <3>1. c.type \in Types
      BY <1>1, <1>4, ClientItem DEF Names, Scalars, Smalls
    <3>. QED
      BY <1>1, <1>4, <3>1 DEF OnlyWords
  <2>. QED
    BY <1>1, <1>9, <1>11, <2>1, GivingUp DEF Statuses
<1>. QED
  BY <1>1, <1>10, <1>11

\* A value of a client's type.
LEMMA ClientsAgree ==
    ASSUME NEW x, NEW c, x.type = c.type, c.type \in Types
    PROVE  ~IsStore(x) /\ Agree(x, c)
<1>1. x.type.name \in Names /\ x.type.name \notin {"nul", "pointer"}
  BY IsTypeOf DEF Names, Scalars, Words, Wides, Smalls
<1>. QED
  BY <1>1 DEF Agree, IsStore

LEMMA RowsAgree ==
    ASSUME NEW elt \in Types, NEW n \in Nat, NEW at \in Place,
           NEW q, \A i \in 1 .. n : q[i].type = elt
    PROVE  /\ InRow(elt, n, at) \in Seq(ReaderCalls) /\ Len(InRow(elt, n, at)) = n
           /\ \A i \in 1 .. n :
                  ~IsStore(InRow(elt, n, at)[i]) /\ Agree(InRow(elt, n, at)[i], q[i])
<1>1. InRow(elt, n, at) \in Seq(ReaderCalls) /\ Len(InRow(elt, n, at)) = n
  BY RowOfCalls
<1>2. \A i \in 1 .. n : InRow(elt, n, at)[i].type = elt
  BY CallFields DEF InRow, Pending
<1>3. \A i \in 1 .. n :
          ~IsStore(InRow(elt, n, at)[i]) /\ Agree(InRow(elt, n, at)[i], q[i])
  BY <1>2, ClientsAgree
<1>. QED
  BY <1>1, <1>3

LEMMA ArrayFollows ==
    ASSUME DInv, DecodeArray
    PROVE  CInv'
<1>. DEFINE elt == Next1.type.of[1]
            n == Next1.type.len
            new == InRow(elt, n, Next1.arg)
<1>1. /\ phase = "reader" /\ todo # <<>> /\ Next1.type.name = "array"
      /\ Becomes(new, <<>>) /\ UNCHANGED <<mem, stream>>
  BY DEF DecodeArray, Doing
<1>2. ~IsStore(Next1) /\ Next1.type.name \in Names /\ Next1.type.name \notin Counted
  BY <1>1 DEF IsStore, Names, Counted
<1>3. PICK W, last, y, z, calls, values, bytes : Meets(W, last, y, z, calls, values, bytes)
  BY <1>1, <1>2, Meeting
<1>. DEFINE c == Head(y.calls)
<1>4. c \in ItemCalls /\ c.type = Next1.type /\ Expands(c, calls, values, bytes)
  BY <1>2, <1>3, Agreeing DEF Meets, Steps
<1>5. c.type \in Types /\ IsType(c.type) /\ IsValue(c.type, c.arg)
  BY <1>1, <1>4, ClientItem DEF Names
<1>6. /\ calls = Elements(Copies(elt, n), c.arg) /\ values = <<>> /\ bytes = <<>>
  BY <1>1, <1>4 DEF Expands, Words, Wides, Smalls
<1>7. /\ c.arg \in Seq(Values[elt]) /\ Len(c.arg) = n /\ n \in Nat /\ elt \in Types
  BY <1>1, <1>4, <1>5, IsTypeOf, ElementType DEF IsValue
<1>8. /\ calls \in Seq(ItemCalls) /\ Len(calls) = n
      /\ \A i \in 1 .. n : calls[i] = Call(elt, c.arg[i])
  BY <1>1, <1>4, <1>5, <1>6, <1>7, ArrayItems
<1>9. Next1.arg \in Place
  BY <1>1, ClientPlace DEF DInv, Doing, Names
<1>. HIDE DEF elt, n
<1>10. \A i \in 1 .. n : calls[i].type = elt
  BY <1>8, CallFields
<1>11. /\ new \in Seq(ReaderCalls) /\ Len(new) = n
       /\ \A i \in 1 .. n : ~IsStore(new[i]) /\ Agree(new[i], calls[i])
  BY <1>7, <1>9, <1>10, RowsAgree
<1>. HIDE DEF new
<1>12. Match(new \o Tail(todo), calls \o Tail(y.calls))
  <2>1. /\ Tail(todo) \in Seq(ReaderCalls) /\ Tail(y.calls) \in Seq(ItemCalls)
        /\ Match(Tail(todo), Tail(y.calls))
    BY <1>1, <1>3, NothingNew
  <2>. QED
    BY <1>8, <1>11, <2>1, MatchRow
<1>13. stream'.limit = stream.limit /\ stream'.pos = stream.pos + Len(bytes)
  BY <1>1, <1>6, ReaderAt, EmptySeq
<1>14. Allocates(objects, new, values)
  BY <1>1, <1>6 DEF Becomes
<1>. QED
  BY <1>1, <1>3, <1>12, <1>13, <1>14, Continuing

LEMMA StructFollows ==
    ASSUME DInv, DecodeStruct
    PROVE  CInv'
<1>. DEFINE of == Next1.type.of
            n == Len(of)
            at == Next1.arg
            new == [i \in DOMAIN of |-> Pending(of[i], At(at.obj, at.off + Offset(of)[i]))]
<1>1. /\ phase = "reader" /\ todo # <<>> /\ Next1.type.name = "struct"
      /\ Becomes(new, <<>>) /\ UNCHANGED <<mem, stream>>
  BY DEF DecodeStruct, Doing
<1>2. ~IsStore(Next1) /\ Next1.type.name \in Names /\ Next1.type.name \notin Counted
  BY <1>1 DEF IsStore, Names, Counted
<1>3. PICK W, last, y, z, calls, values, bytes : Meets(W, last, y, z, calls, values, bytes)
  BY <1>1, <1>2, Meeting
<1>. DEFINE c == Head(y.calls)
<1>4. c \in ItemCalls /\ c.type = Next1.type /\ Expands(c, calls, values, bytes)
  BY <1>2, <1>3, Agreeing DEF Meets, Steps
<1>5. c.type \in Types /\ of \in Seq(Types)
  BY <1>1, <1>4, ClientItem, IsTypeOf DEF Names
<1>6. calls = Elements(of, c.arg) /\ values = <<>> /\ bytes = <<>>
  BY <1>1, <1>4 DEF Expands, Words, Wides, Smalls
<1>7. /\ calls \in Seq(ItemCalls) /\ DOMAIN of = 1 .. n /\ n \in Nat /\ Len(calls) = n
      /\ \A i \in 1 .. n : calls[i] = Call(of[i], c.arg[i])
  BY <1>1, <1>4, <1>6, StructItems
<1>8. at \in Place
  BY <1>1, ClientPlace DEF DInv, Doing, Names
<1>. HIDE DEF of, n
<1>9. ASSUME NEW i \in 1 .. n PROVE new[i] \in ReaderCalls /\ new[i].type = of[i]
  <2>1. of[i] \in Types
    BY <1>5, ElementOfSeq DEF n
  <2>2. At(at.obj, at.off + Offset(of)[i]) \in Place
    <3>1. Offset(of)[i] \in Nat
      <4>1. i \in 1 .. Len(of) + 1
        BY <1>7 DEF n
      <4>. QED
        BY <1>5, <4>1, OffsetsApart
    <3>. QED
      BY <1>8, <3>1 DEF Place, At
  <2>3. new[i] = Pending(of[i], At(at.obj, at.off + Offset(of)[i]))
    BY <1>7
  <2>. QED
    BY <2>1, <2>2, <2>3, ReaderCallMade, CallFields DEF Pending
<1>10. new \in Seq(ReaderCalls) /\ Len(new) = n
  <2>1. \A i \in 1 .. n : new[i] \in ReaderCalls
    BY <1>9
  <2>2. new \in [1 .. n -> ReaderCalls]
    BY <1>7, <2>1
  <2>. QED
    BY <1>7, <2>2, FunctionIsSeq
<1>11. ASSUME NEW i \in 1 .. n PROVE ~IsStore(new[i]) /\ Agree(new[i], calls[i])
  <2>1. of[i] \in Types
    BY <1>5, ElementOfSeq DEF n
  <2>2. calls[i].type = of[i] /\ new[i].type = of[i]
    BY <1>7, <1>9, CallFields
  <2>. QED
    BY <2>1, <2>2, ClientsAgree
<1>. HIDE DEF new
<1>12. Match(new \o Tail(todo), calls \o Tail(y.calls))
  <2>1. /\ Tail(todo) \in Seq(ReaderCalls) /\ Tail(y.calls) \in Seq(ItemCalls)
        /\ Match(Tail(todo), Tail(y.calls))
    BY <1>1, <1>3, NothingNew
  <2>. QED
    BY <1>7, <1>10, <1>11, <2>1, MatchRow
<1>13. stream'.limit = stream.limit /\ stream'.pos = stream.pos + Len(bytes)
  BY <1>1, <1>6, ReaderAt, EmptySeq
<1>14. Allocates(objects, new, values)
  BY <1>1, <1>6 DEF Becomes
<1>. QED
  BY <1>1, <1>3, <1>12, <1>13, <1>14, Continuing

LEMMA UnionFollows ==
    ASSUME DInv, DecodeUnion
    PROVE  CInv'
<1>. DEFINE discr == Unsigned(AheadWord)
            of == Next1.type.of
            arm == Pending(of[discr + 1], At(Next1.arg.obj, Next1.arg.off + Unit))
<1>1. /\ phase = "reader" /\ todo # <<>> /\ Next1.type.name = "union" /\ Reads(Unit)
      /\ UNCHANGED mem /\ stream.limit - stream.pos >= Unit
      /\ \/ discr >= Len(of)
         \/ Becomes(<<arm>>, <<<<discr>>>>)
  BY DEF DecodeUnion, Doing, Reads
<1>2. ~IsStore(Next1) /\ Next1.type.name \in Names
  BY <1>1 DEF IsStore, Names
<1>3. PICK W, last, y, z, calls, values, bytes : Meets(W, last, y, z, calls, values, bytes)
  BY <1>1, <1>2, Meeting
<1>. DEFINE c == Head(y.calls)
            d == c.arg.discr
            item == Call(of[d + 1], c.arg.arm)
<1>4. c \in ItemCalls /\ c.type = Next1.type /\ Expands(c, calls, values, bytes)
  BY <1>2, <1>3, Agreeing DEF Meets, Steps
<1>5. /\ d \in UnsignedWords /\ d \in 0 .. Len(of) - 1 /\ of[d + 1] \in Types
      /\ item \in ItemCalls
  BY <1>1, <1>4, UnionItem
<1>6. calls = <<item>> /\ values = <<<<d>>>> /\ bytes = Word(d)
  BY <1>1, <1>4 DEF Expands, Words, Wides, Smalls
<1>7. /\ AheadWord = Word(d) /\ stream'.limit = stream.limit
      /\ stream'.pos = stream.pos + Len(bytes)
  <2>1. d \in Int
    BY <1>5 DEF UnsignedWords
  <2>. QED
    BY <1>1, <1>3, <1>6, <2>1, ReadWord
<1>8. discr = d
  BY <1>5, <1>7, WordsSurvive DEF Integer
<1>9. Next1.arg \in Place
  BY <1>1, ClientPlace DEF DInv, Doing, Names
<1>10. Len(of) \in Nat
  <2>1. of \in Seq(Types)
    BY <1>1, <1>4, ClientItem, IsTypeOf DEF Names
  <2>. QED
    BY <2>1, LenProperties
<1>11. ~ (discr >= Len(of))
  <2>. HIDE DEF discr, d, of
  <2>. QED
    BY <1>5, <1>8, <1>10
<1>12. arm \in ReaderCalls /\ arm.type = of[d + 1]
  <2>1. At(Next1.arg.obj, Next1.arg.off + Unit) \in Place
    BY <1>9 DEF Place, At, Unit
  <2>. QED
    BY <1>5, <1>8, <2>1, ReaderCallMade, CallFields DEF Pending
<1>13. Allocates(objects, <<arm>>, values)
  BY <1>1, <1>6, <1>8, <1>11 DEF Becomes
<1>14. ~IsStore(arm) /\ Agree(arm, item)
  <2>1. item.type = of[d + 1]
    BY CallFields
  <2>. QED
    BY <1>5, <1>12, <2>1, ClientsAgree
<1>. HIDE DEF arm, item
<1>15. Match(<<arm>> \o Tail(todo), <<item>> \o Tail(y.calls))
  <2>1. /\ Tail(todo) \in Seq(ReaderCalls) /\ Tail(y.calls) \in Seq(ItemCalls)
        /\ Match(Tail(todo), Tail(y.calls))
    BY <1>1, <1>3, NothingNew
  <2>. QED
    BY <1>5, <1>12, <1>14, <2>1, MatchOne
<1>16. Match(<<arm>> \o Tail(todo), calls \o Tail(y.calls))
  BY <1>6, <1>15
<1>. QED
  BY <1>1, <1>3, <1>7, <1>13, <1>16, Continuing

LEMMA BytesFollow ==
    ASSUME DInv, DecodeBytes
    PROVE  CInv'
<1>. DEFINE name == Next1.type.name
            len == Next1.type.len
            pad == PadSize(len)
            x == Step(Copied[name], len, Next1.arg)
            rest == IF pad = 0 THEN <<>> ELSE <<Step("pad", pad, NULL)>>
<1>1. /\ phase = "reader" /\ todo # <<>> /\ name \in {"bytes", "chars"}
      /\ Becomes(<<x>> \o rest, <<>>) /\ UNCHANGED <<mem, stream>>
  BY DEF DecodeBytes, Doing
<1>2. ~IsStore(Next1) /\ name \notin Counted
  BY <1>1 DEF IsStore, Counted
<1>3. PICK W, last, y, z, calls, values, bytes : Meets(W, last, y, z, calls, values, bytes)
  BY <1>1, <1>2, Meeting
<1>. DEFINE c == Head(y.calls)
<1>4. /\ c \in ItemCalls /\ Expands(c, calls, values, bytes)
      /\ c.type.name = "bytes" /\ c.type.len = len
      /\ name = "chars" => CString(c.arg) = c.arg
  <2>1. Agree(Next1, c) /\ c \in ItemCalls /\ Expands(c, calls, values, bytes)
    BY <1>3 DEF Meets, Steps
  <2>2. "bytes" \in Names
    BY DEF Names
  <2>. QED
    BY <1>1, <2>1, <2>2, Agreeing
<1>5. c.arg \in Seq(Byte) /\ Len(c.arg) = len /\ len \in Nat /\ pad \in Nat
  BY <1>4, BytesItem, LenProperties, PadSizeIs
<1>6. calls = <<Blob(c.arg)>> \o Padding(len) /\ values = <<>> /\ bytes = <<>>
  BY <1>4, <1>5 DEF Expands, Words, Wides, Smalls
<1>7. Next1.arg \in Place
  BY <1>1, CopyPlace DEF DInv, Doing
<1>8. /\ x \in ReaderCalls /\ Blob(c.arg) \in ItemCalls /\ ~IsStore(x)
      /\ Agree(x, Blob(c.arg))
  <2>1. Copied[name] = IF name = "chars" THEN "string" ELSE "blob"
    BY <1>1 DEF Copied
  <2>2. x \in ReaderCalls
    BY <1>5, <1>7, <2>1, ReaderCallMade
  <2>3. Blob(c.arg) \in ItemCalls
    BY <1>5, ItemCallMade
  <2>4. /\ x.type.name = Copied[name] /\ x.type.len = len
        /\ Blob(c.arg).type.name = "blob" /\ Blob(c.arg).type.len = len
        /\ Blob(c.arg).arg = c.arg
    BY <1>5, CallFields DEF Blob
  <2>. HIDE DEF x
  <2>. QED
    BY <1>4, <2>1, <2>2, <2>3, <2>4 DEF Agree, IsStore
<1>9. /\ Tail(todo) \in Seq(ReaderCalls) /\ Tail(y.calls) \in Seq(ItemCalls)
      /\ Match(Tail(todo), Tail(y.calls))
  BY <1>1, <1>3, NothingNew
<1>10. /\ rest \in Seq(ReaderCalls) /\ Padding(len) \in Seq(ItemCalls)
       /\ Match(rest \o Tail(todo), Padding(len) \o Tail(y.calls))
  <2>1. CASE pad = 0
    <3>1. rest = <<>> /\ Padding(len) = <<>>
      BY <2>1 DEF Padding
    <3>. QED
      BY <1>9, <3>1, ConcatEmptySeq, EmptySeq
  <2>2. CASE pad # 0
    <3>. DEFINE p == Step("pad", pad, NULL)
                q == Pad(pad)
    <3>1. rest = <<p>> /\ Padding(len) = <<q>>
      BY <2>2 DEF Padding
    <3>2. p \in ReaderCalls /\ q \in ItemCalls
      BY <1>5, ReaderCallMade, ItemCallMade
    <3>3. Agree(p, q) /\ ~IsStore(p)
      BY CallFields DEF Agree, IsStore, Pad
    <3>4. <<p>> \in Seq(ReaderCalls) /\ <<q>> \in Seq(ItemCalls)
      BY <3>2, OneAndTwo
    <3>. HIDE DEF p, q, rest
    <3>5. Match(<<p>> \o Tail(todo), <<q>> \o Tail(y.calls))
      BY <1>9, <3>2, <3>3, MatchOne
    <3>. QED
      BY <3>1, <3>4, <3>5
  <2>. QED
    BY <2>1, <2>2
<1>. HIDE DEF x, rest
<1>11. Match((<<x>> \o rest) \o Tail(todo), calls \o Tail(y.calls))
  <2>. DEFINE t == rest \o Tail(todo)
              s == Padding(len) \o Tail(y.calls)
  <2>1. t \in Seq(ReaderCalls) /\ s \in Seq(ItemCalls)
    BY <1>9, <1>10, ConcatProperties
  <2>2. (<<x>> \o rest) \o Tail(todo) = <<x>> \o t
    BY <1>8, <1>9, <1>10, PushedBefore
  <2>3. (<<Blob(c.arg)>> \o Padding(len)) \o Tail(y.calls) = <<Blob(c.arg)>> \o s
    <3>. DEFINE item == Blob(c.arg)
                p == Padding(len)
                q == Tail(y.calls)
    <3>1. item \in ItemCalls /\ p \in Seq(ItemCalls) /\ q \in Seq(ItemCalls)
      BY <1>8, <1>9, <1>10
    <3>. HIDE DEF item, p, q
    <3>2. (<<item>> \o p) \o q = <<item>> \o (p \o q)
      BY <3>1, PushedBefore
    <3>. QED
      BY <3>2 DEF item, p, q
  <2>4. Match(t, s)
    BY <1>10
  <2>. HIDE DEF t, s
  <2>5. Match(<<x>> \o t, <<Blob(c.arg)>> \o s)
    BY <1>8, <2>1, <2>4, MatchOne
  <2>. QED
    BY <1>6, <2>2, <2>3, <2>5
<1>12. stream'.limit = stream.limit /\ stream'.pos = stream.pos + Len(bytes)
  BY <1>1, <1>6, ReaderAt, EmptySeq
<1>13. Allocates(objects, <<x>> \o rest, values)
  BY <1>1, <1>6 DEF Becomes, x, rest
<1>. QED
  BY <1>1, <1>3, <1>11, <1>12, <1>13, Continuing

\* What comes after the data of bytes that come next in an item.
Through(v, z, b) ==
    /\ v.calls = Padding(Len(b)) \o Tail(z.calls)
    /\ v.values = z.values \o <<b>>
    /\ Len(v.bytes) = Len(z.bytes) + Len(b) /\ v \in Stages
    /\ Current <= acked => start + Len(v.bytes) <= sent[Current].end

LEMMA BytesAlong ==
    ASSUME DInv, phase = "reader", todo # <<>>,
           NEW W, NEW last, NEW y, Follows(W, last, y),
           NEW z \in W, z \in Stages, z.calls # <<>>,
           NEW b \in Seq(Byte), Head(z.calls) = Call(Bytes(Len(b)), b),
           start + Len(z.bytes) <= stream.limit
    PROVE  \E v \in W : Through(v, z, b)
<1>. DEFINE c == Call(Bytes(Len(b)), b)
<1>1. /\ c.type.name = "bytes" /\ c.arg = b /\ "bytes" \notin Counted
      /\ Blob(b).type.name = "blob" /\ Blob(b).arg = b /\ "blob" \notin Counted
  BY CallFields DEF Counted, Blob, Bytes, Type
<1>2. PICK w \in W : \E calls, values, bytes :
          /\ w \in Stages /\ z \in Stages /\ Steps(z, w, calls, values, bytes)
          /\ Current <= acked => start + Weight(w) <= sent[Current].end
  BY <1>1, Further
<1>3. PICK calls, values, bytes : w \in Stages /\ Steps(z, w, calls, values, bytes)
  BY <1>2
<1>4. calls = <<Blob(b)>> \o Padding(Len(b)) /\ values = <<>> /\ bytes = <<>>
  BY <1>1, <1>3 DEF Steps, Expands, Words, Wides, Smalls
<1>5. Len(z.bytes) \in Nat /\ z.values \in Seq(Seq(Int)) /\ Tail(z.calls) \in Seq(ItemCalls)
  BY WeightIsNat, StepParts
<1>6. /\ w.calls = (<<Blob(b)>> \o Padding(Len(b))) \o Tail(z.calls)
      /\ w.values = z.values /\ Len(w.bytes) = Len(z.bytes)
  <2>1. w.values = z.values \o <<>> /\ Len(w.bytes) = Len(z.bytes) + Len(<<>>)
    BY <1>3, <1>4 DEF Steps
  <2>2. z.values \o <<>> = z.values
    BY <1>5, ConcatEmptySeq
  <2>3. Len(<<>>) = 0
    BY EmptySeq
  <2>. QED
    BY <1>3, <1>4, <1>5, <2>1, <2>2, <2>3 DEF Steps
<1>. DEFINE s == Padding(Len(b)) \o Tail(z.calls)
<1>7. Padding(Len(b)) \in Seq(ItemCalls)
  <2>1. PadSize(Len(b)) \in Nat
    BY LenProperties, PadSizeIs
  <2>. QED
    BY <2>1, ItemCallMade, OneAndTwo, EmptySeq DEF Padding
<1>8. Blob(b) \in ItemCalls /\ <<Blob(b)>> \in Seq(ItemCalls)
  BY ItemCallMade, OneAndTwo
<1>9. s \in Seq(ItemCalls) /\ w.calls = <<Blob(b)>> \o s
  <2>1. /\ (<<Blob(b)>> \o Padding(Len(b))) \o Tail(z.calls) = <<Blob(b)>> \o s
        /\ s \in Seq(ItemCalls)
    <3>. DEFINE item == Blob(b)
                p == Padding(Len(b))
                q == Tail(z.calls)
    <3>1. item \in ItemCalls /\ p \in Seq(ItemCalls) /\ q \in Seq(ItemCalls)
      BY <1>5, <1>7, <1>8
    <3>. HIDE DEF item, p, q
    <3>2. (<<item>> \o p) \o q = <<item>> \o (p \o q) /\ p \o q \in Seq(ItemCalls)
      BY <3>1, PushedBefore
    <3>. QED
      BY <3>2 DEF item, p, q
  <2>. QED
    BY <1>6, <2>1
<1>. HIDE DEF s
<1>10. w.calls # <<>> /\ Head(w.calls) = Blob(b) /\ Tail(w.calls) = s
  BY <1>8, <1>9, Pushed
<1>11. PICK v \in W : \E calls2, values2, bytes2 :
           /\ v \in Stages /\ w \in Stages /\ Steps(w, v, calls2, values2, bytes2)
           /\ Current <= acked => start + Weight(v) <= sent[Current].end
  <2>1. start + Len(w.bytes) <= stream.limit
    BY <1>6
  <2>2. Head(w.calls).type.name \notin Counted
    BY <1>1, <1>10
  <2>. QED
    BY <1>10, <2>1, <2>2, Further
<1>12. PICK calls2, values2, bytes2 : Steps(w, v, calls2, values2, bytes2)
  BY <1>11
<1>13. calls2 = <<>> /\ values2 = <<b>> /\ bytes2 = b
  BY <1>1, <1>10, <1>12 DEF Steps, Expands, Words, Wides, Smalls
<1>14. v.calls = s
  <2>1. v.calls = <<>> \o s
    BY <1>10, <1>12, <1>13 DEF Steps
  <2>. QED
    BY <1>9, <2>1, ConcatEmptySeq
<1>15. v.values = z.values \o <<b>> /\ Len(v.bytes) = Len(z.bytes) + Len(b)
  BY <1>6, <1>12, <1>13 DEF Steps
<1>16. Current <= acked => start + Len(v.bytes) <= sent[Current].end
  <2>1. Weight(v) = Len(v.bytes) + Count(v.calls) /\ Count(v.calls) \in Nat
        /\ Len(v.bytes) \in Nat
    BY <1>11, WeightIsNat DEF Weight
  <2>2. start \in Nat /\ sent[Current].end \in Nat
    BY ReaderAt DEF Follows, Tells
  <2>. QED
    BY <1>11, <2>1, <2>2
<1>. QED
  BY <1>11, <1>14, <1>15, <1>16 DEF s, Through

LEMMA CStringTwice ==
    ASSUME NEW chars \in Seq(Byte)
    PROVE  CString(CString(chars)) = CString(chars)
<1>. DEFINE ends == {i \in DOMAIN chars : chars[i] = 0}
            n == Min(ends) - 1
            part1 == SubSeq(chars, 1, n)
<1>1. Len(chars) \in Nat /\ DOMAIN chars = 1 .. Len(chars)
  BY LenProperties
<1>2. CASE ends = {}
  <2>1. CString(chars) = chars
    BY <1>2 DEF CString
  <2>. QED
    BY <2>1
<1>3. CASE ends # {}
  <2>1. ends \in SUBSET Nat
    BY <1>1
  <2>. HIDE DEF ends
  <2>2. Min(ends) \in ends /\ \A m \in ends : Min(ends) <= m
    BY <1>3, <2>1, LeastOf
  <2>3. n \in 0 .. Len(chars)
    BY <1>1, <2>2 DEF ends
  <2>. HIDE DEF n
  <2>4. /\ part1 \in Seq(Byte)
        /\ Len(part1) = IF 1 <= n THEN n - 1 + 1 ELSE 0
        /\ \A i \in 1 .. n - 1 + 1 : part1[i] = chars[1 + i - 1]
    BY <2>3, PartOfSeq
  <2>. HIDE DEF part1
  <2>5. Len(part1) = n /\ DOMAIN part1 = 1 .. n
    BY <2>3, <2>4, LenProperties
  <2>6. \A i \in 1 .. n : part1[i] # 0
    <3>1. ASSUME NEW i \in 1 .. n, part1[i] = 0 PROVE FALSE
      <4>1. chars[i] = 0 /\ i \in 1 .. Len(chars)
        <5>1. i \in 1 .. n - 1 + 1 /\ 1 + i - 1 = i /\ i \in 1 .. Len(chars)
          BY <1>1, <2>3
        <5>. QED
          BY <2>4, <3>1, <5>1
      <4>2. i \in ends
        BY <1>1, <4>1 DEF ends
      <4>3. Min(ends) \in Nat /\ Min(ends) <= i
        BY <2>1, <2>2, <4>2
      <4>. QED
        BY <4>3 DEF n
    <3>. QED
      BY <3>1
  <2>7. CString(part1) = part1
    <3>1. {i \in DOMAIN part1 : part1[i] = 0} = {}
      BY <2>5, <2>6
    <3>. QED
      BY <3>1 DEF CString
  <2>8. CString(chars) = part1
    BY <1>3 DEF CString, ends, part1, n
  <2>. QED
    BY <2>7, <2>8
<1>. QED
  BY <1>2, <1>3

\* A decoder reads the length of bytes that come next in an item.
Measures(W, last, y, z, calls, values, bytes, b) ==
    /\ Meets(W, last, y, z, calls, values, bytes)
    /\ b \in Seq(Byte) /\ Len(b) \in Nat /\ Unsigned(AheadWord) = Len(b)
    /\ calls = <<Call(Bytes(Len(b)), b)>> /\ values = <<>> /\ Len(bytes) = Unit
    /\ Next1.type.name = "cstring" => CString(b) = b
    /\ Call(Bytes(Len(b)), b) \in ItemCalls
    /\ stream'.limit = stream.limit /\ stream'.pos = stream.pos + Len(bytes)
    /\ \E v \in W : /\ v.calls = Padding(Len(b)) \o Tail(y.calls)
                    /\ v.values = part \o <<b>>
                    /\ stream.pos + Unit + Len(b) = start + Len(v.bytes)
    /\ Current <= acked /\ stream.limit = wire => Len(b) <= RestAfterWord

LEMMA Measuring ==
    ASSUME DInv, Doing("reader", {"var_bytes", "cstring"}), Reads(Unit)
    PROVE  \E W, last, y, z, calls, values, bytes, b :
               Measures(W, last, y, z, calls, values, bytes, b)
<1>1. /\ phase = "reader" /\ todo # <<>> /\ Next1.type.name \in {"var_bytes", "cstring"}
      /\ stream.limit - stream.pos >= Unit
  BY DEF Doing, Reads
<1>2. ~IsStore(Next1) /\ Next1.type.name \in Names
  BY <1>1 DEF IsStore, Names, Scalars
<1>3. PICK W, last, y, z, calls, values, bytes : Meets(W, last, y, z, calls, values, bytes)
  BY <1>1, <1>2, Meeting
<1>. DEFINE c == Head(y.calls)
            b == Text(c)
            item == Call(Bytes(Len(b)), b)
<1>4. c \in ItemCalls /\ c.type = Next1.type /\ Expands(c, calls, values, bytes)
  BY <1>2, <1>3, Agreeing DEF Meets, Steps
<1>5. b \in Seq(Byte) /\ Len(b) \in Nat
  BY <1>1, <1>4, TextIs
<1>6. /\ Len(b) <= WordMax /\ calls = <<item>>
      /\ values = <<>> /\ bytes = Word(Len(b))
  BY <1>1, <1>4 DEF Expands, Words, Wides, Smalls
<1>7. /\ AheadWord = Word(Len(b)) /\ Len(bytes) = Unit
      /\ stream'.limit = stream.limit /\ stream'.pos = stream.pos + Len(bytes)
  <2>1. Len(b) \in Int
    BY <1>5
  <2>. QED
    BY <1>1, <1>3, <1>6, <2>1, ReadWord
<1>8. Unsigned(AheadWord) = Len(b)
  <2>1. Len(b) \in UnsignedWords
    BY <1>5, <1>6 DEF UnsignedWords
  <2>. QED
    BY <1>7, <2>1, WordsSurvive DEF Integer
<1>9. Next1.type.name = "cstring" => CString(b) = b
  <2>1. ASSUME Next1.type.name = "cstring" PROVE CString(b) = b
    <3>1. c.arg \in Seq(Byte)
      <4>1. IsValue(c.type, c.arg)
        BY <1>1, <1>4, ClientItem DEF Names, Scalars
      <4>. QED
        BY <1>1, <1>4, <4>1 DEF IsValue
    <3>. QED
      BY <1>4, <2>1, <3>1, CStringTwice DEF Text
  <2>. QED
    BY <2>1
<1>10. item \in ItemCalls
  BY <1>5, ItemCallMade
<1>. HIDE DEF b, item, c
<1>11. /\ z \in W /\ z \in Stages /\ Tail(y.calls) \in Seq(ItemCalls) /\ Follows(W, last, y)
       /\ z.calls = calls \o Tail(y.calls) /\ z.values = y.values \o values
       /\ y \in Stages /\ Len(z.bytes) = Len(y.bytes) + Len(bytes)
  BY <1>3 DEF Meets, Steps
<1>12. z.calls # <<>> /\ Head(z.calls) = item /\ Tail(z.calls) = Tail(y.calls)
  BY <1>6, <1>10, <1>11, Pushed
<1>13. /\ part = y.values /\ part \in Seq(Seq(Int)) /\ stream.pos = start + Len(y.bytes)
       /\ start \in Nat
  BY <1>1, <1>11, ReaderAt DEF Follows, Tells
<1>14. z.values = part
  BY <1>6, <1>11, <1>13, ConcatEmptySeq
<1>15. stream.pos + Unit = start + Len(z.bytes) /\ Len(y.bytes) \in Nat /\ Len(z.bytes) \in Nat
  BY <1>7, <1>11, <1>13, WeightIsNat DEF Unit
<1>16. /\ stream.limit \in Nat /\ stream.pos \in Nat /\ sent[Current].end \in Nat
       /\ wire \in Nat /\ sent[Current].end <= wire
  BY <1>1, ReaderAt
<1>17. PICK v \in W : Through(v, z, b)
  <2>1. start + Len(z.bytes) <= stream.limit
    BY <1>1, <1>15, <1>16 DEF Unit
  <2>2. Head(z.calls) = Call(Bytes(Len(b)), b)
    BY <1>12 DEF item
  <2>. QED
    BY <1>1, <1>5, <1>11, <1>12, <2>1, <2>2, BytesAlong
<1>21. /\ v.calls = Padding(Len(b)) \o Tail(y.calls) /\ v.values = part \o <<b>>
       /\ Current <= acked => start + Len(v.bytes) <= sent[Current].end
  BY <1>12, <1>14, <1>17 DEF Through
<1>18. stream.pos + Unit + Len(b) = start + Len(v.bytes)
  <2>1. Len(v.bytes) = Len(z.bytes) + Len(b)
    BY <1>17 DEF Through
  <2>2. \A pos, unit, from, n, zn, vn \in Int :
            pos + unit = from + zn /\ vn = zn + n => pos + unit + n = from + vn
    OBVIOUS
  <2>3. stream.pos \in Int /\ Unit \in Int /\ start \in Int /\ Len(b) \in Int
        /\ Len(z.bytes) \in Int
    BY <1>5, <1>13, <1>15, <1>16, UnitIsNat
  <2>4. Len(v.bytes) \in Int
    BY <2>1, <2>3
  <2>5. stream.pos + Unit = start + Len(z.bytes)
    BY <1>15
  <2>. QED
    BY <2>1, <2>2, <2>3, <2>4, <2>5
<1>19. Current <= acked /\ stream.limit = wire => Len(b) <= RestAfterWord
  BY <1>5, <1>16, <1>18, <1>21 DEF RestAfterWord, Unit
<1>20. Measures(W, last, y, z, calls, values, bytes, b)
  BY <1>3, <1>5, <1>6, <1>7, <1>8, <1>9, <1>10, <1>18, <1>19, <1>21
     DEF Measures, item
<1>. QED
  BY <1>20

LEMMA TuplesJoin ==
    ASSUME NEW S, NEW x \in S, NEW y \in S, NEW z \in S
    PROVE  <<x>> \o <<y>> = <<x, y>> /\ <<x>> \o <<y, z>> = <<x, y, z>>
<1>8. /\ <<x>> \in Seq(S) /\ Len(<<x>>) = 1 /\ <<x>>[1] = x
      /\ <<y>> \in Seq(S) /\ Len(<<y>>) = 1 /\ <<y>>[1] = y
  BY OneAndTwo
<1>9. /\ <<x, y>> \in Seq(S) /\ Len(<<x, y>>) = 2 /\ <<x, y>>[1] = x /\ <<x, y>>[2] = y
      /\ <<y, z>> \in Seq(S) /\ Len(<<y, z>>) = 2 /\ <<y, z>>[1] = y /\ <<y, z>>[2] = z
  BY OneAndTwo
<1>1. PICK a \in Seq(S) : a = <<x>> /\ Len(a) = 1 /\ a[1] = x
  BY <1>8
<1>2. PICK b \in Seq(S) : b = <<y>> /\ Len(b) = 1 /\ b[1] = y
  BY <1>8
<1>3. PICK c \in Seq(S) : c = <<x, y>> /\ Len(c) = 2 /\ c[1] = x /\ c[2] = y
  BY <1>9
<1>4. PICK d \in Seq(S) : d = <<y, z>> /\ Len(d) = 2 /\ d[1] = y /\ d[2] = z
  BY <1>9
<1>5. PICK e \in Seq(S) : e = <<x, y, z>> /\ Len(e) = 3 /\ e[1] = x /\ e[2] = y /\ e[3] = z
  <2>1. <<x, y, z>> \in Seq(S)
    OBVIOUS
  <2>. QED
    BY <2>1
<1>6. a \o b = c
  <2>1. /\ a \o b \in Seq(S) /\ Len(a \o b) = Len(a) + Len(b)
        /\ \A i \in 1 .. Len(a) + Len(b) :
               (a \o b)[i] = IF i <= Len(a) THEN a[i] ELSE b[i - Len(a)]
    BY ConcatProperties
  <2>2. Len(a \o b) = 2 /\ (a \o b)[1] = x /\ (a \o b)[2] = y
    BY <1>1, <1>2, <2>1
  <2>3. \A i \in 1 .. 2 : (a \o b)[i] = c[i]
    BY <1>3, <2>2
  <2>. QED
    BY <1>3, <2>1, <2>2, <2>3, SeqEqual
<1>7. a \o d = e
  <2>1. /\ a \o d \in Seq(S) /\ Len(a \o d) = Len(a) + Len(d)
        /\ \A i \in 1 .. Len(a) + Len(d) :
               (a \o d)[i] = IF i <= Len(a) THEN a[i] ELSE d[i - Len(a)]
    BY ConcatProperties
  <2>2. Len(a \o d) = 3 /\ (a \o d)[1] = x /\ (a \o d)[2] = y /\ (a \o d)[3] = z
    BY <1>1, <1>4, <2>1
  <2>3. \A i \in 1 .. 3 : (a \o d)[i] = e[i]
    BY <1>5, <2>2
  <2>. QED
    BY <1>5, <2>1, <2>2, <2>3, SeqEqual
<1>. QED
  BY <1>1, <1>2, <1>3, <1>4, <1>5, <1>6, <1>7

\* What is stored is put before a stack after other calls.
LEMMA TwoPushed ==
    ASSUME NEW S, NEW x \in S, NEW y \in S, NEW s \in Seq(S)
    PROVE  /\ <<x, y>> \o s = <<x>> \o (<<y>> \o s)
           /\ <<y>> \o s \in Seq(S)
<1>1. PICK one \in Seq(S) : one = <<x>>
  BY OneAndTwo
<1>2. PICK two \in Seq(S) : two = <<y>>
  BY OneAndTwo
<1>3. (one \o two) \o s = one \o (two \o s) /\ two \o s \in Seq(S)
  BY ConcatAssociative, ConcatProperties
<1>4. <<x>> \o <<y>> = <<x, y>>
  BY TuplesJoin
<1>. QED
  BY <1>1, <1>2, <1>3, <1>4

LEMMA ThreePushed ==
    ASSUME NEW S, NEW x \in S, NEW y \in S, NEW z \in S, NEW s \in Seq(S)
    PROVE  /\ <<x, y, z>> \o s = <<x>> \o (<<y>> \o (<<z>> \o s))
           /\ <<z>> \o s \in Seq(S) /\ <<y>> \o (<<z>> \o s) \in Seq(S)
<1>1. PICK one \in Seq(S) : one = <<x>>
  BY OneAndTwo
<1>2. PICK two \in Seq(S) : two = <<y, z>>
  BY OneAndTwo
<1>3. (one \o two) \o s = one \o (two \o s)
  BY ConcatAssociative
<1>4. <<x>> \o <<y, z>> = <<x, y, z>>
  BY TuplesJoin
<1>5. <<y, z>> \o s = <<y>> \o (<<z>> \o s) /\ <<z>> \o s \in Seq(S)
  BY TwoPushed
<1>6. <<y>> \o (<<z>> \o s) \in Seq(S)
  BY <1>5, Pushed
<1>. QED
  BY <1>1, <1>2, <1>3, <1>4, <1>5, <1>6

LEMMA AppendPushed ==
    ASSUME NEW S, NEW r \in Seq(S), NEW x \in S, NEW s \in Seq(S)
    PROVE  Append(r, x) \o s = r \o (<<x>> \o s) /\ <<x>> \o s \in Seq(S)
<1>1. PICK one \in Seq(S) : one = <<x>>
  BY OneAndTwo
<1>2. Append(r, x) = r \o <<x>>
  BY AppendIsConcat
<1>3. (r \o one) \o s = r \o (one \o s) /\ one \o s \in Seq(S)
  BY ConcatAssociative, ConcatProperties
<1>. QED
  BY <1>1, <1>2, <1>3

LEMMA StorePushed ==
    ASSUME NEW at \in Place, NEW len \in Nat, NEW name \in {"nul", "pointer"}
    PROVE  Step(name, len, at) \in ReaderCalls /\ IsStore(Step(name, len, at))
BY ReaderCallMade, CallFields DEF IsStore

LEMMA VarBytesFollow ==
    ASSUME DInv, DecodeVarBytes
    PROVE  CInv'
<1>. DEFINE len == Unsigned(AheadWord)
            at == Next1.arg
            store == Step("pointer", 2 * Pointer, at)
            data == Pending(Bytes(len), At(NewObject, 0))
            to == Append(objects, Object(len, FALSE))
<1>1. /\ phase = "reader" /\ todo # <<>> /\ Next1.type.name = "var_bytes"
      /\ Doing("reader", {"var_bytes", "cstring"}) /\ Reads(Unit) /\ UNCHANGED mem
      /\ \/ len > RestAfterWord /\ Fails("EPROTO")
         \/ len = 0 /\ Becomes(<<store>>, <<<<>>>>)
         \/ Allocates(to, <<data, store>>, <<>>)
  BY DEF DecodeVarBytes, Doing
<1>2. PICK W, last, y, z, calls, values, bytes, b :
          Measures(W, last, y, z, calls, values, bytes, b)
  BY <1>1, Measuring
<1>3. /\ Meets(W, last, y, z, calls, values, bytes)
      /\ b \in Seq(Byte) /\ Len(b) \in Nat /\ len = Len(b)
      /\ calls = <<Call(Bytes(Len(b)), b)>> /\ values = <<>> /\ Len(bytes) = Unit
      /\ Call(Bytes(Len(b)), b) \in ItemCalls
      /\ stream'.limit = stream.limit /\ stream'.pos = stream.pos + Len(bytes)
      /\ Current <= acked /\ stream.limit = wire => Len(b) <= RestAfterWord
  BY <1>2 DEF Measures
<1>4. at \in Place
  BY <1>1, ClientPlace DEF DInv, Doing, Names, Scalars
<1>5. store \in ReaderCalls /\ IsStore(store)
  <2>1. 2 * Pointer \in Nat
    BY DEF Pointer
  <2>. QED
    BY <1>4, <2>1, StorePushed
<1>6. /\ Tail(todo) \in Seq(ReaderCalls) /\ Tail(y.calls) \in Seq(ItemCalls)
      /\ Match(Tail(todo), Tail(y.calls))
  BY <1>1, <1>3, NothingNew
<1>. HIDE DEF store, len
<1>7. Match(<<store>> \o Tail(todo), Tail(y.calls))
  BY <1>5, <1>6, MatchStore
<1>8. CASE len > RestAfterWord /\ Fails("EPROTO")
  <2>1. ~ (Current <= acked /\ stream.limit = wire)
    <3>1. RestAfterWord \in Int
      BY <1>1, ReaderAt DEF RestAfterWord, Unit
    <3>. QED
      BY <1>3, <1>8, <3>1
  <2>2. "EPROTO" \in Statuses
    BY DEF Statuses
  <2>. QED
    BY <1>1, <1>3, <1>8, <2>1, <2>2, GivingUp
<1>9. CASE len = 0 /\ Becomes(<<store>>, <<<<>>>>)
  <2>1. PICK v \in W : /\ v.calls = Padding(Len(b)) \o Tail(y.calls)
                       /\ v.values = part \o <<b>>
                       /\ stream.pos + Unit + Len(b) = start + Len(v.bytes)
    BY <1>2 DEF Measures
  <2>2. b = <<>> /\ Len(b) = 0
    BY <1>3, <1>9, EmptySeq
  <2>3. Padding(0) = <<>>
    BY DEF Padding, PadSize, Unit
  <2>4. v.calls = Tail(y.calls)
    BY <1>6, <2>1, <2>2, <2>3, ConcatEmptySeq
  <2>5. stream'.pos = start + Len(v.bytes)
    <3>1. stream.pos \in Nat
      BY <1>1, ReaderAt
    <3>2. stream.pos + Unit + 0 = stream.pos + Unit
      BY <3>1, UnitIsNat
    <3>. QED
      BY <1>3, <2>1, <2>2, <3>2
  <2>6. Allocates(objects, <<store>>, <<b>>)
    BY <1>9, <2>2 DEF Becomes
  <2>7. Match(<<store>> \o Tail(todo), v.calls) /\ part \o <<b>> = v.values
    BY <1>7, <2>1, <2>4
  <2>8. Follows(W, last, y)
    BY <1>3 DEF Meets
  <2>. QED
    BY <1>1, <1>3, <2>1, <2>5, <2>6, <2>7, <2>8, Following
<1>10. CASE Allocates(to, <<data, store>>, <<>>)
  <2>. DEFINE item == Call(Bytes(Len(b)), b)
  <2>1. data \in ReaderCalls
    <3>1. data = Step("bytes", len, At(NewObject, 0))
      BY DEF Pending, Step, Bytes
    <3>2. At(NewObject, 0) \in Place
      BY InNewObject DEF DInv
    <3>. QED
      BY <1>3, <3>1, <3>2, ReaderCallMade
  <2>2. ~IsStore(data) /\ Agree(data, item) /\ item \in ItemCalls
    <3>1. data.type = Bytes(len) /\ item.type = Bytes(len) /\ Bytes(len).name = "bytes"
      BY <1>3, CallFields DEF Pending, Bytes, Type
    <3>2. "bytes" \in Names
      BY DEF Names
    <3>. HIDE DEF data, item
    <3>3. ~IsStore(data) /\ Agree(data, item)
      BY <3>1, <3>2 DEF Agree, IsStore
    <3>. QED
      BY <1>3, <3>3 DEF item
  <2>. HIDE DEF data, item
  <2>3. /\ <<data, store>> \o Tail(todo) = <<data>> \o (<<store>> \o Tail(todo))
        /\ <<store>> \o Tail(todo) \in Seq(ReaderCalls)
    BY <1>5, <1>6, <2>1, TwoPushed
  <2>. DEFINE t == <<store>> \o Tail(todo)
  <2>4. t \in Seq(ReaderCalls) /\ Match(t, Tail(y.calls))
    BY <1>7, <2>3
  <2>. HIDE DEF t
  <2>5. Match(<<data>> \o t, <<item>> \o Tail(y.calls))
    BY <1>6, <2>1, <2>2, <2>4, MatchOne
  <2>6. Match(<<data, store>> \o Tail(todo), calls \o Tail(y.calls))
    BY <1>3, <2>3, <2>5 DEF t, item
  <2>7. Allocates(to, <<data, store>>, values)
    BY <1>3, <1>10
  <2>. QED
    BY <1>1, <1>3, <2>6, <2>7, Continuing
<1>. QED
  BY <1>1, <1>8, <1>9, <1>10

LEMMA CStringFollows ==
    ASSUME DInv, DecodeCString
    PROVE  CInv'
<1>. DEFINE len == Unsigned(AheadWord)
            at == Next1.arg
            store == Step("pointer", Pointer, at)
            nul == Step("nul", 1, At(NewObject, len))
            chars == Step("chars", len, At(NewObject, 0))
            to == Append(objects, Object(len + 1, FALSE))
<1>1. /\ phase = "reader" /\ todo # <<>> /\ Next1.type.name = "cstring"
      /\ Doing("reader", {"var_bytes", "cstring"}) /\ Reads(Unit) /\ UNCHANGED mem
      /\ \/ len > RestAfterWord /\ Fails("EPROTO")
         \/ Allocates(to, <<chars, nul, store>>, <<>>)
  BY DEF DecodeCString, Doing
<1>2. PICK W, last, y, z, calls, values, bytes, b :
          Measures(W, last, y, z, calls, values, bytes, b)
  BY <1>1, Measuring
<1>3. /\ Meets(W, last, y, z, calls, values, bytes)
      /\ b \in Seq(Byte) /\ Len(b) \in Nat /\ len = Len(b) /\ CString(b) = b
      /\ calls = <<Call(Bytes(Len(b)), b)>> /\ values = <<>> /\ Len(bytes) = Unit
      /\ Call(Bytes(Len(b)), b) \in ItemCalls
      /\ stream'.limit = stream.limit /\ stream'.pos = stream.pos + Len(bytes)
      /\ Current <= acked /\ stream.limit = wire => Len(b) <= RestAfterWord
  BY <1>1, <1>2 DEF Measures
<1>4. at \in Place /\ At(NewObject, len) \in Place /\ At(NewObject, 0) \in Place
  BY <1>1, <1>3, ClientPlace, InNewObject DEF DInv, Doing, Names, Scalars
<1>5. /\ store \in ReaderCalls /\ IsStore(store)
      /\ nul \in ReaderCalls /\ IsStore(nul)
      /\ chars \in ReaderCalls
  <2>1. Pointer \in Nat /\ len \in Nat
    BY <1>3 DEF Pointer
  <2>. HIDE DEF len
  <2>. QED
    BY <1>4, <2>1, StorePushed, ReaderCallMade
<1>6. /\ Tail(todo) \in Seq(ReaderCalls) /\ Tail(y.calls) \in Seq(ItemCalls)
      /\ Match(Tail(todo), Tail(y.calls))
  BY <1>1, <1>3, NothingNew
<1>8. CASE len > RestAfterWord /\ Fails("EPROTO")
  <2>1. ~ (Current <= acked /\ stream.limit = wire)
    <3>1. RestAfterWord \in Int
      BY <1>1, ReaderAt DEF RestAfterWord, Unit
    <3>. HIDE DEF len
    <3>. QED
      BY <1>3, <1>8, <3>1
  <2>2. "EPROTO" \in Statuses
    BY DEF Statuses
  <2>. QED
    BY <1>1, <1>3, <1>8, <2>1, <2>2, GivingUp
<1>10. CASE Allocates(to, <<chars, nul, store>>, <<>>)
  <2>. DEFINE item == Call(Bytes(Len(b)), b)
  <2>2. ~IsStore(chars) /\ Agree(chars, item) /\ item \in ItemCalls
    <3>1. /\ chars.type.name = "chars" /\ chars.type.len = len
          /\ item.type.name = "bytes" /\ item.type.len = len /\ item.arg = b
      BY <1>3, CallFields DEF Bytes, Type
    <3>. HIDE DEF chars, item
    <3>3. ~IsStore(chars) /\ Agree(chars, item)
      BY <1>3, <3>1 DEF Agree, IsStore
    <3>. QED
      BY <1>3, <3>3 DEF item
  <2>. HIDE DEF chars, nul, store, item
  <2>. DEFINE s == <<store>> \o Tail(todo)
              t == <<nul>> \o s
  <2>3. /\ <<chars, nul, store>> \o Tail(todo) = <<chars>> \o t
        /\ s \in Seq(ReaderCalls) /\ t \in Seq(ReaderCalls)
    <3>1. PICK r \in Seq(ReaderCalls) : r = Tail(todo)
      BY <1>6
    <3>2. /\ <<chars, nul, store>> \o r = <<chars>> \o (<<nul>> \o (<<store>> \o r))
          /\ <<store>> \o r \in Seq(ReaderCalls)
          /\ <<nul>> \o (<<store>> \o r) \in Seq(ReaderCalls)
      <4>1. chars \in ReaderCalls /\ nul \in ReaderCalls /\ store \in ReaderCalls
        BY <1>5
      <4>. QED
        BY <4>1, ThreePushed, ZenonT(30)
    <3>. QED
      BY <3>1, <3>2
  <2>4. Match(s, Tail(y.calls))
    BY <1>5, <1>6, MatchStore
  <2>. HIDE DEF s
  <2>5. Match(t, Tail(y.calls))
    BY <1>5, <1>6, <2>3, <2>4, MatchStore
  <2>. HIDE DEF t
  <2>6. Match(<<chars>> \o t, <<item>> \o Tail(y.calls))
    BY <1>5, <1>6, <2>2, <2>3, <2>5, MatchOne
  <2>7. Match(<<chars, nul, store>> \o Tail(todo), calls \o Tail(y.calls))
    BY <1>3, <2>3, <2>6 DEF item
  <2>8. Allocates(to, <<chars, nul, store>>, values)
    BY <1>3, <1>10 DEF chars, nul, store
  <2>. QED
    BY <1>1, <1>3, <2>7, <2>8, Continuing
<1>. QED
  BY <1>1, <1>8, <1>10

\* What a program and its peer have to keep to: the callbacks of a memory stream
\* never fail, the peer decodes the types that were encoded, and as the decoder
\* of a variable array overlooks that the length is not there or does not fit in
\* what follows, there are none in messages that may lose their end, nor of
\* elements that may take no bytes.
Faithful ==
    /\ ~CallbacksFail
    /\ \A m \in Messages : m.as = m.type
    /\ \A type \in Types : type.name = "var_array" => ~Truncation /\ type.of[1] \in Solid

LEMMA VarArrayFollows ==
    ASSUME DInv, Faithful, DecodeVarArray
    PROVE  CInv'
<1>. DEFINE elt == Next1.type.of[1]
            store == Step("pointer", 2 * Pointer, Next1.arg)
            row(n) == InRow(elt, n, At(NewObject, 0))
            to(n) == Append(objects, [Object(elt.elsize * n, TRUE) EXCEPT !.unread = FALSE])
            length == Unsigned(AheadWord)
<1>1. /\ phase = "reader" /\ todo # <<>> /\ Next1.type.name = "var_array" /\ UNCHANGED mem
  BY DEF DecodeVarArray, Doing
<1>2. ~IsStore(Next1) /\ Next1.type.name \in Names
  BY <1>1 DEF IsStore, Names
<1>3. Next1.type \in Types /\ Next1.arg \in Place
  BY <1>1, ClientPlace DEF DInv, Doing, Names
<1>4. ~Truncation /\ elt \in Solid /\ ~CallbacksFail /\ elt \in Types
  BY <1>1, <1>3, ElementType DEF Faithful
<1>5. stream.limit = wire /\ Current <= acked
  <2>1. stream.limit = wire /\ acked = Len(sent)
    BY <1>1, <1>4 DEF DInv, CInv, Arrived
  <2>2. Current \in 1 .. Len(sent)
    BY <1>1, ReaderAt
  <2>. QED
    BY <2>1, <2>2
<1>6. PICK W, last, y, z, calls, values, bytes : Meets(W, last, y, z, calls, values, bytes)
  BY <1>1, <1>2, <1>5, Meeting
<1>. DEFINE c == Head(y.calls)
            n == Len(c.arg)
<1>7. c \in ItemCalls /\ c.type = Next1.type /\ Expands(c, calls, values, bytes)
  BY <1>2, <1>6, Agreeing DEF Meets, Steps
<1>8. /\ n <= WordMax /\ calls = Elements(Copies(elt, n), c.arg)
      /\ values = <<<<n>>>> /\ bytes = Word(n)
  BY <1>1, <1>7 DEF Expands, Words, Wides, Smalls
<1>9. c.type \in Types /\ IsType(c.type) /\ IsValue(c.type, c.arg)
  BY <1>1, <1>7, ClientItem DEF Names
<1>10. c.arg \in Seq(Values[elt]) /\ n \in Nat
  BY <1>1, <1>7, <1>9, LenProperties DEF IsValue
<1>. HIDE DEF elt, n
<1>11. /\ calls \in Seq(ItemCalls) /\ Len(calls) = n
       /\ \A i \in 1 .. n : calls[i] = Call(elt, c.arg[i])
  BY <1>1, <1>7, <1>8, <1>9, <1>10, ArrayItems DEF elt, n
<1>12. Len(bytes) = Unit
  BY <1>8, <1>10, WordIsBytes
<1>13. stream.pos + Unit + n <= stream.limit
  <2>1. n <= Count(z.calls) /\ Count(z.calls) \in Nat
    <3>1. z.calls = calls \o Tail(y.calls) /\ Tail(y.calls) \in Seq(ItemCalls) /\ z \in Stages
      BY <1>6 DEF Meets, Steps
    <3>2. \A i \in 1 .. Len(calls) : SolidCall(calls[i])
      BY <1>4, <1>11, CallFields DEF SolidCall
    <3>3. n <= Count(calls \o Tail(y.calls))
      BY <1>11, <3>1, <3>2, CountConcat
    <3>. QED
      BY <3>1, <3>3, WeightIsNat
  <2>2. stream.pos + Unit + Count(z.calls) <= stream.limit
    BY <1>5, <1>6, <1>12 DEF Meets
  <2>3. stream.pos \in Nat /\ stream.limit \in Nat
    BY <1>1, ReaderAt
  <2>. QED
    BY <1>10, <2>1, <2>2, <2>3 DEF Unit
<1>14. stream.limit - stream.pos >= Unit /\ n <= RestAfterWord
  <2>1. stream.pos \in Nat /\ stream.limit \in Nat
    BY <1>1, ReaderAt
  <2>. QED
    BY <1>10, <1>13, <2>1 DEF RestAfterWord, Unit
<1>15. Reads(Unit) /\ (ArrayOf(length, TRUE, FALSE) \/ length > RestAfterWord)
  <2>1. ~ (\E code \in {"ENOMSG", "EIO"} : ReadFails(Unit, code))
    <3>1. stream.pos \in Nat /\ stream.limit \in Nat
      BY <1>1, ReaderAt
    <3>. QED
      BY <1>4, <1>14, <3>1 DEF ReadFails, Unit
  <2>. QED
    BY <2>1 DEF DecodeVarArray
<1>16. /\ AheadWord = Word(n) /\ stream'.limit = stream.limit
       /\ stream'.pos = stream.pos + Len(bytes)
  <2>1. n \in Int
    BY <1>10
  <2>. QED
    BY <1>1, <1>6, <1>8, <1>15, <2>1, ReadWord
<1>17. length = n
  <2>1. n \in UnsignedWords
    BY <1>8, <1>10 DEF UnsignedWords
  <2>. QED
    BY <1>16, <2>1, WordsSurvive DEF Integer
<1>18. ArrayOf(length, TRUE, FALSE)
  <2>1. RestAfterWord \in Int
    BY <1>1, ReaderAt DEF RestAfterWord, Unit
  <2>. HIDE DEF length
  <2>2. ~ (length > RestAfterWord)
    BY <1>10, <1>14, <1>17, <2>1
  <2>. QED
    BY <1>15, <2>2, Zenon
<1>19. Allocates(to(n), Append(row(n), store), values)
  <2>1. Allocates(to(length), Append(row(length), store), <<<<length>>>>)
    BY <1>18 DEF ArrayOf, ArrayIn, elt
  <2>. HIDE DEF length
  <2>. QED
    BY <1>8, <1>17, <2>1
<1>20. store \in ReaderCalls /\ IsStore(store)
  <2>1. 2 * Pointer \in Nat
    BY DEF Pointer
  <2>. QED
    BY <1>3, <2>1, StorePushed
<1>21. At(NewObject, 0) \in Place
  BY InNewObject DEF DInv
<1>. DEFINE r == row(n)
<1>22. /\ r \in Seq(ReaderCalls) /\ Len(r) = n
       /\ \A i \in 1 .. n : ~IsStore(r[i]) /\ Agree(r[i], calls[i])
  <2>1. \A i \in 1 .. n : calls[i].type = elt
    BY <1>11, CallFields
  <2>. QED
    BY <1>4, <1>10, <1>21, <2>1, RowsAgree
<1>23. /\ Tail(todo) \in Seq(ReaderCalls) /\ Tail(y.calls) \in Seq(ItemCalls)
       /\ Match(Tail(todo), Tail(y.calls))
  BY <1>1, <1>6, NothingNew
<1>. HIDE DEF store, r
<1>. DEFINE t == <<store>> \o Tail(todo)
<1>24. Append(r, store) \o Tail(todo) = r \o t /\ t \in Seq(ReaderCalls)
  BY <1>20, <1>22, <1>23, AppendPushed
<1>25. Match(t, Tail(y.calls))
  BY <1>20, <1>23, MatchStore
<1>. HIDE DEF t
<1>26. Match(r \o t, calls \o Tail(y.calls))
  BY <1>11, <1>22, <1>23, <1>24, <1>25, MatchRow
<1>27. Match(Append(r, store) \o Tail(todo), calls \o Tail(y.calls))
  BY <1>24, <1>26
<1>28. Allocates(to(n), Append(r, store), values)
  BY <1>19 DEF r, store
<1>. HIDE DEF to
<1>. QED
  BY <1>1, <1>6, <1>16, <1>27, <1>28, Continuing

\* What reads a word first has a word to read.
LEMMA WordNeeded ==
    ASSUME NEW c \in ItemCalls, NEW calls, NEW values, NEW bytes,
           Expands(c, calls, values, bytes), c.type.name \in Needs
    PROVE  Len(bytes) = Unit
<1>. DEFINE name == c.type.name
<1>1. \A n \in Int : Len(Word(n)) = Unit
  BY WordIsBytes
<1>2. CASE name \in Words
  <2>1. c.arg \in Int /\ bytes = Word(c.arg)
    BY <1>2, IntegerItem DEF Expands, Words, Wides, Smalls
  <2>. QED
    BY <1>1, <2>1
<1>3. CASE name \in Wides
  <2>1. c.arg \in Int /\ bytes = Word(High(c.arg))
    BY <1>3, IntegerItem DEF Expands, Words, Wides, Smalls
  <2>. QED
    BY <1>1, <2>1, PartsAreIntegers
<1>4. CASE name = "low"
  <2>1. c.arg \in Int /\ bytes = Word(Low(c.arg))
    BY <1>4, OtherItem DEF Expands, Words, Wides, Smalls
  <2>. QED
    BY <1>1, <2>1, PartsAreIntegers
<1>5. CASE name \in Smalls
  <2>1. c.arg \in Int
    BY <1>5, IntegerItem
  <2>2. PICK beyond \in Int : bytes = Word(WordAt(c.arg, SmallSize(name), beyond))
    BY <1>5 DEF Expands, Words, Wides, Smalls
  <2>3. WordAt(c.arg, SmallSize(name), beyond) \in Int
    BY <2>1, PartsAreIntegers DEF SmallSize
  <2>. QED
    BY <1>1, <2>2, <2>3
<1>6. CASE name \in {"var_bytes", "cstring"}
  <2>1. Len(Text(c)) \in Int
    BY <1>6, TextIs
  <2>2. bytes = Word(Len(Text(c)))
    BY <1>6 DEF Expands, Words, Wides, Smalls
  <2>. QED
    BY <1>1, <2>1, <2>2
<1>7. CASE name = "union"
  <2>1. c.arg.discr \in Int
    BY <1>7, UnionItem DEF UnsignedWords
  <2>2. bytes = Word(c.arg.discr)
    BY <1>7 DEF Expands, Words, Wides, Smalls
  <2>. QED
    BY <1>1, <2>1, <2>2
<1>. QED
  BY <1>2, <1>3, <1>4, <1>5, <1>6, <1>7 DEF Needs

LEMMA CopyNeeded ==
    ASSUME NEW c \in ItemCalls, NEW calls, NEW values, NEW bytes,
           Expands(c, calls, values, bytes), c.type.name \in {"blob", "pad"}
    PROVE  Len(bytes) = c.type.len
<1>1. CASE c.type.name = "blob"
  <2>1. bytes = c.arg
    BY <1>1 DEF Expands, Words, Wides, Smalls
  <2>. QED
    BY <1>1, <2>1, OtherItem
<1>2. CASE c.type.name = "pad"
  <2>1. bytes = Zeros(c.type.len)
    BY <1>2 DEF Expands, Words, Wides, Smalls
  <2>. QED
    BY <1>2, <2>1, OtherItem, ZerosAreBytes
<1>. QED
  BY <1>1, <1>2

LEMMA ShortFollows ==
    ASSUME DInv, Faithful, DecodeShort
    PROVE  CInv'
<1>1. PICK sz, code :
          /\ \/ sz = Unit /\ Doing("reader", Needs)
             \/ sz = Next1.type.len /\ Doing("reader", {"blob", "string", "pad"})
          /\ code \in {"ENOMSG", "EIO"} /\ ReadFails(sz, code) /\ Fails(code)
          /\ UNCHANGED mem
  BY DEF DecodeShort
<1>2. phase = "reader" /\ todo # <<>>
  BY <1>1 DEF Doing
<1>3. UNCHANGED stream /\ stream.limit - stream.pos < sz
  BY <1>1 DEF ReadFails, Faithful
<1>4. code \in Statuses /\ code # "OK"
  BY <1>1 DEF Statuses
<1>5. ~ (Current <= acked /\ stream.limit = wire)
  <2>. SUFFICES ASSUME Current <= acked, stream.limit = wire PROVE FALSE
    OBVIOUS
  <2>1. ~IsStore(Next1)
    BY <1>1 DEF Doing, Needs, IsStore, Words, Wides, Smalls
  <2>2. PICK W, last, y, z, calls, values, bytes : Meets(W, last, y, z, calls, values, bytes)
    BY <1>2, <2>1, Meeting
  <2>. DEFINE c == Head(y.calls)
  <2>3. c \in ItemCalls /\ Agree(Next1, c) /\ Expands(c, calls, values, bytes)
    BY <2>2 DEF Meets, Steps
  <2>4. Len(bytes) = sz
    <3>1. CASE sz = Unit /\ Doing("reader", Needs)
      <4>1. Next1.type.name \in Needs
        BY <3>1 DEF Doing
      <4>2. Next1.type.name \in Names \/ Next1.type.name = "low"
        BY <4>1 DEF Needs, Names, Scalars
      <4>3. c.type.name \in Needs
        BY <2>3, <4>1, <4>2, Agreeing
      <4>. QED
        BY <2>3, <3>1, <4>3, WordNeeded
    <3>2. CASE sz = Next1.type.len /\ Doing("reader", {"blob", "string", "pad"})
      <4>1. Next1.type.name \in {"blob", "string", "pad"}
        BY <3>2 DEF Doing
      <4>2. c.type.name \in {"blob", "pad"} /\ c.type.len = sz
        BY <2>3, <3>2, <4>1, Agreeing
      <4>. QED
        BY <2>3, <4>2, CopyNeeded
    <3>. QED
      BY <1>1, <3>1, <3>2
  <2>5. stream.pos + Len(bytes) + Count(z.calls) <= stream.limit
    BY <2>2 DEF Meets
  <2>6. Count(z.calls) \in Nat /\ Len(bytes) \in Nat
    BY <2>2, WeightIsNat DEF Meets, Steps
  <2>7. stream.pos \in Nat /\ stream.limit \in Nat
    BY <1>2, ReaderAt
  <2>. QED
    BY <1>3, <2>4, <2>5, <2>6, <2>7
<1>. QED
  BY <1>1, <1>2, <1>3, <1>4, <1>5, GivingUp

LEMMA DecodingFollows ==
    ASSUME DInv, Faithful, Decoding
    PROVE  CInv'
BY ShortFollows, WordFollows, HighFollows, LowFollows, SmallFollows, VoidFollows,
   BytesFollow, BlobFollows, PadFollows, StoreFollows, VarBytesFollow, CStringFollows,
   ArrayFollows, VarArrayFollows, StructFollows, UnionFollows
   DEF Decoding

-----------------------------------------------------------------------------
(* Calls begin and end.                                                    *)

LEMMA NothingWaiting ==
    ASSUME TypeOK, call = NULL
    PROVE  todo = <<>> /\ part = <<>>
BY DEF TypeOK

LEMMA FirstStage ==
    ASSUME NEW type \in Types, NEW value \in Values[type]
    PROVE  /\ First(type, value) \in Stages
           /\ First(type, value).calls = <<Call(type, value)>>
           /\ First(type, value).values = <<>>
           /\ Len(First(type, value).bytes) = 0
<1>1. Call(type, value) \in ItemCalls
  BY ItemCallMade
<1>2. <<Call(type, value)>> \in Seq(ItemCalls)
  BY <1>1, OneAndTwo
<1>3. <<>> \in Seq(Seq(Int)) /\ <<>> \in Seq(Byte) /\ Len(<<>>) = 0
  BY EmptySeq
<1>. QED
  BY <1>2, <1>3 DEF First, Stage, Stages

LEMMA DecodeFollows ==
    ASSUME DInv, Decode
    PROVE  CInv'
<1>. DEFINE type == script[Current]
            x == Pending(type, At(1, 0))
<1>1. /\ phase = "reader" /\ call = NULL /\ (rc = "OK" \/ stream.pos = start)
      /\ Len(received) < Len(script)
      /\ call' = type /\ todo' = <<x>> /\ start' = stream.pos
      /\ UNCHANGED <<mem, stream, phase, rc, peer, part, script, sent, acked, wire,
                     received>>
  BY DEF Decode, MayCall, Current
<1>2. /\ Ledger /\ Between /\ Arrived /\ (OnlyWords => Decodable)
      /\ TypeOK /\ script \in Seq(Types) /\ received \in Seq(Items)
  BY DEF DInv, IInv, CInv
<1>3. stream.pos = EndOf(Len(received)) /\ part = <<>>
  BY <1>1, <1>2, NothingWaiting DEF Between
<1>4. /\ Len(script) = Len(sent) /\ Current \in 1 .. Len(script) /\ Current - 1 = Len(received)
      /\ Len(received) < Len(sent)
  <2>1. Len(script) \in Nat /\ Len(received) \in Nat
    BY <1>2, LenProperties
  <2>. QED
    BY <1>1, <1>2, <2>1 DEF Current, Ledger
<1>5. type \in Types /\ type # NULL
  BY <1>2, <1>4, ElementOfSeq, TypesAssumption
<1>6. Told(mem, type, stream.pos, sent[Current], Current <= acked)
  <2>1. Told(mem, type, EndOf(Current - 1), sent[Current], Current <= acked)
    BY <1>2, <1>4 DEF Ledger
  <2>. QED
    BY <1>3, <1>4, <2>1
<1>7. PICK W, last : Tells(mem, type, stream.pos, sent[Current], Current <= acked, W, last)
  BY <1>6 DEF Told
<1>8. PICK value \in Values[type] : Run(W, First(type, value), last)
  BY <1>7 DEF Tells
<1>. DEFINE c == Call(type, value)
<1>9. PICK y \in W : y.calls = <<c>> /\ y.values = <<>> /\ Len(y.bytes) = 0
  BY <1>5, <1>8, FirstStage DEF Run
<1>10. Match(<<x>>, <<c>>)
  <2>1. x \in ReaderCalls /\ c \in ItemCalls
    <3>1. At(1, 0) \in Place
      BY DEF At, Place
    <3>. QED
      BY <1>5, <3>1, ReaderCallMade, ItemCallMade
  <2>2. ~IsStore(x) /\ Agree(x, c)
    <3>1. x.type = c.type /\ c.type \in Types
      BY <1>5, CallFields DEF Pending
    <3>. QED
      BY <3>1, ClientsAgree
  <2>. HIDE DEF x, c
  <2>3. <<>> \in Seq(ReaderCalls) /\ <<>> \in Seq(ItemCalls) /\ Match(<<>>, <<>>)
    BY EmptySeq, MatchNothing
  <2>4. Match(<<x>> \o <<>>, <<c>> \o <<>>)
    BY <2>1, <2>2, <2>3, MatchOne
  <2>5. <<x>> \o <<>> = <<x>> /\ <<c>> \o <<>> = <<c>>
    BY <2>1, OneAndTwo, ConcatEmptySeq
  <2>. QED
    BY <2>4, <2>5
<1>. HIDE DEF x
<1>11. Follows(W, last, y)'
  <2>1. stream.pos = stream.pos + Len(y.bytes)
    BY <1>2, <1>9 DEF TypeOK
  <2>2. Tells(mem, call, start, sent[Current], Current <= acked, W, last)'
    BY <1>1, <1>7 DEF Current
  <2>3. (y \in W /\ Match(todo, y.calls) /\ part = y.values /\ stream.pos = start + Len(y.bytes))'
    <3>. HIDE DEF c
    <3>1. Match(todo', y.calls)
      BY <1>1, <1>9, <1>10
    <3>2. part' = y.values /\ stream'.pos = start' + Len(y.bytes)
      BY <1>1, <1>3, <1>9, <2>1
    <3>. QED
      BY <1>9, <3>1, <3>2
  <2>. QED
    BY <2>2, <2>3 DEF Follows
<1>12. Receiving'
  <2>1. (start = EndOf(Len(received)) /\ Len(received) < Len(sent) /\ call = script[Current])'
    BY <1>1, <1>3, <1>4 DEF EndOf, Current
  <2>2. (\E V, l, s : Follows(V, l, s))'
    BY <1>11
  <2>. QED
    BY <2>1, <2>2 DEF Receiving
<1>13. Ledger'
  BY <1>1, <1>2 DEF Ledger, Written, EndOf
<1>14. Arrived' /\ (OnlyWords => Decodable')
  BY <1>1, <1>2 DEF Arrived, Decodable, EndOf
<1>15. Between' /\ Sending'
  BY <1>1, <1>5 DEF Between, Sending
<1>. QED
  BY <1>12, <1>13, <1>14, <1>15 DEF CInv, OnlyWords

\* A decoder that returns 0 delivers what was sent.
LEMMA Delivered ==
    ASSUME DInv, phase = "reader", call # NULL, todo = <<>>
    PROVE  /\ Len(received) < Len(sent)
           /\ Item = sent[Current]
           /\ stream.pos = sent[Current].end
<1>1. /\ Ledger /\ Receiving /\ Arrived
      /\ TypeOK /\ StreamInBounds /\ received \in Seq(Items)
  BY DEF DInv, IInv, CInv
<1>2. /\ start = EndOf(Len(received)) /\ Len(received) < Len(sent)
      /\ \E W, last, y : Follows(W, last, y)
  BY <1>1 DEF Receiving
<1>3. PICK W, last, y : Follows(W, last, y)
  BY <1>2
<1>4. /\ Tells(mem, call, start, sent[Current], Current <= acked, W, last)
      /\ y \in W /\ Match(<<>>, y.calls) /\ part = y.values
      /\ stream.pos = start + Len(y.bytes)
  BY <1>3 DEF Follows
<1>5. /\ W \subseteq Stages /\ last \in W
      /\ \A x \in W : x = last \/ \E z \in W : Goes(x, z)
  BY <1>4 DEF Tells, Run
<1>6. y.calls = <<>>
  <2>1. y.calls \in Seq(ItemCalls)
    BY <1>4, <1>5, WeightIsNat
  <2>. QED
    BY <1>4, <2>1, MatchNothing
<1>7. y = last
  BY <1>4, <1>5, <1>6 DEF Goes
<1>8. /\ sent \in Seq(Items) /\ acked \in 0 .. Len(sent) /\ Len(sent) <= acked + 1
      /\ wire = EndOf(Len(sent)) /\ Len(sent) \in Nat /\ Len(received) \in Nat
  BY <1>1, LenProperties DEF Ledger, Arrived
<1>9. Current \in 1 .. Len(sent)
  BY <1>2, <1>8 DEF Current
<1>10. sent[Current] \in Items
  BY <1>8, <1>9, ElementOfSeq
<1>11. stream.pos <= wire /\ stream.pos \in Nat /\ wire \in Nat
  <2>1. stream.pos \in Nat /\ stream.limit \in Nat /\ wire \in Nat
    BY <1>1, XdrAssumption DEF TypeOK
  <2>. QED
    BY <1>1, <2>1 DEF StreamInBounds
<1>12. Current <= acked
  <2>. SUFFICES ASSUME ~ (Current <= acked) PROVE FALSE
    OBVIOUS
  <2>1. Current = Len(sent) /\ Len(sent) # 0
    BY <1>8, <1>9
  <2>2. sent[Current].end = wire
    BY <1>8, <2>1 DEF EndOf
  <2>3. sent[Current].end <= start + Len(last.bytes)
    BY <1>4 DEF Tells
  <2>4. sent[Current].end = start + Len(last.bytes)
    BY <1>4, <1>7, <1>11, <2>2, <2>3
  <2>5. last.calls # <<>>
    BY <1>4, <2>4 DEF Tells
  <2>. QED
    BY <1>6, <1>7, <2>5
<1>13. sent[Current].values = part /\ sent[Current].end = stream.pos
  BY <1>4, <1>7, <1>12 DEF Tells
<1>14. Item = sent[Current]
  BY <1>10, <1>13 DEF Item, Items
<1>. QED
  BY <1>2, <1>13, <1>14

LEMMA SucceedingFollows ==
    ASSUME DInv, Succeeds, phase = "reader"
    PROVE  CInv'
<1>1. /\ call # NULL /\ todo = <<>> /\ received' = Append(received, Item)
      /\ call' = NULL /\ rc' = "OK"
      /\ UNCHANGED <<script, sent, acked, mem, stream, phase, start, peer, wire>>
  BY DEF Succeeds
<1>2. Len(received) < Len(sent) /\ Item = sent[Current] /\ stream.pos = sent[Current].end
  BY <1>1, Delivered
<1>3. /\ Ledger /\ Arrived /\ received \in Seq(Items) /\ Len(received) \in Nat
      /\ Len(sent) \in Nat /\ sent \in Seq(Items)
  BY LenProperties DEF DInv, IInv, CInv, Ledger
<1>4. Item \in Items
  <2>1. Current \in 1 .. Len(sent)
    BY <1>2, <1>3 DEF Current
  <2>. QED
    BY <1>2, <1>3, <2>1, ElementOfSeq
<1>5. /\ Len(received') = Current
      /\ \A i \in 1 .. Len(received) : received'[i] = received[i]
      /\ received'[Current] = Item
  <2>1. /\ Len(Append(received, Item)) = Len(received) + 1
        /\ \A i \in 1 .. Len(received) : Append(received, Item)[i] = received[i]
        /\ Append(received, Item)[Len(received) + 1] = Item
    BY <1>3, <1>4, AppendProperties
  <2>. QED
    BY <1>1, <2>1 DEF Current
<1>6. Current = Len(received) + 1 /\ Current <= Len(sent) /\ Current # 0
  BY <1>2, <1>3 DEF Current
<1>7. Arrived'
  <2>1. \A i \in 1 .. Current : i \in 1 .. Len(received) \/ i = Current
    BY <1>3, <1>6
  <2>2. \A i \in 1 .. Current : received'[i] = sent[i]
    <3>1. \A i \in 1 .. Len(received) : received[i] = sent[i]
      BY <1>3 DEF Arrived
    <3>. QED
      BY <1>2, <1>5, <2>1, <3>1
  <2>3. /\ wire = EndOf(Len(sent))
        /\ Truncation \/ (stream.limit = wire /\ acked = Len(sent))
    BY <1>3 DEF Arrived
  <2>. QED
    BY <1>1, <1>5, <1>6, <2>2, <2>3 DEF Arrived, EndOf
<1>8. Between'
  BY <1>1, <1>2, <1>5, <1>6 DEF Between, EndOf
<1>9. Ledger'
  BY <1>1, <1>3 DEF Ledger, Written, EndOf
<1>10. Sending' /\ Receiving' /\ Decodable'
  BY <1>1 DEF Sending, Receiving, Decodable
<1>. QED
  BY <1>7, <1>8, <1>9, <1>10 DEF CInv

LEMMA HandOverFollows ==
    ASSUME DInv, HandOver
    PROVE  CInv'
<1>1. PICK limit \in 0 .. stream.pos :
          /\ phase = "writer" /\ call = NULL /\ phase' = "reader" /\ wire' = stream.pos
          /\ Truncation \/ (limit = stream.pos /\ acked = Len(script))
          /\ stream' = [pos |-> 0, data |-> 0, limit |-> limit]
          /\ rc' = "OK" /\ start' = 0
          /\ UNCHANGED <<mem, call, todo, objects, peer, part, script, sent, acked, received>>
  BY DEF HandOver
<1>2. Ledger /\ Between /\ Arrived
  BY DEF DInv, CInv
<1>3. stream.pos = EndOf(Len(sent)) /\ received = <<>> /\ Len(script) = Len(sent)
  BY <1>1, <1>2 DEF Between, Arrived, Ledger
<1>4. Len(received) = 0 /\ Len(sent) \in Nat
  BY <1>2, <1>3, EmptySeq, LenProperties DEF Ledger
<1>5. Ledger'
  BY <1>1, <1>2 DEF Ledger, Written, EndOf
<1>6. Between'
  BY <1>1, <1>4 DEF Between, EndOf
<1>7. Arrived'
  <2>1. (wire = EndOf(Len(sent)))' /\ (Truncation \/ (stream.limit = wire /\ acked = Len(sent)))'
    BY <1>1, <1>3 DEF EndOf
  <2>2. (Len(received) <= Len(sent) /\ \A i \in 1 .. Len(received) : received[i] = sent[i])'
    BY <1>1, <1>4
  <2>. QED
    BY <1>1, <2>1, <2>2 DEF Arrived
<1>8. Sending' /\ Receiving' /\ Decodable'
  BY <1>1 DEF Sending, Receiving, Decodable
<1>. QED
  BY <1>5, <1>6, <1>7, <1>8 DEF CInv
-----------------------------------------------------------------------------
(* Encoders.                                                               *)

LEMMA PushedAny ==
    ASSUME NEW S, NEW x, NEW s \in Seq(S)
    PROVE  <<x>> \o s # <<>> /\ Head(<<x>> \o s) = x /\ Tail(<<x>> \o s) = s
<1>. DEFINE R == S \cup {x}
<1>1. s \in Seq(R) /\ x \in R
  BY SeqMonotonic
<1>. HIDE DEF R
<1>. QED
  BY <1>1, Pushed

\* A run goes on with what its last call makes.
Reaches(V, first, y, z, calls, values, bytes) ==
    /\ z \in Stages /\ Run(V, first, z)
    /\ z.calls = calls \o Tail(y.calls)
    /\ z.values = y.values \o values
    /\ z.bytes = y.bytes \o bytes
    /\ calls \in Seq(ItemCalls) /\ Tail(y.calls) \in Seq(ItemCalls)
    /\ values \in Seq(Seq(Int)) /\ bytes \in Seq(Byte)

LEMMA Progress ==
    ASSUME NEW W, NEW first, NEW y, Run(W, first, y), y.calls # <<>>,
           NEW calls, NEW values, NEW bytes,
           Expands(Head(y.calls), calls, values, bytes)
    PROVE  \E V, z : Reaches(V, first, y, z, calls, values, bytes)
<1>1. y \in Stages
  BY DEF Run
<1>. DEFINE z == Stage(calls \o Tail(y.calls), y.values \o values, y.bytes \o bytes)
<1>2. /\ z.calls = calls \o Tail(y.calls)
      /\ z.values = y.values \o values
      /\ z.bytes = y.bytes \o bytes
  BY DEF Stage
<1>3. z \in Stages /\ Goes(y, z) /\ Begins(y.bytes, z.bytes) /\ Weight(y) <= Weight(z)
  BY <1>1, Stepping
<1>4. Head(y.calls) \in ItemCalls /\ Tail(y.calls) \in Seq(ItemCalls)
  BY <1>1, StepParts
<1>5. calls \in Seq(ItemCalls) /\ values \in Seq(Seq(Int)) /\ bytes \in Seq(Byte)
  BY <1>4, Expanding
<1>. HIDE DEF z
<1>6. Run(W \cup {z}, first, z)
  BY <1>3, Extending
<1>7. Reaches(W \cup {z}, first, y, z, calls, values, bytes)
  BY <1>2, <1>3, <1>4, <1>5, <1>6 DEF Reaches
<1>. QED
  BY <1>7

LEMMA WriterAt ==
    ASSUME DInv, phase = "writer", call # NULL
    PROVE  /\ StreamOK /\ stream.limit \in Nat /\ stream.pos \in Nat
           /\ stream.pos <= stream.limit /\ stream.data = stream.pos
           /\ start \in Nat /\ start <= stream.pos
           /\ start = EndOf(Len(sent)) /\ acked = Len(sent)
           /\ call \in Types /\ peer = call
           /\ part \in Seq(Seq(Int)) /\ Ledger
           /\ \E W, value, y : Leads(W, value, y)
<1>1. TypeOK /\ StreamInBounds /\ Ledger /\ Sending
  BY DEF DInv, IInv, CInv
<1>2. /\ start = EndOf(Len(sent)) /\ acked = Len(sent)
      /\ call \in Types /\ peer = call
      /\ \E W, value, y : Leads(W, value, y)
  BY <1>1 DEF Sending
<1>3. start <= stream.pos
  BY <1>2 DEF Leads
<1>4. /\ StreamOK /\ stream.limit \in Nat /\ stream.pos \in Nat /\ start \in Nat
      /\ stream.pos <= stream.limit /\ stream.data = stream.pos
  BY <1>1, XdrAssumption DEF TypeOK, StreamInBounds, StreamOK
<1>. QED
  BY <1>1, <1>2, <1>3, <1>4 DEF TypeOK

LEMMA Waited ==
    ASSUME DInv, phase = "writer", todo # <<>>
    PROVE  call # NULL
BY DEF DInv, IInv, TypeOK

\* An encoder at a stage.
Stands(W, value, y) ==
    /\ Leads(W, value, y)
    /\ y \in Stages /\ y.calls # <<>> /\ Head(y.calls) \in ItemCalls
    /\ Tail(y.calls) \in Seq(ItemCalls)
    /\ todo = y.calls /\ stream.pos = start + Len(y.bytes) /\ part = y.values

LEMMA InternalCalls ==
    /\ \A b : Put(b).type.name = "put" /\ Put(b).arg = b
    /\ \A n : Length(n).type.name = "length" /\ Length(n).arg = n
    /\ \A c \in ItemCalls : c.type.name \notin {"put", "length"}
<1>1. \A b : Put(b).type.name = "put" /\ Put(b).arg = b
  BY CallFields DEF Put
<1>2. \A n : Length(n).type.name = "length" /\ Length(n).arg = n
  BY CallFields DEF Length
<1>3. "put" \notin Names /\ "length" \notin Names
  BY DEF Names, Scalars, Words, Wides, Smalls
<1>4. \A c \in ItemCalls : c.type.name \notin {"put", "length"}
  BY <1>3, ItemCallIs
<1>. QED
  BY <1>1, <1>2, <1>4

\* What an encoder is about to do: to put some bytes, to count, or something else.
LEMMA NextIs ==
    ASSUME DInv, phase = "writer", todo # <<>>, NEW W, NEW value, NEW y, Leads(W, value, y)
    PROVE  \/ /\ Next1.type.name \notin {"put", "length"}
              /\ Stands(W, value, y)
           \/ /\ Next1.type.name = "put" /\ part = y.values
              /\ \/ /\ Tail(todo) = y.calls
                    /\ Next1.arg \in Seq(Byte)
                    /\ Ends(y.bytes, stream.pos - start, Next1.arg)
                 \/ \E b \in Seq(Byte) :
                        /\ Tail(todo) = <<Put(b)>> \o y.calls
                        /\ Next1.arg \in Seq(Byte)
                        /\ Ends(y.bytes, stream.pos - start, Next1.arg \o b)
           \/ /\ Next1.type.name = "length" /\ Counting(y)
<1>1. y \in Stages /\ y.calls \in Seq(ItemCalls) /\ (Putting(y) \/ Counting(y))
  <2>1. y \in Stages
    BY DEF Leads, Run
  <2>. QED
    BY <2>1, WeightIsNat DEF Leads
<1>2. CASE part = y.values /\ todo = y.calls /\ stream.pos = start + Len(y.bytes)
  <2>1. Head(y.calls) \in ItemCalls /\ Tail(y.calls) \in Seq(ItemCalls) /\ y.calls # <<>>
    BY <1>1, <1>2, StepParts
  <2>2. Next1.type.name \notin {"put", "length"}
    BY <1>2, <2>1, InternalCalls DEF Next1
  <2>. QED
    BY <1>1, <1>2, <2>1, <2>2 DEF Stands
<1>3. ASSUME part = y.values, NEW b \in Seq(Byte),
             todo = <<Put(b)>> \o y.calls, Ends(y.bytes, stream.pos - start, b)
      PROVE  /\ Next1.type.name = "put" /\ part = y.values
             /\ Tail(todo) = y.calls
             /\ Next1.arg \in Seq(Byte)
             /\ Ends(y.bytes, stream.pos - start, Next1.arg)
  <2>1. Next1 = Put(b) /\ Tail(todo) = y.calls
    BY <1>1, <1>3, PushedAny DEF Next1
  <2>2. Next1.type.name = "put" /\ Next1.arg = b
    BY <2>1, InternalCalls
  <2>. QED
    BY <1>3, <2>1, <2>2
<1>4. ASSUME part = y.values, NEW a \in Seq(Byte), NEW b \in Seq(Byte),
             todo = <<Put(a)>> \o (<<Put(b)>> \o y.calls),
             Ends(y.bytes, stream.pos - start, a \o b)
      PROVE  /\ Next1.type.name = "put" /\ part = y.values
             /\ Tail(todo) = <<Put(b)>> \o y.calls
             /\ Next1.arg \in Seq(Byte)
             /\ Ends(y.bytes, stream.pos - start, Next1.arg \o b)
  <2>. DEFINE p == Put(b)
              S == ItemCalls \cup {p}
  <2>1. <<p>> \o y.calls \in Seq(S)
    <3>1. y.calls \in Seq(S) /\ p \in S
      BY <1>1, SeqMonotonic
    <3>. HIDE DEF p, S
    <3>. QED
      BY <3>1, Pushed
  <2>. HIDE DEF S
  <2>2. Next1 = Put(a) /\ Tail(todo) = <<Put(b)>> \o y.calls
    BY <1>4, <2>1, PushedAny DEF Next1
  <2>3. Next1.type.name = "put" /\ Next1.arg = a
    BY <2>2, InternalCalls
  <2>. QED
    BY <1>4, <2>2, <2>3
<1>5. CASE Counting(y)
  <2>1. PICK n \in Nat, calls \in Seq(ItemCalls) :
            todo = <<Length(n)>> \o (calls \o Tail(y.calls))
    BY <1>5 DEF Counting
  <2>2. calls \o Tail(y.calls) \in Seq(ItemCalls)
    BY <1>1, <1>5, HeadTailProperties, ConcatProperties DEF Counting
  <2>3. Next1 = Length(n)
    BY <2>1, <2>2, PushedAny DEF Next1
  <2>. QED
    BY <1>5, <2>3, InternalCalls
<1>. QED
  BY <1>1, <1>2, <1>3, <1>4, <1>5 DEF Putting

LEMMA Standing ==
    ASSUME DInv, phase = "writer", todo # <<>>, Next1.type.name \notin {"put", "length"}
    PROVE  \E W, value, y : Stands(W, value, y)
<1>1. PICK W, value, y : Leads(W, value, y)
  BY Waited, WriterAt
<1>2. Stands(W, value, y)
  BY <1>1, NextIs
<1>. QED
  BY <1>2

\* An encoder goes on.
LEMMA SendingOn ==
    ASSUME DInv, phase = "writer", todo # <<>>, Ledger',
           UNCHANGED <<phase, call, start, peer, script, sent, acked, wire, received>>,
           NEW W, NEW value, NEW y, Leads(W, value, y)'
    PROVE  CInv'
<1>1. /\ start = EndOf(Len(sent)) /\ acked = Len(sent) /\ call \in Types /\ peer = call
      /\ call # NULL /\ Arrived
  BY Waited, WriterAt DEF DInv, CInv
<1>2. Sending'
  <2>1. (start = EndOf(Len(sent)) /\ acked = Len(sent) /\ call \in Types /\ peer = call)'
    BY <1>1 DEF EndOf
  <2>2. (\E V, v, z : Leads(V, v, z))'
    OBVIOUS
  <2>. QED
    BY <2>1, <2>2 DEF Sending
<1>3. Between' /\ Receiving' /\ Arrived' /\ Decodable'
  BY <1>1 DEF Between, Receiving, Arrived, Decodable
<1>. QED
  BY <1>2, <1>3 DEF CInv

LEMMA SameLedger ==
    ASSUME Ledger, UNCHANGED <<mem, stream, phase, script, sent, acked, wire>>
    PROVE  Ledger'
BY DEF Ledger, Written, EndOf

\* It comes to a stage but for what it has still to write.
StillPuts(t, z, bytes) ==
    \/ bytes = <<>> /\ t = z.calls
    \/ t = <<Put(bytes)>> \o z.calls
    \/ \E a, b \in Seq(Byte) :
           bytes = a \o b /\ t = <<Put(a)>> \o (<<Put(b)>> \o z.calls)

LEMMA Entering ==
    ASSUME DInv, phase = "writer", todo # <<>>,
           NEW W, NEW value, NEW y, Leads(W, value, y), stream.pos = start + Len(y.bytes),
           NEW V, NEW z, Run(V, First(call, value), z),
           NEW bytes \in Seq(Byte), z.bytes = y.bytes \o bytes,
           part' = z.values, StillPuts(todo', z, bytes),
           UNCHANGED <<mem, stream, phase, call, start, peer, script, sent, acked, wire,
                       received>>
    PROVE  CInv'
<1>1. Ledger' /\ start \in Nat /\ stream.pos \in Nat /\ start <= stream.pos
  BY Waited, WriterAt, SameLedger
<1>2. /\ value \in Values[call]
      /\ y \in Stages /\ y.bytes \in Seq(Byte) /\ Len(y.bytes) \in Nat
      /\ \A i \in 1 .. stream.pos - start : mem[start + i] = y.bytes[i]
  BY WeightIsNat DEF Leads, Run
<1>. DEFINE m == Len(y.bytes)
            n == Len(bytes)
<1>3. /\ Len(z.bytes) = m + n /\ n \in Nat
      /\ \A i \in 1 .. m + n : z.bytes[i] = IF i <= m THEN y.bytes[i] ELSE bytes[i - m]
  <2>1. /\ Len(y.bytes \o bytes) = Len(y.bytes) + Len(bytes)
        /\ \A i \in 1 .. Len(y.bytes) + Len(bytes) :
               (y.bytes \o bytes)[i] = IF i <= Len(y.bytes) THEN y.bytes[i]
                                                            ELSE bytes[i - Len(y.bytes)]
    BY <1>2, ConcatProperties
  <2>2. Len(bytes) \in Nat
    BY LenProperties
  <2>. QED
    BY <2>1, <2>2
<1>. HIDE DEF m, n
<1>4. stream.pos - start = m /\ m \in Nat
  BY <1>1, <1>2 DEF m
<1>5. Ends(z.bytes, stream.pos - start, bytes)
  <2>1. \A i \in 1 .. n : m + i \in 1 .. m + n /\ ~ (m + i <= m) /\ (m + i) - m = i
    BY <1>3, <1>4
  <2>. QED
    BY <1>3, <1>4, <2>1 DEF Ends, n
<1>6. \A i \in 1 .. stream.pos - start : mem[start + i] = z.bytes[i]
  <2>1. \A i \in 1 .. m : i \in 1 .. m + n /\ i <= m
    BY <1>3, <1>4
  <2>. QED
    BY <1>2, <1>3, <1>4, <2>1
<1>7. Putting(z)'
  <2>1. CASE bytes = <<>> /\ todo' = z.calls
    <3>1. stream.pos = start + Len(z.bytes)
      <4>1. n = 0
        BY <2>1, EmptySeq DEF n
      <4>2. Len(z.bytes) = m
        BY <1>3, <1>4, <4>1
      <4>. QED
        BY <1>1, <1>4, <4>2
    <3>. QED
      BY <2>1, <3>1 DEF Putting
  <2>2. CASE todo' = <<Put(bytes)>> \o z.calls
    BY <1>5, <2>2 DEF Putting
  <2>3. CASE \E a, b \in Seq(Byte) :
                 bytes = a \o b /\ todo' = <<Put(a)>> \o (<<Put(b)>> \o z.calls)
    BY <1>5, <2>3 DEF Putting
  <2>. QED
    BY <2>1, <2>2, <2>3 DEF StillPuts
<1>8. Leads(V, value, z)'
  BY <1>1, <1>2, <1>6, <1>7 DEF Leads
<1>. QED
  BY <1>1, <1>8, SendingOn

LEMMA PushedTogether ==
    ASSUME NEW S, NEW x, NEW y, NEW s \in Seq(S)
    PROVE  <<x, y>> \o s = <<x>> \o (<<y>> \o s)
<1>. DEFINE R == S \cup {x, y}
<1>1. s \in Seq(R) /\ x \in R /\ y \in R
  BY SeqMonotonic
<1>. HIDE DEF R
<1>. QED
  BY <1>1, TwoPushed

\* An encoder carries out the call of a stage.
LEMMA OneStage ==
    ASSUME DInv, phase = "writer", todo # <<>>, UNCHANGED <<mem, stream>>,
           NEW W, NEW value, NEW y, Stands(W, value, y),
           NEW calls, NEW values, NEW bytes, Expands(Next1, calls, values, bytes),
           NEW new, Becomes(new, values),
           \/ bytes = <<>> /\ new \o Tail(todo) = calls \o Tail(todo)
           \/ new \o Tail(todo) = <<Put(bytes)>> \o (calls \o Tail(todo))
    PROVE  CInv'
<1>1. /\ Leads(W, value, y) /\ y.calls # <<>> /\ todo = y.calls
      /\ stream.pos = start + Len(y.bytes) /\ part = y.values
  BY DEF Stands
<1>2. Run(W, First(call, value), y)
  BY <1>1 DEF Leads
<1>3. Next1 = Head(y.calls)
  BY <1>1 DEF Next1
<1>4. PICK V, z : Reaches(V, First(call, value), y, z, calls, values, bytes)
  BY <1>1, <1>2, <1>3, Progress
<1>5. /\ Run(V, First(call, value), z) /\ bytes \in Seq(Byte)
      /\ z.bytes = y.bytes \o bytes /\ z.values = y.values \o values
      /\ z.calls = calls \o Tail(todo)
  BY <1>1, <1>4 DEF Reaches
<1>6. /\ todo' = new \o Tail(todo) /\ part' = part \o values
      /\ UNCHANGED <<phase, call, start, peer, script, sent, acked, wire, received>>
  BY DEF Becomes, Allocates
<1>7. StillPuts(todo', z, bytes) /\ part' = z.values
  BY <1>1, <1>5, <1>6 DEF StillPuts
<1>. QED
  BY <1>1, <1>5, <1>6, <1>7, Entering

LEMMA WordSent ==
    ASSUME DInv, EncodeWord
    PROVE  CInv'
<1>. DEFINE w == Word(Next1.arg)
<1>1. /\ phase = "writer" /\ todo # <<>> /\ Next1.type.name \in Words
      /\ Becomes(<<Put(w)>>, <<<<Next1.arg>>>>) /\ UNCHANGED <<mem, stream>>
  BY DEF EncodeWord, Doing
<1>2. Next1.type.name \notin {"put", "length"}
  BY <1>1 DEF Words
<1>3. PICK W, value, y : Stands(W, value, y)
  BY <1>1, <1>2, Standing
<1>4. Expands(Next1, <<>>, <<<<Next1.arg>>>>, w)
  BY <1>1 DEF Expands
<1>5. <<>> \o Tail(todo) = Tail(todo)
  BY <1>3, ConcatEmptySeq DEF Stands
<1>6. <<Put(w)>> \o Tail(todo) = <<Put(w)>> \o (<<>> \o Tail(todo))
  BY <1>5
<1>. HIDE DEF w
<1>. QED
  BY <1>1, <1>3, <1>4, <1>6, OneStage

LEMMA SmallSent ==
    ASSUME DInv, EncodeSmall
    PROVE  CInv'
<1>. DEFINE size == SmallSize(Next1.type.name)
            w(beyond) == Word(WordAt(Next1.arg, size, beyond))
<1>1. /\ phase = "writer" /\ todo # <<>> /\ Next1.type.name \in Smalls
      /\ UNCHANGED <<mem, stream>>
  BY DEF EncodeSmall, Doing
<1>2. PICK beyond \in 0 .. Power(Unit - size) - 1 :
          Becomes(<<Put(w(beyond))>>, <<<<Next1.arg>>>>)
  BY DEF EncodeSmall
<1>3. Next1.type.name \notin {"put", "length"}
  BY <1>1 DEF Smalls
<1>4. PICK W, value, y : Stands(W, value, y)
  BY <1>1, <1>3, Standing
<1>5. Expands(Next1, <<>>, <<<<Next1.arg>>>>, w(beyond))
  BY <1>1 DEF Expands
<1>6. <<>> \o Tail(todo) = Tail(todo)
  BY <1>4, ConcatEmptySeq DEF Stands
<1>. DEFINE b == w(beyond)
<1>7. Becomes(<<Put(b)>>, <<<<Next1.arg>>>>) /\ Expands(Next1, <<>>, <<<<Next1.arg>>>>, b)
  BY <1>2, <1>5
<1>8. <<Put(b)>> \o Tail(todo) = <<Put(b)>> \o (<<>> \o Tail(todo))
  BY <1>6
<1>. HIDE DEF b
<1>. QED
  BY <1>1, <1>4, <1>7, <1>8, OneStage

LEMMA VoidSent ==
    ASSUME DInv, EncodeVoid
    PROVE  CInv'
<1>1. /\ phase = "writer" /\ todo # <<>> /\ Next1.type.name = "void"
      /\ Becomes(<<>>, <<>>) /\ UNCHANGED <<mem, stream>>
  BY DEF EncodeVoid, Doing
<1>2. PICK W, value, y : Stands(W, value, y)
  BY <1>1, Standing
<1>3. Expands(Next1, <<>>, <<>>, <<>>)
  BY <1>1 DEF Expands
<1>. QED
  BY <1>1, <1>2, <1>3, OneStage

LEMMA ArraySent ==
    ASSUME DInv, EncodeArray
    PROVE  CInv'
<1>. DEFINE new == Elements(Copies(Next1.type.of[1], Next1.type.len), Next1.arg)
<1>1. /\ phase = "writer" /\ todo # <<>> /\ Next1.type.name = "array"
      /\ Becomes(new, <<>>) /\ UNCHANGED <<mem, stream>>
  BY DEF EncodeArray, Doing
<1>2. PICK W, value, y : Stands(W, value, y)
  BY <1>1, Standing
<1>3. Expands(Next1, new, <<>>, <<>>)
  BY <1>1 DEF Expands
<1>. HIDE DEF new
<1>. QED
  BY <1>1, <1>2, <1>3, OneStage

LEMMA StructSent ==
    ASSUME DInv, EncodeStruct
    PROVE  CInv'
<1>. DEFINE new == Elements(Next1.type.of, Next1.arg)
<1>1. /\ phase = "writer" /\ todo # <<>> /\ Next1.type.name = "struct"
      /\ Becomes(new, <<>>) /\ UNCHANGED <<mem, stream>>
  BY DEF EncodeStruct, Doing
<1>2. PICK W, value, y : Stands(W, value, y)
  BY <1>1, Standing
<1>3. Expands(Next1, new, <<>>, <<>>)
  BY <1>1 DEF Expands
<1>. HIDE DEF new
<1>. QED
  BY <1>1, <1>2, <1>3, OneStage

LEMMA UnionSent ==
    ASSUME DInv, EncodeUnion
    PROVE  CInv'
<1>. DEFINE discr == Next1.arg.discr
            w == Word(discr)
            arm == Call(Next1.type.of[discr + 1], Next1.arg.arm)
<1>1. /\ phase = "writer" /\ todo # <<>> /\ Next1.type.name = "union"
      /\ Becomes(<<Put(w), arm>>, <<<<discr>>>>) /\ UNCHANGED <<mem, stream>>
  BY DEF EncodeUnion, Doing
<1>2. PICK W, value, y : Stands(W, value, y)
  BY <1>1, Standing
<1>3. Expands(Next1, <<arm>>, <<<<discr>>>>, w)
  BY <1>1 DEF Expands
<1>4. Tail(todo) \in Seq(ItemCalls)
  BY <1>2 DEF Stands
<1>. HIDE DEF w, arm, discr
<1>5. <<Put(w), arm>> \o Tail(todo) = <<Put(w)>> \o (<<arm>> \o Tail(todo))
  BY <1>4, PushedTogether
<1>. QED
  BY <1>1, <1>2, <1>3, <1>5, OneStage

LEMMA WideSent ==
    ASSUME DInv, EncodeWide
    PROVE  CInv'
<1>. DEFINE n == Next1.arg
            a == Word(High(n))
            b == Word(Low(n))
            low == Rest(n)
            part2 == <<<<n>>>>
<1>1. /\ phase = "writer" /\ todo # <<>> /\ Next1.type.name \in Wides
      /\ Becomes(<<Put(a), Put(b)>>, part2) /\ UNCHANGED <<mem, stream>>
  BY DEF EncodeWide, Doing
<1>2. Next1.type.name \notin {"put", "length"}
  BY <1>1 DEF Wides
<1>3. PICK W, value, y : Stands(W, value, y)
  BY <1>1, <1>2, Standing
<1>4. /\ Leads(W, value, y) /\ y.calls # <<>> /\ todo = y.calls
      /\ stream.pos = start + Len(y.bytes) /\ part = y.values
      /\ Tail(todo) \in Seq(ItemCalls) /\ Next1 = Head(y.calls)
      /\ Next1 \in ItemCalls /\ y \in Stages
  BY <1>3 DEF Stands, Next1
<1>5. Run(W, First(call, value), y)
  BY <1>4 DEF Leads
<1>6. Expands(Next1, <<low>>, <<>>, a)
  BY <1>1 DEF Expands
<1>7. Expands(low, <<>>, part2, b)
  <2>1. low.type.name = "low" /\ low.arg = n
    BY CallFields DEF Rest
  <2>. HIDE DEF low
  <2>. QED
    BY <2>1 DEF Expands
<1>8. n \in Int
  BY <1>1, <1>4, IntegerItem
<1>9. low \in ItemCalls
  BY <1>8, ItemCallMade
<1>10. part2 \in Seq(Seq(Int))
  BY <1>8, OneValue
<1>. HIDE DEF a, b, low, n, part2
<1>11. PICK V, x : Reaches(V, First(call, value), y, x, <<low>>, <<>>, a)
  BY <1>4, <1>5, <1>6, Progress
<1>12. /\ Run(V, First(call, value), x) /\ x.calls = <<low>> \o Tail(todo)
       /\ x.values = y.values \o <<>> /\ x.bytes = y.bytes \o a /\ a \in Seq(Byte)
  BY <1>4, <1>11 DEF Reaches
<1>13. x.calls # <<>> /\ Head(x.calls) = low /\ Tail(x.calls) = Tail(todo)
  BY <1>4, <1>9, <1>12, Pushed
<1>14. PICK U, z : Reaches(U, First(call, value), x, z, <<>>, part2, b)
  BY <1>7, <1>12, <1>13, Progress
<1>15. /\ Run(U, First(call, value), z) /\ z.calls = <<>> \o Tail(todo)
       /\ z.values = (y.values \o <<>>) \o part2 /\ z.bytes = (y.bytes \o a) \o b
       /\ b \in Seq(Byte)
  BY <1>12, <1>13, <1>14 DEF Reaches
<1>16. z.calls = Tail(todo) /\ z.values = part \o part2
  <2>1. y.values \o <<>> = y.values
    BY <1>4, ConcatEmptySeq DEF Stages
  <2>2. <<>> \o Tail(todo) = Tail(todo)
    BY <1>4, ConcatEmptySeq
  <2>. QED
    BY <1>4, <1>15, <2>1, <2>2
<1>17. z.bytes = y.bytes \o (a \o b) /\ a \o b \in Seq(Byte)
  <2>1. PICK p \in Seq(Byte) : p = y.bytes
    BY <1>4, WeightIsNat
  <2>2. a \in Seq(Byte) /\ b \in Seq(Byte)
    BY <1>12, <1>15
  <2>3. (p \o a) \o b = p \o (a \o b)
    BY <2>2, Reassociate
  <2>4. a \o b \in Seq(Byte)
    BY <2>2, ConcatProperties
  <2>. QED
    BY <1>15, <2>1, <2>3, <2>4
<1>18. /\ todo' = <<Put(a), Put(b)>> \o Tail(todo) /\ part' = part \o part2
       /\ UNCHANGED <<phase, call, start, peer, script, sent, acked, wire, received>>
  BY <1>1 DEF Becomes, Allocates
<1>19. <<Put(a), Put(b)>> \o Tail(todo) = <<Put(a)>> \o (<<Put(b)>> \o Tail(todo))
  BY <1>4, PushedTogether
<1>20. StillPuts(todo', z, a \o b) /\ part' = z.values
  BY <1>12, <1>15, <1>16, <1>18, <1>19 DEF StillPuts
<1>. QED
  BY <1>1, <1>4, <1>15, <1>17, <1>18, <1>20, Entering

LEMMA BytesSent ==
    ASSUME DInv, EncodeBytes
    PROVE  CInv'
<1>. DEFINE b == Next1.arg
            pad == PadSize(Next1.type.len)
            more == IF pad = 0 THEN <<>> ELSE <<Put(Zeros(pad))>>
            part2 == <<b>>
<1>1. /\ phase = "writer" /\ todo # <<>> /\ Next1.type.name = "bytes"
      /\ Becomes(<<Put(b)>> \o more, part2) /\ UNCHANGED <<mem, stream>>
  BY DEF EncodeBytes, Doing
<1>2. PICK W, value, y : Stands(W, value, y)
  BY <1>1, Standing
<1>3. /\ Leads(W, value, y) /\ y.calls # <<>> /\ todo = y.calls
      /\ stream.pos = start + Len(y.bytes) /\ part = y.values
      /\ Tail(todo) \in Seq(ItemCalls) /\ Next1 = Head(y.calls)
      /\ Next1 \in ItemCalls /\ y \in Stages
  BY <1>2 DEF Stands, Next1
<1>4. Run(W, First(call, value), y)
  BY <1>3 DEF Leads
<1>5. b \in Seq(Byte) /\ Next1.type.len = Len(b) /\ pad \in Nat /\ part2 \in Seq(Seq(Int))
  <2>1. b \in Seq(Byte) /\ Next1.type.len = Len(b)
    BY <1>1, <1>3, BytesItem
  <2>2. Len(b) \in Nat
    BY <2>1, LenProperties
  <2>3. part2 \in Seq(Seq(Int))
    BY <2>1, BytesAreIntegers
  <2>. QED
    BY <2>1, <2>2, <2>3, PadSizeIs
<1>. DEFINE item == Blob(b)
            p == Padding(Len(b))
            rest == Tail(todo)
<1>6. /\ Expands(Next1, <<item>> \o p, <<>>, <<>>)
      /\ Expands(item, <<>>, part2, b)
  <2>1. item.type.name = "blob" /\ item.arg = b
    BY CallFields DEF Blob
  <2>. HIDE DEF item
  <2>2. Expands(item, <<>>, part2, b)
    BY <2>1 DEF Expands
  <2>3. Expands(Next1, <<Blob(b)>> \o p, <<>>, <<>>)
    BY <1>1 DEF Expands
  <2>. QED
    BY <2>2, <2>3 DEF item
<1>7. item \in ItemCalls /\ p \in Seq(ItemCalls) /\ rest \in Seq(ItemCalls)
  <2>1. p \in Seq(ItemCalls)
    <3>1. pad = PadSize(Len(b)) /\ pad \in Nat
      BY <1>5
    <3>2. Pad(pad) \in ItemCalls /\ <<Pad(pad)>> \in Seq(ItemCalls)
      BY <3>1, ItemCallMade, OneAndTwo
    <3>3. p = <<>> \/ p = <<Pad(pad)>>
      BY <3>1 DEF Padding
    <3>. QED
      BY <3>2, <3>3, EmptySeq
  <2>. QED
    BY <1>3, <1>5, <2>1, ItemCallMade
<1>. HIDE DEF item, part2, b
<1>8. PICK V, x : Reaches(V, First(call, value), y, x, <<item>> \o p, <<>>, <<>>)
  BY <1>3, <1>4, <1>6, Progress
<1>9. /\ Run(V, First(call, value), x)
      /\ x.calls = (<<item>> \o p) \o Tail(y.calls)
      /\ x.values = y.values \o <<>> /\ x.bytes = y.bytes \o <<>>
  BY <1>8 DEF Reaches
<1>. HIDE DEF p
<1>10. x.calls = <<item>> \o (p \o rest) /\ p \o rest \in Seq(ItemCalls)
  <2>. HIDE DEF rest
  <2>1. (<<item>> \o p) \o rest = <<item>> \o (p \o rest) /\ p \o rest \in Seq(ItemCalls)
    BY <1>7, PushedBefore
  <2>2. rest = Tail(y.calls)
    BY <1>3 DEF rest
  <2>. QED
    BY <1>9, <2>1, <2>2
<1>11. x.values = part /\ x.bytes = y.bytes
  <2>1. y.values \in Seq(Seq(Int)) /\ y.bytes \in Seq(Byte)
    BY <1>3, WeightIsNat
  <2>2. y.values \o <<>> = y.values /\ y.bytes \o <<>> = y.bytes
    BY <2>1, ConcatEmptySeq
  <2>. QED
    BY <1>3, <1>9, <2>2
<1>. DEFINE t == p \o rest
<1>12. x.calls # <<>> /\ Head(x.calls) = item /\ Tail(x.calls) = t
  <2>1. t \in Seq(ItemCalls) /\ x.calls = <<item>> \o t
    BY <1>10
  <2>. HIDE DEF t
  <2>. QED
    BY <1>7, <2>1, Pushed
<1>13. PICK U, v : Reaches(U, First(call, value), x, v, <<>>, part2, b)
  BY <1>6, <1>9, <1>12, Progress
<1>14. /\ Run(U, First(call, value), v) /\ v.calls = <<>> \o Tail(x.calls)
       /\ v.values = part \o part2 /\ v.bytes = y.bytes \o b
  BY <1>11, <1>13 DEF Reaches
<1>15. v.calls = t
  <2>1. <<>> \o t = t
    BY <1>10, ConcatEmptySeq
  <2>. QED
    BY <1>12, <1>14, <2>1
<1>16. /\ todo' = (<<Put(b)>> \o more) \o rest /\ part' = v.values
       /\ UNCHANGED <<phase, call, start, peer, script, sent, acked, wire, received>>
  BY <1>1, <1>14 DEF Becomes, Allocates, b
<1>17. CASE pad = 0
  <2>1. more = <<>> /\ p = <<>>
    BY <1>5, <1>17 DEF Padding, p, b
  <2>2. t = rest
    BY <1>7, <2>1, ConcatEmptySeq
  <2>3. todo' = <<Put(b)>> \o rest
    <3>1. Len(<<Put(b)>>) = 1 /\ <<Put(b)>> \in Seq({Put(b)})
      BY OneAndTwo
    <3>2. <<Put(b)>> \o <<>> = <<Put(b)>>
      BY <3>1, ConcatEmptySeq
    <3>. QED
      BY <1>16, <2>1, <3>2
  <2>4. StillPuts(todo', v, b)
    BY <1>15, <2>2, <2>3 DEF StillPuts
  <2>5. b \in Seq(Byte)
    BY <1>5 DEF b
  <2>. QED
    BY <1>1, <1>3, <1>14, <1>16, <2>4, <2>5, Entering
<1>18. CASE pad # 0
  <2>. DEFINE zeros == Zeros(pad)
              last == Pad(pad)
  <2>1. more = <<Put(zeros)>> /\ p = <<last>>
    BY <1>5, <1>18 DEF Padding, p, b
  <2>2. last \in ItemCalls /\ zeros \in Seq(Byte)
    BY <1>5, ItemCallMade, ZerosAreBytes
  <2>3. Expands(last, <<>>, <<>>, zeros)
    <3>1. last.type.name = "pad" /\ last.type.len = pad
      BY CallFields DEF Pad
    <3>. HIDE DEF last, pad
    <3>. QED
      BY <3>1 DEF Expands
  <2>. HIDE DEF zeros, last, more, pad
  <2>4. v.calls # <<>> /\ Head(v.calls) = last /\ Tail(v.calls) = rest
    <3>1. v.calls = <<last>> \o rest
      BY <1>15, <2>1
    <3>. HIDE DEF rest
    <3>. QED
      BY <1>7, <2>2, <3>1, Pushed
  <2>5. PICK T, z : Reaches(T, First(call, value), v, z, <<>>, <<>>, zeros)
    BY <1>14, <2>3, <2>4, Progress
  <2>6. /\ Run(T, First(call, value), z) /\ z.calls = <<>> \o rest
        /\ z.values = v.values \o <<>> /\ z.bytes = (y.bytes \o b) \o zeros
    BY <1>14, <2>4, <2>5 DEF Reaches
  <2>7. z.calls = rest /\ z.values = v.values
    <3>1. v \in Stages
      BY <1>13 DEF Reaches
    <3>2. v.values \o <<>> = v.values
      BY <3>1, WeightIsNat, ConcatEmptySeq
    <3>3. <<>> \o rest = rest
      BY <1>7, ConcatEmptySeq
    <3>. QED
      BY <2>6, <3>2, <3>3
  <2>8. z.bytes = y.bytes \o (b \o zeros) /\ b \o zeros \in Seq(Byte) /\ b \in Seq(Byte)
    <3>1. PICK q \in Seq(Byte) : q = y.bytes
      BY <1>3, WeightIsNat
    <3>2. b \in Seq(Byte)
      BY <1>5 DEF b
    <3>3. (q \o b) \o zeros = q \o (b \o zeros)
      BY <2>2, <3>2, Reassociate
    <3>4. b \o zeros \in Seq(Byte)
      BY <2>2, <3>2, ConcatProperties
    <3>. QED
      BY <2>6, <3>1, <3>2, <3>3, <3>4
  <2>9. todo' = <<Put(b)>> \o (<<Put(zeros)>> \o rest)
    <3>1. todo' = (<<Put(b)>> \o <<Put(zeros)>>) \o rest
      BY <1>16, <2>1
    <3>2. <<Put(b)>> \o <<Put(zeros)>> = <<Put(b), Put(zeros)>>
      <4>. DEFINE u == Put(b)
                  w == Put(zeros)
                  R == {u, w}
      <4>1. u \in R /\ w \in R
        OBVIOUS
      <4>. HIDE DEF u, w, R
      <4>2. <<u>> \o <<w>> = <<u, w>>
        BY <4>1, TuplesJoin
      <4>. QED
        BY <4>2 DEF u, w
    <3>3. <<Put(b), Put(zeros)>> \o rest = <<Put(b)>> \o (<<Put(zeros)>> \o rest)
      <4>. HIDE DEF rest
      <4>. QED
        BY <1>7, PushedTogether
    <3>. QED
      BY <3>1, <3>2, <3>3
  <2>10. StillPuts(todo', z, b \o zeros)
    BY <2>2, <2>7, <2>8, <2>9 DEF StillPuts
  <2>11. part' = z.values
    BY <1>16, <2>7
  <2>. QED
    BY <1>1, <1>3, <1>16, <2>6, <2>8, <2>10, <2>11, Entering
<1>. QED
  BY <1>17, <1>18

\* An encoder is to count what it writes next.
LEMMA LengthAhead ==
    ASSUME DInv, phase = "writer", todo # <<>>, UNCHANGED <<mem, stream>>,
           NEW W, NEW value, NEW y, Stands(W, value, y),
           Next1.type.name \in Counted,
           NEW n \in Nat, NEW calls \in Seq(ItemCalls), NEW values \in Seq(Seq(Int)),
           n <= WordMax => Expands(Next1, calls, values, Word(n)),
           NEW new, Becomes(new, values),
           new \o Tail(todo) = <<Length(n)>> \o (calls \o Tail(todo))
    PROVE  CInv'
<1>1. /\ Leads(W, value, y) /\ y.calls # <<>> /\ todo = y.calls
      /\ stream.pos = start + Len(y.bytes) /\ part = y.values
      /\ Next1 = Head(y.calls)
  BY DEF Stands, Next1
<1>2. /\ todo' = new \o Tail(todo) /\ part' = part \o values
      /\ UNCHANGED <<phase, call, start, peer, script, sent, acked, wire, received>>
  BY DEF Becomes, Allocates
<1>3. Ledger'
  BY <1>2, Waited, WriterAt, SameLedger
<1>4. Counting(y)'
  <2>1. (y.calls # <<>> /\ Head(y.calls).type.name \in Counted
         /\ stream.pos = start + Len(y.bytes))'
    BY <1>1, <1>2
  <2>2. /\ todo' = <<Length(n)>> \o (calls \o Tail(y.calls))
        /\ part' = y.values \o values
        /\ n <= WordMax => Expands(Head(y.calls), calls, values, Word(n))
    BY <1>1, <1>2
  <2>. QED
    BY <2>1, <2>2 DEF Counting
<1>5. Leads(W, value, y)'
  BY <1>1, <1>2, <1>4 DEF Leads
<1>. QED
  BY <1>2, <1>3, <1>5, SendingOn

LEMMA VarBytesSent ==
    ASSUME DInv, EncodeVarBytes
    PROVE  CInv'
<1>. DEFINE b == Text(Next1)
            item == Call(Bytes(Len(b)), b)
            n == Len(b)
            new == <<Length(n), item>>
            calls == <<item>>
<1>1. /\ phase = "writer" /\ todo # <<>> /\ Next1.type.name \in {"var_bytes", "cstring"}
      /\ Becomes(new, <<>>) /\ UNCHANGED <<mem, stream>>
  BY DEF EncodeVarBytes, Doing, Text
<1>2. PICK W, value, y : Stands(W, value, y)
  BY <1>1, Standing
<1>3. Next1 \in ItemCalls /\ Tail(todo) \in Seq(ItemCalls)
  BY <1>2 DEF Stands, Next1
<1>4. b \in Seq(Byte) /\ n \in Nat
  BY <1>1, <1>3, TextIs
<1>5. item \in ItemCalls /\ calls \in Seq(ItemCalls)
  BY <1>4, ItemCallMade, OneAndTwo
<1>6. n <= WordMax => Expands(Next1, calls, <<>>, Word(n))
  BY <1>1 DEF Expands
<1>7. Next1.type.name \in Counted /\ <<>> \in Seq(Seq(Int))
  BY <1>1 DEF Counted
<1>. HIDE DEF item, n
<1>8. new \o Tail(todo) = <<Length(n)>> \o (calls \o Tail(todo))
  <2>. DEFINE u == Length(n)
              rest == Tail(todo)
  <2>1. rest \in Seq(ItemCalls)
    BY <1>3
  <2>. HIDE DEF u, rest
  <2>2. <<u, item>> \o rest = <<u>> \o (<<item>> \o rest)
    BY <2>1, PushedTogether
  <2>. QED
    BY <2>2 DEF u, rest
<1>. HIDE DEF new, calls
<1>. QED
  BY <1>1, <1>2, <1>4, <1>5, <1>6, <1>7, <1>8, LengthAhead

LEMMA VarArraySent ==
    ASSUME DInv, EncodeVarArray
    PROVE  CInv'
<1>. DEFINE n == Len(Next1.arg)
            calls == Elements(Copies(Next1.type.of[1], n), Next1.arg)
            values == <<<<n>>>>
            new == <<Length(n)>> \o calls
<1>1. /\ phase = "writer" /\ todo # <<>> /\ Next1.type.name = "var_array"
      /\ Becomes(new, values) /\ UNCHANGED <<mem, stream>>
  BY DEF EncodeVarArray, Doing
<1>2. PICK W, value, y : Stands(W, value, y)
  BY <1>1, Standing
<1>3. Next1 \in ItemCalls /\ Tail(todo) \in Seq(ItemCalls)
  BY <1>2 DEF Stands, Next1
<1>4. n \in Nat /\ calls \in Seq(ItemCalls)
  <2>1. Next1.type \in Types /\ IsType(Next1.type) /\ IsValue(Next1.type, Next1.arg)
    BY <1>1, <1>3, ClientItem DEF Names
  <2>2. Next1.arg \in Seq(Values[Next1.type.of[1]])
    BY <1>1, <2>1 DEF IsValue
  <2>3. n \in Nat
    BY <2>2, LenProperties
  <2>. QED
    BY <1>1, <2>1, <2>2, <2>3, ArrayItems
<1>5. n <= WordMax => Expands(Next1, calls, values, Word(n))
  BY <1>1 DEF Expands
<1>. HIDE DEF n
<1>6. Next1.type.name \in Counted /\ values \in Seq(Seq(Int))
  BY <1>1, <1>4, OneValue DEF Counted
<1>. HIDE DEF calls, values
<1>7. new \o Tail(todo) = <<Length(n)>> \o (calls \o Tail(todo))
  <2>. DEFINE u == Length(n)
              rest == Tail(todo)
              S == ItemCalls \cup {u}
  <2>1. u \in S /\ calls \in Seq(S) /\ rest \in Seq(S)
    BY <1>3, <1>4, SeqMonotonic
  <2>. HIDE DEF u, rest, S
  <2>2. (<<u>> \o calls) \o rest = <<u>> \o (calls \o rest)
    BY <2>1, PushedBefore
  <2>. QED
    BY <2>2 DEF u, rest
<1>. HIDE DEF new
<1>. QED
  BY <1>1, <1>2, <1>4, <1>5, <1>6, <1>7, LengthAhead

\* An item is recorded, in whole or in part.
LEMMA Recording ==
    ASSUME DInv, phase = "writer", call # NULL,
           Writes, UNCHANGED <<mem, stream, phase>>,
           acked' = acked \/ acked' = acked + 1,
           Told(mem, call, start, Item, acked' = acked + 1)
    PROVE  /\ Ledger'
           /\ Len(sent') = Len(sent) + 1 /\ Len(sent) \in Nat /\ acked = Len(sent)
           /\ (EndOf(Len(sent)))' = stream.pos
<1>1. /\ stream.pos \in Nat /\ start = EndOf(Len(sent)) /\ acked = Len(sent) /\ peer = call
      /\ call \in Types /\ part \in Seq(Seq(Int)) /\ Ledger
  BY WriterAt
<1>0. PICK n \in Nat : n = Len(sent)
  BY <1>1, LenProperties DEF Ledger
<1>2. /\ sent \in Seq(Items) /\ Len(script) = n /\ n \in Nat
      /\ \A k \in 1 .. n :
             sent[k].end <= stream.pos /\ Told(mem, script[k], EndOf(k - 1), sent[k], k <= acked)
  <2>1. sent \in Seq(Items) /\ Len(script) = n
        /\ \A k \in 1 .. n :
             sent[k].end <= stream.pos /\ Told(mem, script[k], EndOf(k - 1), sent[k], k <= acked)
    BY <1>0, <1>1 DEF Ledger, Written
  <2>. QED
    BY <2>1
<1>3. script \in Seq(Types)
  BY DEF DInv, IInv
<1>4. Item \in Items /\ Item.end = stream.pos
  BY <1>1 DEF Item, Items
<1>5. /\ sent' \in Seq(Items) /\ Len(sent') = n + 1 /\ sent'[n + 1] = Item
      /\ \A k \in 1 .. n : sent'[k] = sent[k]
  <2>1. /\ Append(sent, Item) \in Seq(Items) /\ Len(Append(sent, Item)) = Len(sent) + 1
        /\ Append(sent, Item)[Len(sent) + 1] = Item
        /\ \A k \in 1 .. Len(sent) : Append(sent, Item)[k] = sent[k]
    BY <1>2, <1>4, AppendProperties
  <2>. QED
    BY <1>0, <2>1 DEF Writes
<1>6. /\ Len(script') = n + 1 /\ script'[n + 1] = call
      /\ \A k \in 1 .. n : script'[k] = script[k]
  <2>1. /\ Len(Append(script, peer)) = Len(script) + 1
        /\ Append(script, peer)[Len(script) + 1] = peer
        /\ \A k \in 1 .. Len(script) : Append(script, peer)[k] = script[k]
    BY <1>1, <1>3, AppendProperties
  <2>. QED
    BY <1>1, <1>2, <2>1 DEF Writes
<1>7. \A k \in 0 .. n : (EndOf(k))' = EndOf(k)
  <2>1. \A k \in 0 .. n : k = 0 \/ k \in 1 .. n
    BY <1>2
  <2>. QED
    BY <1>5, <2>1 DEF EndOf
<1>8. \A k \in 1 .. n + 1 :
          sent'[k].end <= stream.pos
              /\ Told(mem, script'[k], (EndOf(k - 1))', sent'[k], k <= acked')
  <2>. SUFFICES ASSUME NEW k \in 1 .. n + 1
                PROVE  sent'[k].end <= stream.pos
                       /\ Told(mem, script'[k], (EndOf(k - 1))', sent'[k], k <= acked')
    OBVIOUS
  <2>1. CASE k \in 1 .. n
    <3>1. k - 1 \in 0 .. n /\ (k <= acked') = (k <= acked)
      BY <1>0, <1>1, <1>2, <2>1
    <3>2. (EndOf(k - 1))' = EndOf(k - 1)
      BY <1>7, <3>1
    <3>3. sent[k].end <= stream.pos /\ Told(mem, script[k], EndOf(k - 1), sent[k], k <= acked)
      BY <1>2, <2>1
    <3>. QED
      BY <1>5, <1>6, <2>1, <3>1, <3>2, <3>3
  <2>2. CASE k = n + 1
    <3>1. k - 1 = n /\ n \in 0 .. n /\ (k <= acked') = (acked' = acked + 1)
      BY <1>0, <1>1, <1>2, <2>2
    <3>2. (EndOf(n))' = start
      <4>1. (EndOf(n))' = EndOf(n)
        BY <1>7, <3>1
      <4>. QED
        BY <1>0, <1>1, <4>1
    <3>3. (EndOf(k - 1))' = start
      BY <3>1, <3>2
    <3>4. Item.end <= stream.pos
      BY <1>1, <1>4
    <3>. QED
      BY <1>5, <1>6, <2>2, <3>1, <3>3, <3>4
  <2>. QED
    BY <1>2, <2>1, <2>2
<1>9. acked' \in 0 .. n + 1 /\ n + 1 <= acked' + 1
  BY <1>0, <1>1, <1>2
<1>10. Ledger'
  <2>1. (\A k \in 1 .. Len(sent) :
             sent[k].end <= Written
                 /\ Told(mem, script[k], EndOf(k - 1), sent[k], k <= acked))'
    BY <1>5, <1>8 DEF Written
  <2>. QED
    BY <1>5, <1>6, <1>9, <2>1 DEF Ledger
<1>11. (EndOf(Len(sent)))' = stream.pos
  <2>1. n + 1 # 0
    BY <1>2
  <2>. QED
    BY <1>4, <1>5, <2>1 DEF EndOf
<1>. QED
  BY <1>0, <1>1, <1>2, <1>5, <1>10, <1>11

\* Nothing is going on any more in the writer.
LEMMA WriterRests ==
    ASSUME DInv, phase = "writer", call' = NULL, UNCHANGED <<phase, received>>,
           Ledger', Between'
    PROVE  CInv'
BY DEF DInv, CInv, Sending, Receiving, Arrived, Decodable

\* An encoder fails: it had more to write, or to count.
LEMMA WriterFails ==
    ASSUME DInv, phase = "writer", todo # <<>>, NEW code, code # "OK", Fails(code),
           UNCHANGED <<mem, stream>>,
           NEW W, NEW value, NEW y, Leads(W, value, y),
           stream.pos <= start + Len(y.bytes),
           stream.pos = start + Len(y.bytes) =>
               y.calls # <<>> /\ Head(y.calls).type.name \in Counted
    PROVE  CInv'
<1>1. /\ call # NULL /\ start \in Nat /\ stream.pos \in Nat /\ start <= stream.pos
      /\ start = EndOf(Len(sent)) /\ acked = Len(sent) /\ call \in Types /\ Ledger
  BY Waited, WriterAt
<1>2. /\ rc' = code /\ call' = NULL
      /\ IF stream.pos # start THEN Writes ELSE UNCHANGED <<script, sent>>
      /\ UNCHANGED <<mem, stream, phase, start, peer, acked, wire, received>>
  BY DEF Fails
<1>3. CASE stream.pos = start
  <2>1. Ledger' /\ (EndOf(Len(sent)))' = EndOf(Len(sent))
    BY <1>1, <1>2, <1>3, SameLedger DEF EndOf
  <2>2. Between'
    BY <1>1, <1>2, <1>3, <2>1 DEF Between
  <2>. QED
    BY <1>2, <2>1, <2>2, WriterRests
<1>4. CASE stream.pos # start
  <2>1. Tells(mem, call, start, Item, FALSE, W, y)
    <3>1. Item.end = stream.pos
      BY DEF Item
    <3>2. \E v \in Values[call] : Run(W, First(call, v), y)
      BY DEF Leads
    <3>3. \A i \in 1 .. stream.pos - start : mem[start + i] = y.bytes[i]
      BY DEF Leads
    <3>. QED
      BY <1>1, <3>1, <3>2, <3>3 DEF Tells
  <2>2. Told(mem, call, start, Item, acked' = acked + 1)
    <3>1. (acked' = acked + 1) = FALSE
      <4>1. acked \in Nat
        BY <1>1 DEF Ledger
      <4>. QED
        BY <1>2, <4>1
    <3>. QED
      BY <2>1, <3>1 DEF Told
  <2>3. Ledger' /\ (EndOf(Len(sent)))' = stream.pos
    BY <1>1, <1>2, <1>4, <2>2, Recording
  <2>4. Between'
    BY <1>2, <1>4, <2>3 DEF Between
  <2>. QED
    BY <1>2, <2>3, <2>4, WriterRests
<1>. QED
  BY <1>3, <1>4

\* Bytes to put are not nothing left to do.
LEMMA SuccessSent ==
    ASSUME DInv, Succeeds, phase = "writer"
    PROVE  CInv'
<1>1. /\ call # NULL /\ todo = <<>> /\ Writes /\ acked' = acked + 1
      /\ call' = NULL /\ rc' = "OK"
      /\ UNCHANGED <<mem, stream, phase, start, peer, wire, received>>
  BY DEF Succeeds
<1>2. /\ start \in Nat /\ stream.pos \in Nat /\ start <= stream.pos /\ call \in Types
      /\ \E W, value, y : Leads(W, value, y)
  BY <1>1, WriterAt
<1>3. PICK W, value, y : Leads(W, value, y)
  BY <1>2
<1>4. Run(W, First(call, value), y) /\ value \in Values[call]
  BY <1>3 DEF Leads
<1>5. y.calls \in Seq(ItemCalls) /\ (y.calls # <<>> => Tail(y.calls) \in Seq(ItemCalls))
  <2>1. y \in Stages
    BY <1>4 DEF Run
  <2>. QED
    BY <2>1, WeightIsNat, StepParts
<1>6. y.calls = <<>> /\ part = y.values /\ stream.pos = start + Len(y.bytes)
  <2>1. ~Counting(y)
    <3>1. ASSUME Counting(y) PROVE FALSE
      <4>1. PICK n \in Nat, calls \in Seq(ItemCalls) :
                y.calls # <<>> /\ todo = <<Length(n)>> \o (calls \o Tail(y.calls))
        BY <3>1 DEF Counting
      <4>2. calls \o Tail(y.calls) \in Seq(ItemCalls)
        BY <1>5, <4>1, ConcatProperties
      <4>. QED
        BY <1>1, <4>1, <4>2, PushedAny
    <3>. QED
      BY <3>1
  <2>2. ASSUME NEW b, todo = <<Put(b)>> \o y.calls PROVE FALSE
    BY <1>1, <1>5, <2>2, PushedAny
  <2>3. ASSUME NEW a, NEW b, todo = <<Put(a)>> \o (<<Put(b)>> \o y.calls) PROVE FALSE
    <3>. DEFINE p == Put(b)
                S == ItemCalls \cup {p}
    <3>1. y.calls \in Seq(S) /\ p \in S
      BY <1>5, SeqMonotonic
    <3>. HIDE DEF p, S
    <3>2. <<p>> \o y.calls \in Seq(S)
      BY <3>1, Pushed
    <3>3. todo = <<Put(a)>> \o (<<p>> \o y.calls)
      BY <2>3 DEF p
    <3>. QED
      BY <1>1, <3>2, <3>3, PushedAny
  <2>4. Putting(y)
    BY <1>3, <2>1 DEF Leads
  <2>. QED
    BY <1>1, <2>2, <2>3, <2>4 DEF Putting
<1>7. Tells(mem, call, start, Item, TRUE, W, y)
  <2>1. Item.end = stream.pos /\ Item.values = part
    BY DEF Item
  <2>2. \A i \in 1 .. stream.pos - start : mem[start + i] = y.bytes[i]
    BY <1>3 DEF Leads
  <2>3. Item.end <= start + Len(y.bytes)
    BY <1>2, <1>6, <2>1
  <2>. QED
    BY <1>2, <1>4, <1>6, <2>1, <2>2, <2>3 DEF Tells
<1>8. Told(mem, call, start, Item, acked' = acked + 1)
  <2>1. (acked' = acked + 1) = TRUE
    BY <1>1
  <2>. QED
    BY <1>7, <2>1 DEF Told
<1>9. /\ Ledger' /\ Len(sent') = Len(sent) + 1 /\ acked = Len(sent)
      /\ (EndOf(Len(sent)))' = stream.pos
  BY <1>1, <1>8, Recording
<1>10. Between'
  BY <1>1, <1>9 DEF Between
<1>. QED
  BY <1>1, <1>9, <1>10, WriterRests

\* What is put next.
Puts(W, value, y, rest) ==
    /\ Leads(W, value, y) /\ part = y.values
    /\ rest \in Seq(Byte) /\ Next1.arg \in Seq(Byte)
    /\ Ends(y.bytes, stream.pos - start, Next1.arg \o rest)
    /\ \/ rest = <<>> /\ Tail(todo) = y.calls
       \/ Tail(todo) = <<Put(rest)>> \o y.calls

LEMMA PutNext ==
    ASSUME DInv, phase = "writer", todo # <<>>, Next1.type.name = "put"
    PROVE  \E W, value, y, rest : Puts(W, value, y, rest)
<1>1. PICK W, value, y : Leads(W, value, y)
  BY Waited, WriterAt
<1>2. \/ /\ part = y.values
         /\ Tail(todo) = y.calls
         /\ Next1.arg \in Seq(Byte)
         /\ Ends(y.bytes, stream.pos - start, Next1.arg)
      \/ /\ part = y.values
         /\ \E b \in Seq(Byte) :
                /\ Tail(todo) = <<Put(b)>> \o y.calls
                /\ Next1.arg \in Seq(Byte)
                /\ Ends(y.bytes, stream.pos - start, Next1.arg \o b)
  BY <1>1, NextIs
<1>3. CASE /\ part = y.values
           /\ Tail(todo) = y.calls
           /\ Next1.arg \in Seq(Byte)
           /\ Ends(y.bytes, stream.pos - start, Next1.arg)
  <2>1. Next1.arg \o <<>> = Next1.arg /\ <<>> \in Seq(Byte)
    BY <1>3, ConcatEmptySeq, EmptySeq
  <2>2. Puts(W, value, y, <<>>)
    BY <1>1, <1>3, <2>1 DEF Puts
  <2>. QED
    BY <2>2
<1>4. ASSUME part = y.values, NEW b \in Seq(Byte),
             Tail(todo) = <<Put(b)>> \o y.calls,
             Next1.arg \in Seq(Byte),
             Ends(y.bytes, stream.pos - start, Next1.arg \o b)
      PROVE  Puts(W, value, y, b)
  BY <1>1, <1>4 DEF Puts
<1>. QED
  BY <1>2, <1>3, <1>4

\* What a sequence has after its first n elements, in parts.
LEMMA EndsInParts ==
    ASSUME NEW c, NEW n \in Nat, NEW a \in Seq(Byte), NEW b \in Seq(Byte), Ends(c, n, a \o b)
    PROVE  /\ Len(a) \in Nat /\ Len(b) \in Nat /\ Len(c) = n + Len(a) + Len(b)
           /\ \A i \in 1 .. Len(a) : c[n + i] = a[i]
           /\ Ends(c, n + Len(a), b)
<1>1. PICK m \in Nat : m = Len(a)
  BY LenProperties
<1>2. PICK k \in Nat : k = Len(b)
  BY LenProperties
<1>3. PICK d \in Seq(Byte) : d = a \o b
  BY ConcatProperties
<1>4. /\ Len(d) = m + k
      /\ \A i \in 1 .. m + k : d[i] = IF i <= m THEN a[i] ELSE b[i - m]
  <2>1. /\ Len(a \o b) = Len(a) + Len(b)
        /\ \A i \in 1 .. Len(a) + Len(b) :
               (a \o b)[i] = IF i <= Len(a) THEN a[i] ELSE b[i - Len(a)]
    BY ConcatProperties
  <2>. QED
    BY <1>1, <1>2, <1>3, <2>1
<1>5. Len(c) = n + (m + k) /\ \A i \in 1 .. m + k : c[n + i] = d[i]
  BY <1>3, <1>4 DEF Ends
<1>6. Len(c) = n + m + k /\ Len(c) = (n + m) + k
  BY <1>5
<1>7. \A i \in 1 .. m : c[n + i] = a[i]
  <2>1. \A i \in 1 .. m : i \in 1 .. m + k /\ i <= m
    OBVIOUS
  <2>. QED
    BY <1>4, <1>5, <2>1
<1>8. \A i \in 1 .. k : c[(n + m) + i] = b[i]
  <2>. SUFFICES ASSUME NEW i \in 1 .. k PROVE c[(n + m) + i] = b[i]
    OBVIOUS
  <2>1. /\ m + i \in 1 .. m + k /\ ~ (m + i <= m) /\ (m + i) - m = i
        /\ n + (m + i) = (n + m) + i
    OBVIOUS
  <2>2. d[m + i] = b[i]
    BY <1>4, <2>1
  <2>3. c[n + (m + i)] = d[m + i]
    BY <1>5, <2>1
  <2>. QED
    BY <2>1, <2>2, <2>3
<1>9. Ends(c, n + m, b)
  BY <1>2, <1>6, <1>8 DEF Ends
<1>. QED
  BY <1>1, <1>2, <1>6, <1>7, <1>9

LEMMA PutSent ==
    ASSUME DInv, Faithful, tn_xdr_write_to_stream
    PROVE  CInv'
<1>. DEFINE fits == stream.limit - stream.pos >= Len(Next1.arg)
<1>1. /\ phase = "writer" /\ todo # <<>> /\ Next1.type.name = "put"
      /\ \/ /\ fits
            /\ mem' = Overwritten(Next1.arg)
            /\ stream' = tn_xdr_mem_writer(Next1.arg, stream.pos + Len(Next1.arg))
            /\ Becomes(<<>>, <<>>)
         \/ ~fits /\ Fails("ENOSPC") /\ UNCHANGED <<mem, stream>>
  BY DEF tn_xdr_write_to_stream, Doing, Faithful
<1>2. PICK W, value, y, rest : Puts(W, value, y, rest)
  BY <1>1, PutNext
<1>3. /\ Leads(W, value, y) /\ part = y.values
      /\ rest \in Seq(Byte) /\ Next1.arg \in Seq(Byte)
      /\ Ends(y.bytes, stream.pos - start, Next1.arg \o rest)
      /\ \/ rest = <<>> /\ Tail(todo) = y.calls
         \/ Tail(todo) = <<Put(rest)>> \o y.calls
  BY <1>2 DEF Puts
<1>4. /\ StreamOK /\ stream.limit \in Nat /\ stream.pos \in Nat
      /\ stream.pos <= stream.limit /\ stream.data = stream.pos
      /\ start \in Nat /\ start <= stream.pos /\ Ledger /\ part \in Seq(Seq(Int))
  BY <1>1, Waited, WriterAt
<1>. DEFINE bytes == Next1.arg
<1>5. PICK n \in Nat : n = stream.pos - start
  BY <1>4
<1>6. PICK b \in Seq(Byte) : b = Next1.arg
  BY <1>3
<1>7. /\ Len(b) \in Nat /\ Len(rest) \in Nat /\ Len(y.bytes) = n + Len(b) + Len(rest)
      /\ \A i \in 1 .. Len(b) : y.bytes[n + i] = b[i]
      /\ Ends(y.bytes, n + Len(b), rest)
  <2>1. Ends(y.bytes, n, b \o rest)
    BY <1>3, <1>5, <1>6
  <2>2. rest \in Seq(Byte)
    BY <1>3
  <2>. QED
    BY <2>1, <2>2, EndsInParts
<1>8. CASE ~fits /\ Fails("ENOSPC") /\ UNCHANGED <<mem, stream>>
  <2>1. ~ (stream.limit - stream.pos >= Len(b))
    BY <1>6, <1>8
  <2>2. stream.pos < start + Len(y.bytes)
    <3>1. \A limit, pos, from, len, more, all, before \in Int :
              /\ ~ (limit - pos >= len) /\ pos <= limit /\ before = pos - from
              /\ all = before + len + more /\ more >= 0
              => pos < from + all
      OBVIOUS
    <3>2. /\ stream.limit \in Int /\ stream.pos \in Int /\ start \in Int /\ Len(b) \in Int
          /\ Len(rest) \in Int /\ n \in Int /\ Len(rest) >= 0
      BY <1>4, <1>7
    <3>3. Len(y.bytes) \in Int /\ Len(y.bytes) = n + Len(b) + Len(rest)
      BY <1>7, <3>2
    <3>4. stream.pos <= stream.limit /\ n = stream.pos - start
      BY <1>4, <1>5
    <3>. QED
      BY <2>1, <3>1, <3>2, <3>3, <3>4
  <2>3. Fails("ENOSPC") /\ UNCHANGED <<mem, stream>> /\ "ENOSPC" # "OK"
    BY <1>8
  <2>4. stream.pos <= start + Len(y.bytes) /\ stream.pos # start + Len(y.bytes)
    BY <1>4, <1>7, <2>2
  <2>. QED
    BY <1>1, <1>3, <2>3, <2>4, WriterFails
<1>9. CASE /\ fits
           /\ mem' = Overwritten(Next1.arg)
           /\ stream' = tn_xdr_mem_writer(Next1.arg, stream.pos + Len(Next1.arg))
           /\ Becomes(<<>>, <<>>)
  <2>1. /\ stream.limit - stream.pos >= Len(b)
        /\ mem' = Overwritten(b)
        /\ stream' = tn_xdr_mem_writer(b, stream.pos + Len(b))
    BY <1>6, <1>9
  <2>2. /\ todo' = <<>> \o Tail(todo) /\ part' = part \o <<>>
        /\ UNCHANGED <<phase, call, start, peer, script, sent, acked, wire, received>>
    BY <1>9 DEF Becomes, Allocates
  <2>3. \A i \in 1 .. stream.pos : mem'[i] = mem[i]
    BY <1>4, <2>1, <2>2, Writing
  <2>4. stream'.pos = stream.pos + Len(b)
    BY <1>4, <2>1 DEF tn_xdr_mem_writer, StreamOK
  <2>5. part' = part
    BY <1>4, <2>2, ConcatEmptySeq
  <2>6. todo' = Tail(todo)
    <3>1. Tail(todo) \in Seq(Waiting)
      BY <1>1, HeadTailProperties DEF DInv, IInv
    <3>. QED
      BY <2>2, <3>1, ConcatEmptySeq
  <2>7. Ledger'
    <3>1. \A k \in 1 .. Len(sent) :
              /\ sent[k].end <= stream.pos
              /\ Told(mem, script[k], EndOf(k - 1), sent[k], k <= acked)
      BY <1>1, <1>4 DEF Ledger, Written
    <3>2. ASSUME NEW k \in 1 .. Len(sent)
          PROVE  /\ sent[k].end <= stream'.pos
                 /\ Told(mem', script[k], EndOf(k - 1), sent[k], k <= acked)
      <4>1. sent[k].end \in Nat
        <5>1. sent[k] \in Items
          BY <1>4, ElementOfSeq DEF Ledger
        <5>. QED
          BY <5>1 DEF Items
      <4>2. \A i \in 1 .. sent[k].end : i \in 1 .. stream.pos
        BY <1>4, <3>1, <4>1
      <4>3. \A i \in 1 .. sent[k].end : mem'[i] = mem[i]
        BY <2>3, <4>2
      <4>4. sent[k].end <= stream.pos + Len(b)
        BY <1>4, <1>7, <3>1, <4>1
      <4>5. Told(mem, script[k], EndOf(k - 1), sent[k], k <= acked)
        BY <3>1
      <4>6. Told(mem', script[k], EndOf(k - 1), sent[k], k <= acked)
        BY <4>3, <4>5, ToldStill
      <4>. QED
        BY <2>4, <4>4, <4>6
    <3>3. (\A k \in 1 .. Len(sent) :
               /\ sent[k].end <= Written
               /\ Told(mem, script[k], EndOf(k - 1), sent[k], k <= acked))'
      BY <1>1, <2>2, <3>2 DEF Written, EndOf
    <3>. QED
      BY <1>4, <2>2, <3>3 DEF Ledger
  <2>8. \A i \in 1 .. stream'.pos - start : mem'[start + i] = y.bytes[i]
    <3>. SUFFICES ASSUME NEW i \in 1 .. stream'.pos - start
                  PROVE  mem'[start + i] = y.bytes[i]
      OBVIOUS
    <3>1. i \in Nat /\ i \in 1 .. n + Len(b)
      BY <1>4, <1>5, <1>7, <2>4
    <3>2. CASE i <= n
      <4>1. i \in 1 .. stream.pos - start /\ start + i \in 1 .. stream.pos
        BY <1>4, <1>5, <3>1, <3>2
      <4>2. mem[start + i] = y.bytes[i]
        BY <1>3, <4>1 DEF Leads
      <4>. QED
        BY <2>3, <4>1, <4>2
    <3>3. CASE i > n
      <4>1. PICK j \in 1 .. Len(b) : i = n + j
        <5>1. i - n \in 1 .. Len(b) /\ i = n + (i - n)
          BY <1>7, <3>1, <3>3
        <5>. QED
          BY <5>1
      <4>2. start + i = stream.pos + j
        <5>1. start \in Nat /\ stream.pos \in Nat /\ n = stream.pos - start
          BY <1>4, <1>5
        <5>2. j \in Nat
          BY <1>7
        <5>. QED
          BY <4>1, <5>1, <5>2
      <4>3. mem'[stream.pos + j] = b[j]
        <5>1. stream.limit <= Limit /\ Limit \in Nat
          BY <1>4, XdrAssumption DEF StreamOK
        <5>2. stream.pos + j \in 1 .. Limit /\ (stream.pos + j) - stream.data = j
          <6>1. /\ stream.pos \in Nat /\ stream.limit \in Nat /\ stream.data = stream.pos
                /\ stream.limit - stream.pos >= Len(b)
            BY <1>4, <2>1
          <6>2. Len(b) \in Nat /\ j \in Nat /\ 1 <= j /\ j <= Len(b)
            BY <1>7
          <6>. QED
            BY <5>1, <6>1, <6>2
        <5>3. j \in DOMAIN b
          BY <1>6, LenProperties
        <5>. QED
          BY <2>1, <5>2, <5>3 DEF Overwritten
      <4>4. y.bytes[n + j] = b[j]
        BY <1>7
      <4>. QED
        BY <4>1, <4>2, <4>3, <4>4
    <3>. QED
      BY <1>5, <3>1, <3>2, <3>3
  <2>9. Putting(y)'
    <3>1. stream'.pos - start = n + Len(b)
      BY <1>4, <1>5, <1>7, <2>4
    <3>2. Ends(y.bytes, stream'.pos - start, rest)
      BY <1>7, <3>1
    <3>3. CASE rest = <<>> /\ Tail(todo) = y.calls
      <4>1. Len(rest) = 0
        BY <3>3, EmptySeq
      <4>2. stream'.pos = start + Len(y.bytes)
        BY <1>4, <1>5, <1>7, <2>4, <4>1
      <4>. QED
        BY <1>3, <2>2, <2>5, <2>6, <3>3, <4>2 DEF Putting
    <3>4. CASE Tail(todo) = <<Put(rest)>> \o y.calls
      <4>1. (\E a \in Seq(Byte) :
                 todo = <<Put(a)>> \o y.calls /\ Ends(y.bytes, stream.pos - start, a))'
        BY <1>3, <2>2, <2>6, <3>2, <3>4
      <4>2. (part = y.values)'
        BY <1>3, <2>5
      <4>. QED
        BY <4>1, <4>2 DEF Putting
    <3>. QED
      BY <1>3, <3>3, <3>4
  <2>10. Leads(W, value, y)'
    <3>1. start <= stream'.pos
      BY <1>4, <1>7, <2>4
    <3>2. value \in Values[call] /\ Run(W, First(call, value), y)
      BY <1>3 DEF Leads
    <3>. QED
      BY <2>2, <2>8, <2>9, <3>1, <3>2 DEF Leads
  <2>. QED
    BY <1>1, <2>2, <2>7, <2>10, SendingOn
<1>. QED
  BY <1>1, <1>8, <1>9

LEMMA LengthSent ==
    ASSUME DInv, EncodeLength
    PROVE  CInv'
<1>1. /\ phase = "writer" /\ todo # <<>> /\ Next1.type.name = "length"
      /\ UNCHANGED <<mem, stream>>
      /\ \/ Fails("EOVERFLOW") \/ Fails("ENOSPC")
         \/ Next1.arg <= WordMax /\ Becomes(<<Put(Word(Next1.arg))>>, <<>>)
  BY DEF EncodeLength, Doing
<1>2. PICK W, value, y : Leads(W, value, y)
  BY <1>1, Waited, WriterAt
<1>3. Counting(y)
  BY <1>1, <1>2, NextIs
<1>4. /\ y.calls # <<>> /\ Head(y.calls).type.name \in Counted
      /\ stream.pos = start + Len(y.bytes)
  BY <1>3 DEF Counting
<1>5. PICK n \in Nat, calls \in Seq(ItemCalls), values \in Seq(Seq(Int)) :
           /\ todo = <<Length(n)>> \o (calls \o Tail(y.calls))
           /\ part = y.values \o values
           /\ n <= WordMax => Expands(Head(y.calls), calls, values, Word(n))
  BY <1>3 DEF Counting
<1>6. Run(W, First(call, value), y) /\ y \in Stages
  BY <1>2 DEF Leads, Run
<1>7. Tail(y.calls) \in Seq(ItemCalls) /\ calls \o Tail(y.calls) \in Seq(ItemCalls)
  BY <1>4, <1>6, StepParts, ConcatProperties
<1>8. Next1 = Length(n) /\ Tail(todo) = calls \o Tail(y.calls)
  BY <1>5, <1>7, PushedAny DEF Next1
<1>9. Next1.arg = n
  BY <1>8, InternalCalls
<1>10. ASSUME NEW code \in {"EOVERFLOW", "ENOSPC"}, Fails(code) PROVE CInv'
  <2>1. code # "OK" /\ stream.pos <= start + Len(y.bytes)
    <3>1. stream.pos \in Nat
      BY <1>1, Waited, WriterAt
    <3>. QED
      BY <1>4, <3>1
  <2>. QED
    BY <1>1, <1>2, <1>4, <1>10, <2>1, WriterFails
<1>11. CASE Next1.arg <= WordMax /\ Becomes(<<Put(Word(Next1.arg))>>, <<>>)
  <2>. DEFINE w == Word(n)
  <2>1. Expands(Head(y.calls), calls, values, w)
    BY <1>5, <1>9, <1>11
  <2>2. /\ todo' = <<Put(w)>> \o (calls \o Tail(y.calls)) /\ part' = part \o <<>>
        /\ UNCHANGED <<phase, call, start, peer, script, sent, acked, wire, received>>
    BY <1>8, <1>9, <1>11 DEF Becomes, Allocates
  <2>. HIDE DEF w
  <2>3. PICK V, z : Reaches(V, First(call, value), y, z, calls, values, w)
    BY <1>4, <1>6, <2>1, Progress
  <2>4. /\ Run(V, First(call, value), z) /\ w \in Seq(Byte) /\ z.bytes = y.bytes \o w
        /\ z.calls = calls \o Tail(y.calls) /\ z.values = part
    BY <1>5, <2>3 DEF Reaches
  <2>5. part' = z.values
    <3>1. part \in Seq(Seq(Int))
      BY <1>1, Waited, WriterAt
    <3>. QED
      BY <2>2, <2>4, <3>1, ConcatEmptySeq
  <2>6. StillPuts(todo', z, w)
    BY <2>2, <2>4 DEF StillPuts
  <2>. QED
    BY <1>1, <1>2, <1>4, <2>2, <2>4, <2>5, <2>6, Entering
<1>. QED
  BY <1>1, <1>10, <1>11

LEMMA EncodingSent ==
    ASSUME DInv, Faithful, Encoding
    PROVE  CInv'
BY PutSent, WordSent, WideSent, SmallSent, VoidSent, LengthSent, BytesSent, VarBytesSent,
   ArraySent, VarArraySent, StructSent, UnionSent DEF Encoding

LEMMA EncodeSent ==
    ASSUME DInv, Faithful, NEW m \in Messages, Encode(m)
    PROVE  CInv'
<1>1. /\ phase = "writer" /\ call = NULL /\ (rc = "OK" \/ stream.pos = start)
      /\ call' = m.type /\ todo' = <<Call(m.type, m.value)>>
      /\ start' = stream.pos /\ peer' = m.as
      /\ UNCHANGED <<mem, stream, phase, rc, part, script, sent, acked, wire, received>>
  BY DEF Encode, MayCall
<1>2. TypeOK /\ Ledger /\ Between /\ Arrived
  BY DEF DInv, IInv, CInv
<1>3. m.type \in Types /\ m.value \in Values[m.type] /\ m.as = m.type /\ m.type # NULL
  BY TypesAssumption DEF Faithful
<1>4. stream.pos = EndOf(Len(sent)) /\ acked = Len(sent) /\ part = <<>> /\ stream.pos \in Nat
  BY <1>1, <1>2, NothingWaiting DEF Between, TypeOK
<1>5. PICK first \in Stages :
          /\ first = First(m.type, m.value)
          /\ first.calls = <<Call(m.type, m.value)>> /\ first.values = <<>>
          /\ Len(first.bytes) = 0
  BY <1>3, FirstStage
<1>6. Run({first}, first, first)
  BY Starting
<1>7. Leads({first}, m.value, first)'
  <2>1. Putting(first)'
    <3>1. stream.pos = stream.pos + Len(first.bytes)
      BY <1>4, <1>5
    <3>. QED
      BY <1>1, <1>4, <1>5, <3>1 DEF Putting
  <2>2. \A i \in 1 .. stream.pos - stream.pos : mem[stream.pos + i] = first.bytes[i]
    BY <1>4
  <2>3. stream.pos <= stream.pos
    BY <1>4
  <2>. QED
    BY <1>1, <1>3, <1>5, <1>6, <2>1, <2>2, <2>3 DEF Leads
<1>8. Sending'
  <2>1. (start = EndOf(Len(sent)) /\ acked = Len(sent) /\ call \in Types /\ peer = call)'
    BY <1>1, <1>3, <1>4 DEF EndOf
  <2>2. (\E V, v, z : Leads(V, v, z))'
    BY <1>7
  <2>. QED
    BY <2>1, <2>2 DEF Sending
<1>9. Ledger'
  BY <1>1, <1>2, SameLedger
<1>10. Between' /\ Receiving' /\ Arrived' /\ Decodable'
  BY <1>1, <1>2, <1>3 DEF Between, Receiving, Arrived, Decodable
<1>. QED
  BY <1>8, <1>9, <1>10 DEF CInv

LEMMA InitDInv == Init => DInv
<1>. SUFFICES ASSUME Init PROVE DInv
  OBVIOUS
<1>1. IInv
  BY InitInv
<1>2. /\ phase = "writer" /\ call = NULL /\ rc = "OK" /\ script = <<>> /\ sent = <<>>
      /\ acked = 0 /\ received = <<>> /\ stream = [pos |-> 0, data |-> 0, limit |-> Limit]
  BY DEF Init
<1>3. Len(sent) = 0 /\ sent \in Seq(Items)
  BY <1>2, EmptySeq
<1>4. Ledger /\ Between
  BY <1>2, <1>3 DEF Ledger, Between, EndOf
<1>5. Sending /\ Receiving /\ Arrived /\ Decodable
  BY <1>2 DEF Sending, Receiving, Arrived, Decodable
<1>. QED
  BY <1>1, <1>4, <1>5 DEF DInv, CInv

LEMMA NextDInv ==
    ASSUME Faithful, DInv, [Next]_vars
    PROVE  DInv'
<1>1. IInv'
  BY NextInv DEF DInv
<1>2. CInv'
  <2>1. CASE Encoding
    BY <2>1, EncodingSent
  <2>2. CASE Decoding
    BY <2>2, DecodingFollows
  <2>3. CASE \E m \in Messages : Encode(m)
    BY <2>3, EncodeSent
  <2>4. CASE HandOver
    BY <2>4, HandOverFollows
  <2>5. CASE Decode
    BY <2>5, DecodeFollows
  <2>6. CASE Succeeds
    <3>1. phase \in {"writer", "reader"}
      BY DEF DInv, IInv, TypeOK
    <3>. QED
      BY <2>6, <3>1, SucceedingFollows, SuccessSent
  <2>7. CASE UNCHANGED vars
    <3>1. CInv
      BY DEF DInv
    <3>2. UNCHANGED <<mem, stream, phase, call, todo, rc, objects, start, peer, part,
                      script, sent, acked, wire, received>>
      BY <2>7 DEF vars
    <3>3. Ledger' /\ Between' /\ Arrived'
      BY <3>1, <3>2 DEF CInv, Ledger, Written, EndOf, Between, Arrived
    <3>4. Sending'
      BY <3>1, <3>2 DEF CInv, Sending, EndOf, Leads, Putting, Counting
    <3>5. Receiving'
      BY <3>1, <3>2 DEF CInv, Receiving, EndOf, Current, Follows
    <3>6. OnlyWords => Decodable'
      BY <3>1, <3>2 DEF CInv, Decodable
    <3>. QED
      BY <3>3, <3>4, <3>5, <3>6 DEF CInv, OnlyWords
  <2>. QED
    BY <2>1, <2>2, <2>3, <2>4, <2>5, <2>6, <2>7 DEF Next
<1>. QED
  BY <1>1, <1>2 DEF DInv

LEMMA SpecDInv ==
    ASSUME Faithful
    PROVE  Spec => []DInv
BY InitDInv, NextDInv, PTL DEF Spec

-----------------------------------------------------------------------------
(* What the peers of a stream can rely on.                                 *)

\* If all that is encoded is of whole words, what encoded successfully and
\* arrived whole is decoded: no decoder of xdr.c refuses what its encoder wrote,
\* whatever the types, their nesting, the values and the bytes they make.
THEOREM EncodedIsDecodable ==
    ASSUME Faithful, OnlyWords
    PROVE  Spec => []Decodable
<1>1. DInv => Decodable
  BY DEF DInv, CInv
<1>. QED
  BY <1>1, SpecDInv, PTL

\* What a step of a call records: what was encoded of an item, if it fails.
LEMMA CallRecords ==
    ASSUME Encoding \/ Decoding
    PROVE  UNCHANGED received /\ (Writes \/ UNCHANGED sent)
<1>1. \A to, calls, values : Allocates(to, calls, values) => UNCHANGED <<sent, received>>
  BY DEF Allocates
<1>2. \A calls, values : Becomes(calls, values) => UNCHANGED <<sent, received>>
  BY <1>1 DEF Becomes
<1>3. \A code : Fails(code) => UNCHANGED received /\ (Writes \/ UNCHANGED sent)
  BY DEF Fails
<1>4. CASE tn_xdr_write_to_stream
  BY <1>2, <1>3, <1>4 DEF tn_xdr_write_to_stream
<1>5. CASE EncodeWord \/ EncodeWide \/ EncodeSmall \/ EncodeVoid
  BY <1>2, <1>5 DEF EncodeWord, EncodeWide, EncodeSmall, EncodeVoid
<1>6. CASE EncodeLength
  BY <1>2, <1>3, <1>6 DEF EncodeLength
<1>7. CASE EncodeBytes \/ EncodeVarBytes \/ EncodeArray \/ EncodeVarArray
  BY <1>2, <1>7 DEF EncodeBytes, EncodeVarBytes, EncodeArray, EncodeVarArray
<1>8. CASE EncodeStruct \/ EncodeUnion
  BY <1>2, <1>8 DEF EncodeStruct, EncodeUnion
<1>9. CASE DecodeShort
  BY <1>3, <1>9 DEF DecodeShort
<1>10. CASE DecodeWord \/ DecodeHigh \/ DecodeLow \/ DecodeVoid \/ DecodeBytes
  BY <1>2, <1>10 DEF DecodeWord, DecodeHigh, DecodeLow, DecodeVoid, DecodeBytes
<1>11. CASE DecodeSmall
  BY <1>2, <1>3, <1>11 DEF DecodeSmall
<1>12. CASE DecodeBlob \/ DecodeStore \/ DecodeArray \/ DecodeStruct
  BY <1>2, <1>12 DEF DecodeBlob, DecodeStore, DecodeArray, DecodeStruct
<1>13. CASE DecodePad \/ DecodeUnion
  BY <1>2, <1>3, <1>13 DEF DecodePad, DecodeUnion
<1>14. CASE DecodeVarBytes
  BY <1>1, <1>2, <1>3, <1>14 DEF DecodeVarBytes
<1>15. CASE DecodeCString
  BY <1>1, <1>3, <1>15 DEF DecodeCString
<1>16. CASE DecodeVarArray
  <2>1. \A n, scanned, unread : ArrayOf(n, scanned, unread) => UNCHANGED <<sent, received>>
    BY <1>1 DEF ArrayOf, ArrayIn
  <2>. QED
    BY <1>16, <2>1 DEF DecodeVarArray
<1>. QED
  BY <1>4, <1>5, <1>6, <1>7, <1>8, <1>9, <1>10, <1>11, <1>12, <1>13, <1>14, <1>15, <1>16
     DEF Encoding, Decoding

LEMMA StepRecords ==
    ASSUME [Next]_vars
    PROVE  \/ UNCHANGED <<sent, received>>
           \/ Writes /\ UNCHANGED received
           \/ Succeeds /\ phase # "writer"
<1>1. CASE Encoding \/ Decoding
  BY <1>1, CallRecords
<1>2. CASE (\E m \in Messages : Encode(m)) \/ HandOver \/ Decode
  BY <1>2 DEF Encode, HandOver, Decode
<1>3. CASE Succeeds
  BY <1>3 DEF Succeeds
<1>4. CASE UNCHANGED vars
  BY <1>4 DEF vars
<1>. QED
  BY <1>1, <1>2, <1>3, <1>4 DEF Next

\* To put an item on the channel is to send it.
LEMMA WritingSends ==
    ASSUME DInv, Writes, UNCHANGED received
    PROVE  Channel!Send
<1>1. TypeOK /\ Ledger
  BY DEF DInv, IInv, CInv
<1>2. Item \in Items
  BY <1>1, XdrAssumption DEF TypeOK, Item, Items
<1>3. PICK s \in Seq(Items) : s = sent
  BY <1>1 DEF Ledger
<1>4. PICK t \in Seq(Items) : t = Append(s, Item)
  BY <1>2, AppendProperties
<1>5. PICK n \in Nat : n = Len(s)
  BY LenProperties
<1>6. Len(t) = n + 1 /\ t[n + 1] = Item /\ \A i \in 1 .. n : t[i] = s[i]
  BY <1>2, <1>4, <1>5, AppendProperties
<1>7. SubSeq(t, 1, n) = s
  <2>. DEFINE r == SubSeq(t, 1, n)
  <2>1. /\ r \in Seq(Items) /\ Len(r) = IF 1 <= n THEN n - 1 + 1 ELSE 0
        /\ \A i \in 1 .. n - 1 + 1 : r[i] = t[1 + i - 1]
    BY <1>6, PartOfSeq
  <2>. HIDE DEF r
  <2>2. Len(r) = n /\ n - 1 + 1 = n
    BY <2>1
  <2>3. \A i \in 1 .. n : 1 + i - 1 = i
    OBVIOUS
  <2>4. \A i \in 1 .. n : r[i] = s[i]
    BY <1>6, <2>1, <2>2, <2>3
  <2>. QED
    BY <1>5, <2>1, <2>2, <2>4, SeqEqual DEF r
<1>8. sent' = t
  BY <1>3, <1>4 DEF Writes
<1>9. Len(t) - 1 = n
  BY <1>6
<1>10. Len(sent') = Len(sent) + 1
  BY <1>3, <1>5, <1>6, <1>8
<1>11. Channel!Front(sent') = sent
  BY <1>3, <1>7, <1>8, <1>9 DEF Channel!Front
<1>12. Channel!Last(sent') = Item
  BY <1>6, <1>8 DEF Channel!Last
<1>. QED
  BY <1>2, <1>10, <1>11, <1>12 DEF Channel!Send, Items

\* A decoder that returns 0 receives the next item.
LEMMA SucceedingReceives ==
    ASSUME DInv, Succeeds, phase # "writer"
    PROVE  Channel!Receive
<1>1. /\ phase = "reader" /\ call # NULL /\ todo = <<>>
      /\ received' = Append(received, Item) /\ UNCHANGED sent
  BY DEF Succeeds, DInv, IInv, TypeOK
<1>2. Len(received) < Len(sent) /\ Item = sent[Len(received) + 1]
  BY <1>1, Delivered DEF Current
<1>. QED
  BY <1>1, <1>2 DEF Channel!Receive

\* xdr.c implements a channel of typed items: it delivers whole items, in order,
\* as they were encoded, and what fails (no room, a message cut short) delivers
\* nothing in their place.
THEOREM ChannelRefinement ==
    ASSUME Faithful
    PROVE  Spec => Delivery
<1>1. Init => Channel!Init
  BY DEF Init, Channel!Init
<1>2. ASSUME DInv, [Next]_vars
      PROVE  [Channel!Next]_(Channel!vars)
  <2>1. CASE UNCHANGED <<sent, received>>
    BY <2>1 DEF Channel!vars
  <2>2. CASE Writes /\ UNCHANGED received
    BY <1>2, <2>2, WritingSends DEF Channel!Next
  <2>3. CASE Succeeds /\ phase # "writer"
    BY <1>2, <2>3, SucceedingReceives DEF Channel!Next
  <2>. QED
    BY <1>2, <2>1, <2>2, <2>3, StepRecords
<1>. QED
  BY <1>1, <1>2, SpecDInv, PTL DEF Spec, Delivery, Channel!Spec
=============================================================================
