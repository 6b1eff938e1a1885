--------------------------- MODULE SequenceLemmas ---------------------------
(***************************************************************************)
(* Facts about naturals, minima and sequences that the proofs about Xdr    *)
(* and DString need and the libraries do not state.                        *)
(***************************************************************************)
EXTENDS Integers, SequencesExt, FiniteSetsExt, SequenceTheorems,
        WellFoundedInduction, TLAPS

\* A set of naturals has a least one: what induction on naturals comes to when
\* the formula is stated as a set.
LEMMA LeastNatural ==
    ASSUME NEW S \in SUBSET Nat, S # {}
    PROVE  \E n \in S : \A m \in S : n <= m
<1>1. PICK n \in S : \A m \in S : <<m, n>> \notin OpToRel(<, Nat)
  BY WFMin, NatLessThanWellFounded
<1>2. \A m \in S : ~ (m < n)
  BY <1>1 DEF OpToRel
<1>. QED
  BY <1>2

\* A set that has 0 and with every natural the next has all of them.
LEMMA AllNaturals ==
    ASSUME NEW S \in SUBSET Nat,
           0 \in S,
           \A n \in S : n + 1 \in S
    PROVE  S = Nat
<1>1. SUFFICES ASSUME Nat \ S # {} PROVE FALSE
  OBVIOUS
<1>2. PICK n \in Nat \ S : \A m \in Nat \ S : n <= m
  <2>. DEFINE T == Nat \ S
  <2>1. T \in SUBSET Nat /\ T # {}
    BY <1>1
  <2>. HIDE DEF T
  <2>2. \E n \in T : \A m \in T : n <= m
    BY <2>1, LeastNatural
  <2>. QED
    BY <2>2 DEF T
<1>3. n # 0
  BY <1>2
<1>4. n - 1 \in Nat /\ n - 1 + 1 = n /\ ~ (n <= n - 1)
  BY <1>2, <1>3
<1>5. n - 1 \in S
  BY <1>2, <1>4
<1>. QED
  BY <1>2, <1>4, <1>5

LEMMA LeastOf ==
    ASSUME NEW S \in SUBSET Nat, S # {}
    PROVE  Min(S) \in S /\ \A m \in S : Min(S) <= m
<1>1. \E n \in S : \A m \in S : n <= m
  BY LeastNatural
<1>. QED
  BY <1>1 DEF Min

\* What holds at first and of every element after one of which it holds.
LEMMA Along ==
    ASSUME NEW n \in Nat, NEW S, NEW f,
           f[0] \in S,
           \A i \in 1 .. n : f[i - 1] \in S => f[i] \in S
    PROVE  \A i \in 0 .. n : f[i] \in S
<1>. DEFINE T == {i \in Nat : i <= n => f[i] \in S}
<1>1. ASSUME NEW i \in T PROVE i + 1 \in T
  <2>1. i + 1 <= n => i + 1 \in 1 .. n /\ (i + 1) - 1 = i
    OBVIOUS
  <2>. QED
    BY <2>1
<1>2. T \in SUBSET Nat /\ 0 \in T
  OBVIOUS
<1>. HIDE DEF T
<1>3. T = Nat
  BY <1>1, <1>2, AllNaturals
<1>. QED
  BY <1>3 DEF T

\* What a loop of n turns computes, each an element of S of the one before it.
Loops(n, S, first, step) ==
    {f \in [0 .. n -> S] :
        \A i \in 0 .. n : f[i] = IF i = 0 THEN first ELSE step[<<i, f[i - 1]>>]}

LEMMA LoopComputes ==
    ASSUME NEW n \in Nat, NEW S, NEW first \in S, NEW step \in [(1 .. n) \X S -> S]
    PROVE  \E f : f \in Loops(n, S, first, step)
<1>. DEFINE Loop(f, m) ==
                \A i \in 0 .. m : f[i] = IF i = 0 THEN first ELSE step[<<i, f[i - 1]>>]
            Runs(m) == \E f \in [0 .. m -> S] : Loop(f, m)
            T == {m \in Nat : m <= n => Runs(m)}
<1>1. Runs(0)
  <2>. DEFINE f == [i \in 0 .. 0 |-> first]
  <2>1. f \in [0 .. 0 -> S] /\ Loop(f, 0)
    OBVIOUS
  <2>. QED
    BY <2>1
<1>2. ASSUME NEW m \in Nat, m + 1 <= n, Runs(m) PROVE Runs(m + 1)
  <2>1. PICK f \in [0 .. m -> S] : Loop(f, m)
    BY <1>2
  <2>. DEFINE next == step[<<m + 1, f[m]>>]
              g == [i \in 0 .. m + 1 |-> IF i = m + 1 THEN next ELSE f[i]]
  <2>2. next \in S
    <3>1. m \in 0 .. m /\ m + 1 \in 1 .. n
      BY <1>2
    <3>2. <<m + 1, f[m]>> \in (1 .. n) \X S
      BY <3>1
    <3>. QED
      BY <3>2
  <2>3. ASSUME NEW i \in 0 .. m + 1, i # m + 1 PROVE i \in 0 .. m
    BY <2>3
  <2>4. g \in [0 .. m + 1 -> S]
    <3>. HIDE DEF next
    <3>. QED
      BY <2>2, <2>3
  <2>5. ASSUME NEW i \in 0 .. m + 1
        PROVE  g[i] = IF i = 0 THEN first ELSE step[<<i, g[i - 1]>>]
    <3>1. i # 0 => i - 1 \in 0 .. m /\ i - 1 \in 0 .. m + 1 /\ i - 1 # m + 1
      OBVIOUS
    <3>2. i # 0 => g[i - 1] = f[i - 1]
      BY <3>1
    <3>3. CASE i # m + 1
      <4>1. g[i] = f[i] /\ i \in 0 .. m
        BY <2>3, <3>3
      <4>. QED
        BY <2>1, <3>2, <4>1
    <3>4. CASE i = m + 1
      <4>1. g[i] = next /\ i # 0 /\ i - 1 = m
        BY <3>4
      <4>. QED
        BY <3>2, <3>4, <4>1
    <3>. QED
      BY <3>3, <3>4
  <2>6. Loop(g, m + 1)
    BY <2>5
  <2>. HIDE DEF g, Loop
  <2>. QED
    BY <2>4, <2>6
<1>. HIDE DEF Runs
<1>3. T \in SUBSET Nat /\ 0 \in T /\ \A m \in T : m + 1 \in T
  BY <1>1, <1>2
<1>. HIDE DEF T
<1>4. T = Nat
  BY <1>3, AllNaturals
<1>5. Runs(n)
  BY <1>4 DEF T
<1>. QED
  BY <1>5 DEF Runs, Loops

\* Tuples.
LEMMA OneAndTwo ==
    /\ \A S : \A x \in S : <<x>> \in Seq(S) /\ Len(<<x>>) = 1
    /\ \A S : \A x, y \in S : <<x, y>> \in Seq(S) /\ Len(<<x, y>>) = 2
OBVIOUS

\* A function on 1 .. n is a sequence of n elements.
LEMMA FunctionIsSeq ==
    ASSUME NEW S, NEW n \in Nat, NEW f \in [1 .. n -> S]
    PROVE  f \in Seq(S) /\ Len(f) = n
OBVIOUS

\* Replacing the first element of a sequence by others.
LEMMA Replaced ==
    ASSUME NEW S, NEW new \in Seq(S), NEW s \in Seq(S), s # <<>>
    PROVE  /\ new \o Tail(s) \in Seq(S)
           /\ \A i \in DOMAIN (new \o Tail(s)) :
                  \/ \E j \in DOMAIN new : (new \o Tail(s))[i] = new[j]
                  \/ \E j \in DOMAIN s : (new \o Tail(s))[i] = s[j]
<1>1. /\ Tail(s) \in Seq(S)
      /\ Len(Tail(s)) = Len(s) - 1
      /\ \A i \in 1 .. Len(Tail(s)) : Tail(s)[i] = s[i + 1]
  BY HeadTailProperties
<1>2. /\ Len(s) \in Nat \ {0} /\ DOMAIN s = 1 .. Len(s)
      /\ Len(new) \in Nat /\ DOMAIN new = 1 .. Len(new)
  BY EmptySeq, LenProperties
<1>3. /\ new \o Tail(s) \in Seq(S)
      /\ Len(new \o Tail(s)) = Len(new) + Len(Tail(s))
      /\ \A i \in 1 .. Len(new) + Len(Tail(s)) :
             (new \o Tail(s))[i] = IF i <= Len(new) THEN new[i] ELSE Tail(s)[i - Len(new)]
  BY <1>1, ConcatProperties
<1>4. DOMAIN (new \o Tail(s)) = 1 .. Len(new) + Len(Tail(s))
  BY <1>3, LenProperties
<1>5. ASSUME NEW i \in 1 .. Len(new) + Len(Tail(s)), ~ i <= Len(new)
      PROVE  (new \o Tail(s))[i] = s[i - Len(new) + 1] /\ i - Len(new) + 1 \in DOMAIN s
  <2>1. i - Len(new) \in 1 .. Len(Tail(s)) /\ i - Len(new) + 1 \in 1 .. Len(s)
    BY <1>1, <1>2, <1>5
  <2>. QED
    BY <1>1, <1>2, <1>3, <1>5, <2>1
<1>6. ASSUME NEW i \in 1 .. Len(new) + Len(Tail(s)), i <= Len(new)
      PROVE  (new \o Tail(s))[i] = new[i] /\ i \in DOMAIN new
  BY <1>2, <1>3, <1>6
<1>. QED
  BY <1>3, <1>4, <1>5, <1>6

\* Part of a sequence, which may be empty.
LEMMA PartOfSeq ==
    ASSUME NEW S, NEW s \in Seq(S), NEW m \in Nat \ {0}, NEW n \in 0 .. Len(s)
    PROVE  /\ SubSeq(s, m, n) \in Seq(S)
           /\ Len(SubSeq(s, m, n)) = IF m <= n THEN n - m + 1 ELSE 0
           /\ \A i \in 1 .. n - m + 1 : SubSeq(s, m, n)[i] = s[m + i - 1]
<1>1. Len(s) \in Nat /\ \A i \in 1 .. Len(s) : s[i] \in S
  BY LenProperties, ElementOfSeq
<1>2. m \in Int /\ n \in Int /\ \A i \in m .. n : s[i] \in S
  BY <1>1
<1>. QED
  BY <1>2, SubSeqProperties

\* len elements of a sequence after the first off.
Part(s, off, len) == SubSeq(s, off + 1, off + len)

LEMMA PartIs ==
    ASSUME NEW S, NEW s \in Seq(S), NEW off \in Nat, NEW len \in Nat, off + len <= Len(s)
    PROVE  /\ Part(s, off, len) \in Seq(S)
           /\ Len(Part(s, off, len)) = len
           /\ \A i \in 1 .. len : Part(s, off, len)[i] = s[off + i] /\ off + i \in 1 .. Len(s)
<1>. DEFINE m == off + 1
            n == off + len
<1>1. Len(s) \in Nat
  BY LenProperties
<1>2. m \in Nat \ {0} /\ n \in 0 .. Len(s)
  BY <1>1
<1>3. n - m + 1 = len /\ (IF m <= n THEN n - m + 1 ELSE 0) = len
  OBVIOUS
<1>4. \A i \in 1 .. len : m + i - 1 = off + i /\ off + i \in 1 .. Len(s)
  BY <1>1
<1>5. Part(s, off, len) = SubSeq(s, m, n)
  BY DEF Part
<1>. HIDE DEF m, n
<1>. QED
  BY <1>2, <1>3, <1>4, <1>5, PartOfSeq

LEMMA PartOfPart ==
    ASSUME NEW S, NEW s \in Seq(S), NEW off \in Nat, NEW n \in Nat, off + n <= Len(s),
           NEW from \in Nat, NEW len \in Nat, from + len <= n
    PROVE  Part(Part(s, off, n), from, len) = Part(s, off + from, len)
<1>. DEFINE s1 == Part(s, off, n)
            t == Part(s1, from, len)
            at == off + from
            u == Part(s, at, len)
<1>1. s1 \in Seq(S) /\ Len(s1) = n /\ \A i \in 1 .. n : s1[i] = s[off + i]
  BY PartIs
<1>. HIDE DEF s1
<1>2. t \in Seq(S) /\ Len(t) = len
      /\ \A i \in 1 .. len : t[i] = s1[from + i] /\ from + i \in 1 .. n
  <2>1. from + len <= Len(s1)
    BY <1>1
  <2>2. t \in Seq(S) /\ Len(t) = len
        /\ \A i \in 1 .. len : t[i] = s1[from + i] /\ from + i \in 1 .. Len(s1)
    BY <1>1, <2>1, PartIs, ZenonT(30)
  <2>. QED
    BY <1>1, <2>2
<1>3. at \in Nat /\ at + len <= Len(s)
  BY LenProperties
<1>. HIDE DEF at
<1>4. u \in Seq(S) /\ Len(u) = len /\ \A i \in 1 .. len : u[i] = s[at + i]
  <2>1. ASSUME NEW o \in Nat, o + len <= Len(s)
        PROVE  /\ Part(s, o, len) \in Seq(S) /\ Len(Part(s, o, len)) = len
               /\ \A i \in 1 .. len : Part(s, o, len)[i] = s[o + i]
    BY <2>1, PartIs, ZenonT(30)
  <2>. QED
    BY <1>3, <2>1
<1>. HIDE DEF t, u
<1>5. \A i \in 1 .. len : off + (from + i) = at + i
  BY DEF at
<1>6. \A i \in 1 .. len : t[i] = u[i]
  BY <1>1, <1>2, <1>4, <1>5
<1>7. t = u
  BY <1>2, <1>4, <1>6, SeqEqual
<1>. QED
  BY <1>7 DEF s1, t, u, at

\* Two computations that begin and go on alike.
Alike(n, f, g) ==
    f[0] = g[0] /\ \A i \in 1 .. n : f[i - 1] = g[i - 1] => f[i] = g[i]

LEMMA AlikeAgree ==
    ASSUME NEW n \in Nat, NEW f, NEW g, Alike(n, f, g)
    PROVE  (\A i \in 0 .. n : f[i] = g[i]) /\ f[n] = g[n]
<1>. USE DEF Alike
<1>. DEFINE T == {i \in Nat : i <= n => f[i] = g[i]}
<1>1. ASSUME NEW i \in T PROVE i + 1 \in T
  <2>1. i + 1 <= n => i + 1 \in 1 .. n /\ (i + 1) - 1 = i
    OBVIOUS
  <2>. QED
    BY <2>1
<1>2. T \in SUBSET Nat /\ 0 \in T
  OBVIOUS
<1>. HIDE DEF T
<1>3. T = Nat
  BY <1>1, <1>2, AllNaturals
<1>. QED
  BY <1>3 DEF T

\* The concatenation of a sequence of sequences, one after the other.
Concatenations(n, S, seqs) ==
    {f \in [0 .. n -> Seq(S)] :
        f[0] = <<>> /\ \A i \in 1 .. n : f[i] = f[i - 1] \o seqs[i]}

LEMMA Flattening ==
    ASSUME NEW S, NEW seqs \in Seq(Seq(S)), NEW n \in Nat, Len(seqs) = n
    PROVE  /\ \E f : f \in Concatenations(n, S, seqs)
           /\ \A f \in Concatenations(n, S, seqs) : FlattenSeq(seqs) = f[n]
<1>. DEFINE T == Seq(S)
            step == [p \in (1 .. n) \X T |-> p[2] \o seqs[p[1]]]
            F(g) == [i \in 1 .. n |-> IF i = 1 THEN seqs[i] ELSE g[i - 1] \o seqs[i]]
<1>1. <<>> \in T /\ \A i \in 1 .. n : seqs[i] \in T
  <2>. HIDE DEF T
  <2>. QED
    BY EmptySeq, ElementOfSeq DEF T
<1>2. \E f : f \in Concatenations(n, S, seqs)
  <2>1. step \in [(1 .. n) \X T -> T]
    <3>1. ASSUME NEW p \in (1 .. n) \X T PROVE p[2] \o seqs[p[1]] \in T
      <4>1. p[2] \in T /\ seqs[p[1]] \in T
        OBVIOUS
      <4>. QED
        BY <4>1, ConcatProperties
    <3>. QED
      BY <3>1
  <2>2. \A i \in 1 .. n : \A s \in T : step[<<i, s>>] = s \o seqs[i]
    OBVIOUS
  <2>. HIDE DEF step, T
  <2>3. PICK f : f \in Loops(n, T, <<>>, step)
    BY <1>1, <2>1, LoopComputes
  <2>4. /\ f \in [0 .. n -> T]
        /\ \A i \in 0 .. n : f[i] = IF i = 0 THEN <<>> ELSE step[<<i, f[i - 1]>>]
    BY <2>3 DEF Loops
  <2>5. ASSUME NEW i \in 1 .. n PROVE f[i] = f[i - 1] \o seqs[i]
    <3>1. i \in 0 .. n /\ i # 0 /\ i - 1 \in 0 .. n
      OBVIOUS
    <3>. QED
      BY <2>2, <2>4, <3>1
  <2>6. f[0] = <<>>
    <3>1. 0 \in 0 .. n
      OBVIOUS
    <3>. QED
      BY <2>4, <3>1
  <2>. QED
    BY <2>4, <2>5, <2>6 DEF Concatenations, T
<1>3. ASSUME NEW f \in Concatenations(n, S, seqs) PROVE FlattenSeq(seqs) = f[n]
  <2>1. /\ f \in [0 .. n -> T] /\ f[0] = <<>>
        /\ \A i \in 1 .. n : f[i] = f[i - 1] \o seqs[i]
        /\ n # 0 => f[1] = seqs[1]
    <3>1. /\ f \in [0 .. n -> T] /\ f[0] = <<>>
          /\ \A i \in 1 .. n : f[i] = f[i - 1] \o seqs[i]
      BY DEF Concatenations
    <3>2. n # 0 => 1 \in 1 .. n /\ 1 - 1 = 0
      OBVIOUS
    <3>3. n # 0 => <<>> \o seqs[1] = seqs[1]
      BY <1>1, <3>2, ConcatEmptySeq
    <3>. QED
      BY <3>1, <3>2, <3>3
  <2>2. CASE n = 0
    <3>1. seqs = <<>>
      BY <2>2, EmptySeq
    <3>. QED
      BY <2>1, <2>2, <3>1 DEF FlattenSeq
  <2>3. CASE n # 0
    <3>1. FlattenSeq(seqs) = (CHOOSE g : g = F(g))[n]
      BY <2>3 DEF FlattenSeq
    <3>. DEFINE h == [i \in 1 .. n |-> f[i]]
    <3>2. h = F(h)
      <4>1. ASSUME NEW i \in 1 .. n
            PROVE  f[i] = IF i = 1 THEN seqs[i] ELSE h[i - 1] \o seqs[i]
        <5>1. i = 1 => f[i] = seqs[i]
          BY <2>1
        <5>2. i # 1 => h[i - 1] = f[i - 1]
          <6>1. i # 1 => i - 1 \in 1 .. n
            OBVIOUS
          <6>. QED
            BY <6>1
        <5>. QED
          BY <2>1, <5>1, <5>2
      <4>. QED
        BY <4>1
    <3>. HIDE DEF F
    <3>3. PICK g : g = F(g) /\ FlattenSeq(seqs) = g[n]
      BY <3>1, <3>2
    <3>. DEFINE k == [i \in 0 .. n |-> IF i = 0 THEN <<>> ELSE g[i]]
    <3>4. k[0] = f[0] /\ k[n] = g[n]
      BY <2>1, <2>3
    <3>5. ASSUME NEW i \in 1 .. n, k[i - 1] = f[i - 1] PROVE k[i] = f[i]
      <4>1. g[i] = IF i = 1 THEN seqs[i] ELSE g[i - 1] \o seqs[i]
        BY <3>3 DEF F
      <4>2. k[i] = g[i] /\ (i # 1 => g[i - 1] = k[i - 1])
        OBVIOUS
      <4>3. i = 1 => f[i] = seqs[i]
        BY <2>1
      <4>. QED
        BY <2>1, <3>5, <4>1, <4>2, <4>3
    <3>. HIDE DEF k
    <3>6. Alike(n, k, f)
      BY <3>4, <3>5 DEF Alike
    <3>7. k[n] = f[n]
      BY <3>6, AlikeAgree
    <3>. QED
      BY <3>3, <3>4, <3>7
  <2>. QED
    BY <2>2, <2>3
<1>. QED
  BY <1>2, <1>3
=============================================================================
