---------------------------- MODULE HttpTextProofs ---------------------------
(***************************************************************************)
(* Theorems about the texts of HttpInput: what the browser and the pages   *)
(* write, the conversions of the server read, for every text.  None of it  *)
(* speaks of the state.  A conversion that is recursive has a solution     *)
(* because each of its calls goes on further to the right (RecursionExists).*)
(***************************************************************************)
EXTENDS HttpInput, SequenceTheorems, WellFoundedInduction, TLAPS

(***************************************************************************)
(* Numbers.                                                                *)
(***************************************************************************)

\* A set of numbers has a smallest one.
LEMMA Smallest ==
  ASSUME NEW T, T \subseteq Nat, T # {}
  PROVE  \E n \in T : \A m \in T : n <= m
<1> DEFINE less == OpToRel(<, Nat)
<1>1. ASSUME NEW m \in Nat, NEW n \in Nat, m < n PROVE <<m, n>> \in less
  BY <1>1 DEF OpToRel
<1>2. IsWellFoundedOn(less, Nat)
  BY NatLessThanWellFounded
<1> HIDE DEF less
<1>3. PICK n \in T : \A m \in T : ~(<<m, n>> \in less)
  BY <1>2, WFMin
<1>4. ASSUME NEW m \in T PROVE n <= m
  <2>1. m \in Nat /\ n \in Nat /\ ~(m < n)
    BY <1>1, <1>3
  <2> QED BY <2>1
<1> QED
  BY <1>4

LEMMA MinIs ==
  ASSUME NEW T, T \subseteq Nat, T # {}
  PROVE  Min(T) \in T /\ \A m \in T : Min(T) <= m
BY Smallest DEF Min

(***************************************************************************)
(* Texts: sequences of symbols, whatever the symbols are.                   *)
(***************************************************************************)

\* A text is a sequence, of symbols of whatever kind.
IsText(t) == Len(t) \in Nat /\ t = [i \in 1..Len(t) |-> t[i]]

\* t is found in s at position p.
At(s, p, t) ==
  /\ p + Len(t) - 1 <= Len(s)
  /\ \A i \in 1..Len(t) : s[p + i - 1] = t[i]

\* Sequences are texts, and a text of symbols of S is a sequence on S.
LEMMA SeqIsText ==
  ASSUME NEW S, NEW t \in Seq(S)
  PROVE  IsText(t)
BY LenProperties DEF IsText

\* A text all of whose symbols are in S is a sequence on S.
LEMMA TextIsSeq ==
  ASSUME NEW t, IsText(t), NEW S, \A i \in 1..Len(t) : t[i] \in S
  PROVE  t \in Seq(S)
<1>1. Len(t) \in Nat
  BY DEF IsText
<1>2. [i \in 1..Len(t) |-> t[i]] \in Seq(S)
  BY <1>1, IsASeq
<1> QED BY <1>2 DEF IsText

\* A function on 1..n is a text of n symbols.
LEMMA TextOf ==
  ASSUME NEW n \in Nat, NEW t, DOMAIN t = 1..n, t = [i \in 1..n |-> t[i]]
  PROVE  IsText(t) /\ Len(t) = n
<1>1. [i \in 1..n |-> t[i]] \in Seq({t[i] : i \in 1..n})
  BY IsASeq
<1>2. t \in Seq({t[i] : i \in 1..n})
  BY <1>1
<1>3. IsText(t) /\ DOMAIN t = 1..Len(t) /\ Len(t) \in Nat
  BY <1>2, SeqIsText, LenProperties
<1>4. 1..Len(t) = 1..n
  BY <1>3
<1>5. Len(t) = n
  <2>1. CASE n = 0
    BY <1>3, <1>4, <2>1
  <2>2. CASE n # 0
    <3>1. n \in 1..Len(t) /\ (Len(t) # 0 => Len(t) \in 1..n)
      BY <1>3, <1>4, <2>2
    <3> QED BY <1>3, <3>1
  <2> QED BY <2>1, <2>2
<1> QED BY <1>3, <1>5

\* Texts with the same symbols are the same.
LEMMA SameText ==
  ASSUME NEW s, IsText(s), NEW t, IsText(t), Len(s) = Len(t),
         \A i \in 1..Len(s) : s[i] = t[i]
  PROVE  s = t
<1>1. [i \in 1..Len(s) |-> s[i]] = [i \in 1..Len(t) |-> t[i]]
  OBVIOUS
<1> QED BY <1>1 DEF IsText

\* Texts of at most three symbols.
LEMMA Single ==
  /\ IsText(<<>>) /\ Len(<<>>) = 0
  /\ \A x : IsText(<<x>>) /\ Len(<<x>>) = 1 /\ <<x>>[1] = x
  /\ \A x, y : IsText(<<x, y>>) /\ Len(<<x, y>>) = 2 /\ <<x, y>>[1] = x /\ <<x, y>>[2] = y
  /\ \A x, y, z : /\ IsText(<<x, y, z>>) /\ Len(<<x, y, z>>) = 3
                  /\ <<x, y, z>>[1] = x /\ <<x, y, z>>[2] = y /\ <<x, y, z>>[3] = z
<1>1. <<>> \in Seq({}) /\ Len(<<>>) = 0
  OBVIOUS
<1>2. ASSUME NEW x PROVE <<x>> \in Seq({x})
  OBVIOUS
<1>3. ASSUME NEW x, NEW y PROVE <<x, y>> \in Seq({x, y})
  OBVIOUS
<1>4. ASSUME NEW x, NEW y, NEW z PROVE <<x, y, z>> \in Seq({x, y, z})
  OBVIOUS
<1> QED
  BY <1>1, <1>2, <1>3, <1>4, SeqIsText

\* Two texts, one after the other.
LEMMA Joined ==
  \A s, t : IsText(s) /\ IsText(t) =>
    /\ IsText(s \o t) /\ Len(s \o t) = Len(s) + Len(t)
    /\ Len(s) \in Nat /\ Len(t) \in Nat
    /\ \A i \in 1..Len(s) : (s \o t)[i] = s[i]
    /\ \A i \in 1..Len(t) : (s \o t)[Len(s) + i] = t[i]
<1> SUFFICES ASSUME NEW s, NEW t, IsText(s), IsText(t)
             PROVE  /\ IsText(s \o t) /\ Len(s \o t) = Len(s) + Len(t)
                    /\ Len(s) \in Nat /\ Len(t) \in Nat
                    /\ \A i \in 1..Len(s) : (s \o t)[i] = s[i]
                    /\ \A i \in 1..Len(t) : (s \o t)[Len(s) + i] = t[i]
  OBVIOUS
<1> DEFINE S == {s[i] : i \in 1..Len(s)} \cup {t[i] : i \in 1..Len(t)}
<1>1. s \in Seq(S) /\ t \in Seq(S)
  BY TextIsSeq
<1>2. Len(s) \in Nat /\ Len(t) \in Nat
  BY DEF IsText
<1> HIDE DEF S
<1>3. /\ s \o t \in Seq(S) /\ Len(s \o t) = Len(s) + Len(t)
      /\ \A i \in 1..(Len(s) + Len(t)) :
           (s \o t)[i] = IF i <= Len(s) THEN s[i] ELSE t[i - Len(s)]
  BY <1>1, ConcatProperties
<1>4. IsText(s \o t)
  BY <1>3, SeqIsText
<1>5. \A i \in 1..Len(s) : i \in 1..(Len(s) + Len(t)) /\ i <= Len(s)
  BY <1>2
<1>6. \A i \in 1..Len(t) : /\ Len(s) + i \in 1..(Len(s) + Len(t))
                           /\ ~(Len(s) + i <= Len(s)) /\ Len(s) + i - Len(s) = i
  BY <1>2
<1> QED BY <1>2, <1>3, <1>4, <1>5, <1>6

\* Two texts stand one after the other where their joined text stands.
LEMMA AtJoined ==
  \A s, t, u, p : IsText(s) /\ IsText(t) /\ IsText(u) /\ p \in Nat =>
    (At(s, p, t \o u) <=> At(s, p, t) /\ At(s, p + Len(t), u))
<1> SUFFICES ASSUME NEW s, NEW t, NEW u, NEW p \in Nat, IsText(s), IsText(t), IsText(u)
             PROVE  At(s, p, t \o u) <=> At(s, p, t) /\ At(s, p + Len(t), u)
  OBVIOUS
<1>1. /\ Len(t \o u) = Len(t) + Len(u) /\ Len(t) \in Nat /\ Len(u) \in Nat /\ Len(s) \in Nat
      /\ \A i \in 1..Len(t) : (t \o u)[i] = t[i]
      /\ \A i \in 1..Len(u) : (t \o u)[Len(t) + i] = u[i]
  BY Joined DEF IsText
<1>2. \A i \in 1..Len(t) : i \in 1..(Len(t) + Len(u))
  BY <1>1
<1>3. \A i \in 1..Len(u) : Len(t) + i \in 1..(Len(t) + Len(u)) /\ p + Len(t) + i - 1 = p + (Len(t) + i) - 1
  BY <1>1
<1>4. ASSUME At(s, p, t \o u) PROVE At(s, p, t) /\ At(s, p + Len(t), u)
  <2>1. At(s, p, t)
    BY <1>1, <1>2, <1>4 DEF At
  <2>2. \A i \in 1..Len(u) : s[p + Len(t) + i - 1] = u[i]
    BY <1>1, <1>3, <1>4 DEF At
  <2> QED BY <1>1, <1>4, <2>1, <2>2 DEF At
<1>5. ASSUME At(s, p, t), At(s, p + Len(t), u) PROVE At(s, p, t \o u)
  <2>1. ASSUME NEW i \in 1..(Len(t) + Len(u)) PROVE s[p + i - 1] = (t \o u)[i]
    <3>1. CASE i \in 1..Len(t)
      BY <1>1, <1>5, <3>1 DEF At
    <3>2. CASE i \notin 1..Len(t)
      <4>1. PICK j \in 1..Len(u) : i = Len(t) + j
        <5>1. i - Len(t) \in 1..Len(u) /\ i = Len(t) + (i - Len(t))
          BY <1>1, <3>2
        <5> QED BY <5>1
      <4> QED BY <1>1, <1>3, <1>5, <4>1 DEF At
    <3> QED BY <3>1, <3>2
  <2> QED BY <1>1, <1>5, <2>1 DEF At
<1> QED BY <1>4, <1>5

\* A single symbol at a position.
LEMMA AtSymbol ==
  \A s, x, p : p \in Nat /\ Len(s) \in Nat => (At(s, p, <<x>>) <=> p <= Len(s) /\ s[p] = x)
<1> SUFFICES ASSUME NEW s, NEW x, NEW p \in Nat, Len(s) \in Nat
             PROVE  At(s, p, <<x>>) <=> p <= Len(s) /\ s[p] = x
  OBVIOUS
<1>1. Len(<<x>>) = 1 /\ <<x>>[1] = x /\ p + 1 - 1 = p /\ \A i \in 1..1 : i = 1
  BY Single
<1> QED BY <1>1 DEF At

\* A text stands at its own beginning.
LEMMA AtItself ==
  ASSUME NEW t, IsText(t)
  PROVE  At(t, 1, t)
<1>1. Len(t) \in Nat /\ \A i \in 1..Len(t) : 1 + i - 1 = i
  BY DEF IsText
<1> QED BY <1>1 DEF At

\* What stands in a text stands where that text stands.
LEMMA AtWithin ==
  ASSUME NEW s, NEW t, NEW u, IsText(s), IsText(t), IsText(u), NEW p \in Nat, NEW q \in Nat \ {0},
         At(s, p, t), At(t, q, u)
  PROVE  At(s, p + q - 1, u)
<1>1. Len(s) \in Nat /\ Len(t) \in Nat /\ Len(u) \in Nat
  BY DEF IsText
<1>2. ASSUME NEW i \in 1..Len(u) PROVE s[p + q - 1 + i - 1] = u[i]
  <2>1. q + i - 1 \in 1..Len(t) /\ p + q - 1 + i - 1 = p + (q + i - 1) - 1 /\ t[q + i - 1] = u[i]
    BY <1>1 DEF At
  <2> QED BY <2>1 DEF At
<1> QED BY <1>1, <1>2 DEF At

\* A part of a text.
LEMMA PartOfText ==
  ASSUME NEW s, IsText(s), NEW p \in Nat \ {0}, NEW q \in Int, q <= Len(s)
  PROVE  /\ IsText(SubSeq(s, p, q))
         /\ Len(SubSeq(s, p, q)) = IF p <= q THEN q - p + 1 ELSE 0
         /\ \A i \in 1..(q - p + 1) : SubSeq(s, p, q)[i] = s[p + i - 1]
<1> DEFINE S == {s[i] : i \in 1..Len(s)}
<1>1. Len(s) \in Nat
  BY DEF IsText
<1>2. \A i \in p..q : s[i] \in S
  BY <1>1
<1> HIDE DEF S
<1>3. /\ SubSeq(s, p, q) \in Seq(S)
      /\ Len(SubSeq(s, p, q)) = IF p <= q THEN q - p + 1 ELSE 0
      /\ \A i \in 1..(q - p + 1) : SubSeq(s, p, q)[i] = s[p + i - 1]
  BY <1>2, p \in Int, SubSeqProperties
<1> QED BY <1>3, SeqIsText

\* The part of s as long as t, where t stands, is t ...
LEMMA AtIsPart ==
  ASSUME NEW s, NEW t, IsText(s), IsText(t), NEW p \in Nat \ {0}, At(s, p, t)
  PROVE  SubSeq(s, p, p + Len(t) - 1) = t
<1>1. Len(s) \in Nat /\ Len(t) \in Nat
  BY DEF IsText
<1> DEFINE q == p + Len(t) - 1
<1>2. /\ IsText(SubSeq(s, p, q)) /\ Len(SubSeq(s, p, q)) = Len(t)
      /\ \A i \in 1..Len(t) : SubSeq(s, p, q)[i] = s[p + i - 1]
  <2>1. q \in Int /\ q <= Len(s) /\ q - p + 1 = Len(t) /\ (p <= q <=> Len(t) # 0)
    BY <1>1 DEF At
  <2> HIDE DEF q
  <2> QED BY <1>1, <2>1, PartOfText
<1> QED BY <1>2, SameText DEF At

\* ... and t stands where the part is t.
LEMMA PartIsAt ==
  ASSUME NEW s, NEW t, IsText(s), IsText(t), NEW p \in Nat \ {0},
         p + Len(t) - 1 <= Len(s), SubSeq(s, p, p + Len(t) - 1) = t
  PROVE  At(s, p, t)
<1>1. Len(s) \in Nat /\ Len(t) \in Nat
  BY DEF IsText
<1>2. \A i \in 1..Len(t) : t[i] = s[p + i - 1]
  <2> DEFINE q == p + Len(t) - 1
  <2>1. q \in Int /\ q - p + 1 = Len(t) /\ q <= Len(s) /\ SubSeq(s, p, q) = t
    BY <1>1
  <2> HIDE DEF q
  <2>2. \A i \in 1..(q - p + 1) : SubSeq(s, p, q)[i] = s[p + i - 1]
    BY <2>1, PartOfText
  <2> QED BY <2>1, <2>2
<1> QED BY <1>2 DEF At

(***************************************************************************)
(* Recursive functions, and flattened sequences.                           *)
(***************************************************************************)

\* Strong induction for a set of numbers.
LEMMA Induction ==
  ASSUME NEW T, \A k \in Nat : (\A m \in Nat : m < k => m \in T) => k \in T
  PROVE  Nat \subseteq T
<1> SUFFICES ASSUME Nat \ T # {} PROVE FALSE
  OBVIOUS
<1>1. PICK k \in Nat \ T : \A m \in Nat \ T : k <= m
  BY Smallest, Nat \ T \subseteq Nat
<1>2. \A m \in Nat : m < k => m \in T
  BY <1>1
<1> QED BY <1>1, <1>2

\* f is a function on D into S that has the value F[<<i, f>>] at each i.
Solves(f, D, S, F) == f \in [D -> S] /\ \A i \in D : f[i] = F[<<i, f>>]

\* F's value at a place depends on values at places of a lower rank only.
RespectsRank(D, S, rank, F) ==
  \A i \in D : \A f, g \in [D -> S] :
    (\A j \in D : rank[j] < rank[i] => f[j] = g[j]) => F[<<i, f>>] = F[<<i, g>>]

\* A function that is defined at each place by its values at places of a lower
\* rank exists.
LEMMA RecursionExists ==
  ASSUME NEW D, NEW S, S # {}, NEW n \in Nat, NEW rank \in [D -> 0..n], NEW F \in [D \X [D -> S] -> S],
         RespectsRank(D, S, rank, F)
  PROVE  \E f : Solves(f, D, S, F)
<1> DEFINE Fits(f, k) == f \in [D -> S] /\ \A i \in D : rank[i] < k => f[i] = F[<<i, f>>]
           T == {k \in Nat : ~\E f : Fits(f, k)}
<1>1. ASSUME T # {} PROVE FALSE
  <2>1. PICK k \in T : \A m \in T : k <= m
    BY <1>1, Smallest, T \subseteq Nat
  <2>2. k # 0
    <3>1. PICK v : v \in S
      OBVIOUS
    <3>2. Fits([i \in D |-> v], 0)
      BY <3>1
    <3> QED BY <3>2
  <2>3. k - 1 \in Nat /\ k - 1 \notin T
    <3>0. T \subseteq Nat
      OBVIOUS
    <3> HIDE DEF T
    <3> QED BY <2>1, <2>2, <3>0
  <2>4. PICK f : Fits(f, k - 1)
    BY <2>3
  <2> DEFINE h == [i \in D |-> IF rank[i] < k - 1 THEN f[i] ELSE F[<<i, f>>]]
  <2>5. h \in [D -> S] /\ f \in [D -> S]
    BY <2>4
  <2>6. ASSUME NEW i \in D, rank[i] < k PROVE h[i] = F[<<i, h>>]
    <3>1. \A j \in D : rank[j] < rank[i] => f[j] = h[j]
      BY <2>1, <2>6
    <3> HIDE DEF h
    <3>2. F[<<i, f>>] = F[<<i, h>>]
      BY <2>5, <3>1 DEF RespectsRank
    <3>3. h[i] = F[<<i, f>>]
      BY <2>4 DEF h
    <3> QED BY <3>2, <3>3
  <2>7. Fits(h, k)
    BY <2>5, <2>6
  <2> QED BY <2>7
<1>2. n + 1 \in Nat /\ n + 1 \notin T
  <2> HIDE DEF T
  <2> QED BY <1>1
<1>3. PICK f : Fits(f, n + 1)
  BY <1>2
<1> QED BY <1>3 DEF Solves

\* f is the recursive function of FlattenSeq(texts).
Flattens(f, n, texts) ==
  /\ f[1] = texts[1] /\ FlattenSeq(texts) = f[n]
  /\ \A i \in 2..n : f[i] = f[i - 1] \o texts[i]

\* What FlattenSeq returns satisfies the recursion it is defined by.
LEMMA FlattenRecursion ==
  ASSUME NEW n \in Nat \ {0}, NEW texts, Len(texts) = n, \A i \in 1..n : IsText(texts[i])
  PROVE  \E f : Flattens(f, n, texts)
<1> DEFINE C == UNION {{texts[i][j] : j \in 1..Len(texts[i])} : i \in 1..n}
           S == Seq(C)
           D == 1..n
           rank == [i \in D |-> i]
           F == [x \in D \X [D -> S] |->
                   IF x[1] = 1 THEN texts[1] ELSE x[2][x[1] - 1] \o texts[x[1]]]
<1>1. ASSUME NEW i \in D PROVE texts[i] \in S
  <2>1. IsText(texts[i]) /\ \A j \in 1..Len(texts[i]) : texts[i][j] \in C
    OBVIOUS
  <2> HIDE DEF C
  <2> QED BY <2>1, TextIsSeq
<1> HIDE DEF C
<1>2. F \in [D \X [D -> S] -> S]
  <2>1. ASSUME NEW i \in D, NEW f \in [D -> S]
        PROVE  (IF i = 1 THEN texts[1] ELSE f[i - 1] \o texts[i]) \in S
    <3>1. CASE i = 1
      BY <1>1, <3>1
    <3>2. CASE i # 1
      <4>1. f[i - 1] \in S /\ texts[i] \in S
        BY <1>1, <3>2
      <4> QED BY <3>2, <4>1, ConcatProperties
    <3> QED BY <3>1, <3>2
  <2> QED BY <2>1
<1>3. rank \in [D -> 0..n] /\ S # {} /\ n \in Nat
  <2>1. <<>> \in S
    BY EmptySeq
  <2>2. rank \in [D -> 0..n]
    OBVIOUS
  <2> HIDE DEF rank, D, S
  <2> QED BY <2>1, <2>2
<1>4. RespectsRank(D, S, rank, F)
  <2> SUFFICES ASSUME NEW i \in D, NEW f \in [D -> S], NEW g \in [D -> S],
                      \A j \in D : rank[j] < rank[i] => f[j] = g[j]
               PROVE  F[<<i, f>>] = F[<<i, g>>]
    BY DEF RespectsRank
  <2>1. F[<<i, f>>] = IF i = 1 THEN texts[1] ELSE f[i - 1] \o texts[i]
    OBVIOUS
  <2>2. F[<<i, g>>] = IF i = 1 THEN texts[1] ELSE g[i - 1] \o texts[i]
    OBVIOUS
  <2>3. i # 1 => f[i - 1] = g[i - 1]
    OBVIOUS
  <2> QED BY <2>1, <2>2, <2>3
<1>5. PICK f : Solves(f, D, S, F)
  <2> HIDE DEF D, S, rank, F
  <2> QED BY <1>2, <1>3, <1>4, RecursionExists
<1>6. \A i \in D : f[i] = IF i = 1 THEN texts[1] ELSE f[i - 1] \o texts[i]
  BY <1>5 DEF Solves
<1> HIDE DEF S, F
<1> DEFINE IsFlat(g) == g = [i \in 1..Len(texts) |-> IF i = 1 THEN texts[i] ELSE g[i - 1] \o texts[i]]
           flat == CHOOSE g : IsFlat(g)
<1>7. IsFlat(f)
  BY <1>5, <1>6 DEF Solves
<1>8. IsFlat(flat)
  BY <1>7
<1>9. FlattenSeq(texts) = flat[n]
  BY DEF FlattenSeq
<1> HIDE DEF flat
<1>10. \A i \in 1..n : flat[i] = IF i = 1 THEN texts[i] ELSE flat[i - 1] \o texts[i]
  <2>1. flat = [i \in 1..n |-> IF i = 1 THEN texts[i] ELSE flat[i - 1] \o texts[i]]
    BY <1>8
  <2> QED BY <2>1
<1> HIDE DEF IsFlat
<1>11. flat[1] = texts[1] /\ \A i \in 2..n : flat[i] = flat[i - 1] \o texts[i]
  <2>1. 1 \in 1..n /\ \A i \in 2..n : i \in 1..n /\ i # 1
    OBVIOUS
  <2> QED BY <1>10, <2>1
<1> QED BY <1>9, <1>11 DEF Flattens

\* t is made of n texts, and the i-th ends at pos[i].
Laid(t, n, texts, pos) ==
  /\ pos \in [0..n -> Nat] /\ pos[0] = 0 /\ pos[n] = Len(t)
  /\ \A i \in 1..n : pos[i] = pos[i - 1] + Len(texts[i]) /\ At(t, pos[i - 1] + 1, texts[i])

\* A flattened sequence holds its texts one after the other.
LEMMA Flattened ==
  ASSUME NEW n \in Nat, NEW texts, Len(texts) = n, \A i \in 1..n : IsText(texts[i]),
         n = 0 => texts = <<>>
  PROVE  IsText(FlattenSeq(texts)) /\ \E pos : Laid(FlattenSeq(texts), n, texts, pos)
<1>1. CASE n = 0
  <2>1. FlattenSeq(texts) = <<>>
    BY <1>1 DEF FlattenSeq
  <2>2. [i \in 0..n |-> 0] \in [0..n -> Nat] /\ [i \in 0..n |-> 0][0] = 0
    OBVIOUS
  <2>3. n = 0 /\ 1..n = {} /\ Len(FlattenSeq(texts)) = 0 /\ IsText(FlattenSeq(texts))
    BY <1>1, <2>1, Single
  <2>4. Laid(FlattenSeq(texts), n, texts, [i \in 0..n |-> 0])
    BY <2>2, <2>3 DEF Laid
  <2> QED BY <2>3, <2>4
<1>2. CASE n # 0
  <2>1. PICK f : /\ f[1] = texts[1] /\ FlattenSeq(texts) = f[n]
                 /\ \A i \in 2..n : f[i] = f[i - 1] \o texts[i]
    <3>1. n \in Nat \ {0}
      BY <1>2
    <3>2. \E f : Flattens(f, n, texts)
      BY <3>1, FlattenRecursion
    <3> QED BY <3>2 DEF Flattens
  <2> DEFINE pos == [i \in 0..n |-> IF i = 0 THEN 0 ELSE Len(f[i])]
             T == {k \in Nat : k \in 1..n =>
                     /\ IsText(f[k])
                     /\ Len(f[k]) = pos[k - 1] + Len(texts[k])
                     /\ \A i \in 1..k : At(f[k], pos[i - 1] + 1, texts[i])}
  <2>2. ASSUME NEW k \in Nat, \A m \in Nat : m < k => m \in T PROVE k \in T
    <3> SUFFICES ASSUME k \in 1..n
                 PROVE  /\ IsText(f[k])
                        /\ Len(f[k]) = pos[k - 1] + Len(texts[k])
                        /\ \A i \in 1..k : At(f[k], pos[i - 1] + 1, texts[i])
      OBVIOUS
    <3>1. CASE k = 1
      <4>1. f[1] = texts[1] /\ IsText(texts[1]) /\ pos[0] = 0 /\ \A i \in 1..1 : i = 1
        BY <2>1, <3>1
      <4>2. At(f[1], 1, texts[1]) /\ Len(f[1]) \in Nat
        BY <4>1, AtItself DEF IsText
      <4> QED BY <3>1, <4>1, <4>2
    <3>2. CASE k # 1
      <4>0. k - 1 \in Nat /\ k - 1 < k /\ k - 1 \in 1..n /\ k \in 2..n /\ k - 1 # 0
        BY <3>2
      <4>1. /\ k - 1 \in T /\ k - 1 \in 1..n /\ k \in 2..n /\ f[k] = f[k - 1] \o texts[k]
            /\ IsText(texts[k]) /\ pos[k - 1] = Len(f[k - 1])
        <5>1. k - 1 \in T
          <6> HIDE DEF T
          <6> QED BY <2>2, <4>0
        <5>2. pos[k - 1] = Len(f[k - 1])
          BY <4>0
        <5> HIDE DEF T, pos
        <5> QED BY <2>1, <4>0, <5>1, <5>2
      <4>2. IsText(f[k - 1]) /\ \A i \in 1..(k - 1) : At(f[k - 1], pos[i - 1] + 1, texts[i])
        BY <4>1
      <4>3. /\ IsText(f[k]) /\ Len(f[k]) = pos[k - 1] + Len(texts[k])
        BY <4>1, <4>2, Joined
      <4>4. At(f[k], 1, f[k - 1]) /\ At(f[k], 1 + Len(f[k - 1]), texts[k])
        <5>1. At(f[k], 1, f[k])
          BY <4>3, AtItself
        <5>2. /\ IsText(f[k]) /\ IsText(f[k - 1]) /\ IsText(texts[k]) /\ 1 \in Nat
              /\ At(f[k], 1, f[k - 1] \o texts[k])
          BY <4>1, <4>2, <4>3, <5>1
        <5> QED BY ONLY <5>2, AtJoined
      <4>5. ASSUME NEW i \in 1..k PROVE At(f[k], pos[i - 1] + 1, texts[i])
        <5>1. CASE i = k
          <6>1. 1 + Len(f[k - 1]) = pos[i - 1] + 1
            BY <4>1, <4>2, <5>1 DEF IsText
          <6> QED BY <4>4, <5>1, <6>1
        <5>2. CASE i # k
          <6>1. i \in 1..(k - 1) /\ IsText(texts[i])
            BY <5>2
          <6>2. pos[i - 1] \in Nat
            <7>1. CASE i = 1
              BY <7>1
            <7>2. CASE i # 1
              <8>0. i - 1 \in Nat /\ i - 1 < k /\ i - 1 \in 1..n /\ i - 1 # 0
                BY <6>1, <7>2
              <8>1. i - 1 \in T
                <9> HIDE DEF T
                <9> QED BY <2>2, <8>0
              <8>2. IsText(f[i - 1])
                BY <8>0, <8>1
              <8> QED BY <8>0, <8>2 DEF IsText
            <7> QED BY <7>1, <7>2
          <6>3. 1 \in Nat /\ pos[i - 1] + 1 \in Nat \ {0} /\ 1 + (pos[i - 1] + 1) - 1 = pos[i - 1] + 1
            BY <6>2
          <6> HIDE DEF pos, T
          <6>4. At(f[k], 1 + (pos[i - 1] + 1) - 1, texts[i])
            BY <4>2, <4>3, <4>4, <6>1, <6>3, AtWithin
          <6> QED BY <6>3, <6>4
        <5> QED BY <5>1, <5>2
      <4> QED BY <4>3, <4>5
    <3> QED BY <3>1, <3>2
  <2>3. Nat \subseteq T
    <3> HIDE DEF T
    <3> QED BY <2>2, Induction
  <2>4. ASSUME NEW i \in 1..n
        PROVE  /\ IsText(f[i]) /\ Len(f[i]) \in Nat
               /\ pos[i] = Len(f[i]) /\ pos[i] = pos[i - 1] + Len(texts[i])
               /\ \A m \in 1..i : At(f[i], pos[m - 1] + 1, texts[m])
    <3>1. i \in T /\ pos[i] = Len(f[i])
      <4>1. i \in T
        <5> HIDE DEF T, pos
        <5> QED BY <2>3
      <4> QED BY <4>1
    <3>2. /\ IsText(f[i]) /\ Len(f[i]) = pos[i - 1] + Len(texts[i])
          /\ \A m \in 1..i : At(f[i], pos[m - 1] + 1, texts[m])
      BY <3>1
    <3> HIDE DEF pos, T
    <3> QED BY <3>1, <3>2 DEF IsText
  <2>5. pos = [i \in 0..n |-> pos[i]] /\ pos[0] = 0
    OBVIOUS
  <2> HIDE DEF pos, T
  <2>6. pos \in [0..n -> Nat]
    <3>2. ASSUME NEW i \in 0..n PROVE pos[i] \in Nat
      <4>1. CASE i = 0
        BY <2>5, <4>1
      <4>2. CASE i # 0
        <5>1. i \in 1..n
          BY <4>2
        <5>2. pos[i] = Len(f[i]) /\ Len(f[i]) \in Nat
          BY <2>4, <5>1
        <5> QED BY <5>2
      <4> QED BY <4>1, <4>2
    <3> QED BY <2>5, <3>2
  <2>7. n \in 1..n
    BY <1>2
  <2>8. Laid(FlattenSeq(texts), n, texts, pos)
    BY <2>1, <2>4, <2>5, <2>6, <2>7 DEF Laid
  <2> QED BY <2>1, <2>4, <2>7, <2>8
<1> QED BY <1>1, <1>2

(***************************************************************************)
(* What std::string::find returns.                                         *)
(***************************************************************************)

\* std::string::find returns the first place where the pattern is.
LEMMA FindFirst ==
  ASSUME NEW s, IsText(s), NEW t, IsText(t), NEW from \in Nat \ {0}, NEW p \in Nat, from <= p,
         At(s, p, t), \A q \in from..(p - 1) : ~At(s, q, t)
  PROVE  Find(s, t, from) = p
<1>1. Len(s) \in Nat /\ Len(t) \in Nat
  BY DEF IsText
<1> DEFINE hits == {i \in from..Len(s) + 1 - Len(t) : SubSeq(s, i, i + Len(t) - 1) = t}
<1>2. p \in hits
  <2>1. p \in from..Len(s) + 1 - Len(t)
    BY <1>1 DEF At
  <2>2. SubSeq(s, p, p + Len(t) - 1) = t
    BY AtIsPart
  <2> QED BY <2>1, <2>2
<1>3. ASSUME NEW i \in hits PROVE p <= i
  <2>1. i \in Nat \ {0} /\ i + Len(t) - 1 <= Len(s) /\ SubSeq(s, i, i + Len(t) - 1) = t /\ from <= i
    BY <1>1
  <2> HIDE DEF hits
  <2>2. At(s, i, t)
    BY <2>1, PartIsAt
  <2> QED BY <2>1, <2>2
<1>4. Find(s, t, from) = Min(hits)
  BY <1>2 DEF Find
<1>5. hits \subseteq Nat
  BY <1>1
<1> HIDE DEF hits
<1>6. \A i \in hits : (\A j \in hits : i <= j) => i = p
  BY <1>2, <1>3, <1>5
<1> QED BY <1>2, <1>3, <1>4, <1>6 DEF Min

\* find fails when the pattern is nowhere.
LEMMA FindNothing ==
  ASSUME NEW s, IsText(s), NEW t, IsText(t), NEW from \in Nat \ {0},
         \A q \in Nat : from <= q => ~At(s, q, t)
  PROVE  Find(s, t, from) = 0
<1>1. Len(s) \in Nat /\ Len(t) \in Nat
  BY DEF IsText
<1> DEFINE hits == {i \in from..Len(s) + 1 - Len(t) : SubSeq(s, i, i + Len(t) - 1) = t}
<1>2. ASSUME NEW i \in hits PROVE FALSE
  <2>1. i \in Nat \ {0} /\ i + Len(t) - 1 <= Len(s) /\ SubSeq(s, i, i + Len(t) - 1) = t /\ from <= i
    BY <1>1
  <2> HIDE DEF hits
  <2>2. At(s, i, t)
    BY <2>1, PartIsAt
  <2> QED BY <2>1, <2>2
<1> QED BY <1>2 DEF Find

\* The same for a single symbol.
LEMMA FindSymbol ==
  ASSUME NEW s, IsText(s), NEW x, NEW from \in Nat \ {0}
  PROVE  /\ \A p \in from..Len(s) :
              s[p] = x /\ (\A q \in from..(p - 1) : s[q] # x) => Find(s, <<x>>, from) = p
         /\ (\A q \in from..Len(s) : s[q] # x) => Find(s, <<x>>, from) = 0
<1>1. Len(s) \in Nat /\ IsText(<<x>>)
  BY Single DEF IsText
<1>2. \A q \in Nat : At(s, q, <<x>>) <=> q <= Len(s) /\ s[q] = x
  BY <1>1, AtSymbol
<1>3. ASSUME NEW p \in from..Len(s), s[p] = x, \A q \in from..(p - 1) : s[q] # x
      PROVE  Find(s, <<x>>, from) = p
  <2>1. p \in Nat /\ from <= p /\ At(s, p, <<x>>) /\ \A q \in from..(p - 1) : ~At(s, q, <<x>>)
    BY <1>1, <1>2, <1>3
  <2> QED BY <1>1, <2>1, FindFirst
<1>4. ASSUME \A q \in from..Len(s) : s[q] # x PROVE Find(s, <<x>>, from) = 0
  <2>1. \A q \in Nat : from <= q => ~At(s, q, <<x>>)
    BY <1>1, <1>2, <1>4
  <2> QED BY <1>1, <2>1, FindNothing
<1> QED BY <1>3, <1>4

(***************************************************************************)
(* What a flattened sequence of texts consists of.                         *)
(***************************************************************************)

\* The symbol at p of the text t belongs to its i-th piece.
Covered(t, texts, pos, p, i) ==
  /\ pos[i - 1] \in Nat /\ pos[i] = pos[i - 1] + Len(texts[i])
  /\ p - pos[i - 1] \in 1..Len(texts[i]) /\ t[p] = texts[i][p - pos[i - 1]]

\* Every symbol of a text that is laid out belongs to one of its pieces.
LEMMA LaidCovers ==
  ASSUME NEW t, NEW n \in Nat, NEW texts, NEW pos, Laid(t, n, texts, pos),
         \A i \in 1..n : IsText(texts[i]), NEW p \in 1..Len(t)
  PROVE  \E i \in 1..n : Covered(t, texts, pos, p, i)
<1> DEFINE T == {i \in Nat : i \in 0..n /\ pos[i] >= p}
<1>1. /\ pos \in [0..n -> Nat] /\ pos[0] = 0 /\ pos[n] = Len(t)
      /\ \A i \in 1..n : pos[i] = pos[i - 1] + Len(texts[i]) /\ At(t, pos[i - 1] + 1, texts[i])
  BY DEF Laid
<1>2. n \in T
  BY <1>1
<1>3. PICK i \in T : \A m \in T : i <= m
  <2>1. T \subseteq Nat /\ T # {}
    BY <1>2
  <2> QED BY <2>1, Smallest
<1>4. i # 0 /\ i \in 1..n /\ i - 1 \in 0..n
  BY <1>1, <1>3
<1>5. i - 1 \in Nat /\ i - 1 \notin T
  <2> HIDE DEF T
  <2> QED BY <1>3, <1>4
<1>6. pos[i - 1] \in Nat /\ pos[i - 1] < p /\ pos[i] >= p /\ Len(texts[i]) \in Nat
  <2>1. pos[i] \in Nat /\ pos[i - 1] \in Nat /\ p \in Nat /\ Len(texts[i]) \in Nat
    <3>1. Len(texts[i]) \in Nat
      BY <1>4 DEF IsText
    <3>2. pos[i] \in Nat /\ pos[i - 1] \in Nat
      BY <1>1, <1>4
    <3>3. p \in Nat
      BY <1>1
    <3> QED BY <3>1, <3>2, <3>3
  <2>2. pos[i] >= p
    BY <1>3
  <2>3. ~(pos[i - 1] >= p)
    BY <1>4, <1>5
  <2> QED BY ONLY <2>1, <2>2, <2>3
<1>7. p - pos[i - 1] \in 1..Len(texts[i])
  <2> DEFINE x == pos[i - 1]
             y == pos[i]
             l == Len(texts[i])
  <2>1. y = x + l /\ p \in Nat
    BY <1>1, <1>4
  <2>2. x \in Nat /\ x < p /\ y >= p /\ l \in Nat
    BY <1>6
  <2> HIDE DEF x, y, l
  <2>3. p - x \in 1..l
    BY ONLY <2>1, <2>2
  <2> QED BY <2>3 DEF x, l
<1>8. pos[i - 1] + 1 + (p - pos[i - 1]) - 1 = p
  <2> DEFINE x == pos[i - 1]
  <2>1. x \in Nat /\ p \in Nat
    BY <1>1, <1>6
  <2> HIDE DEF x
  <2>2. x + 1 + (p - x) - 1 = p
    BY ONLY <2>1
  <2> QED BY <2>2 DEF x
<1>9. t[pos[i - 1] + 1 + (p - pos[i - 1]) - 1] = texts[i][p - pos[i - 1]]
  BY <1>1, <1>4, <1>7 DEF At
<1>10. Covered(t, texts, pos, p, i)
  BY <1>1, <1>4, <1>6, <1>7, <1>8, <1>9 DEF Covered
<1> QED BY <1>4, <1>10

\* There is one text only that consists of given texts.
LEMMA LaidUnique ==
  ASSUME NEW s, NEW t, IsText(s), IsText(t), NEW n \in Nat, NEW texts, \A i \in 1..n : IsText(texts[i]),
         NEW f, NEW g, Laid(s, n, texts, f), Laid(t, n, texts, g)
  PROVE  s = t /\ f = g
<1> DEFINE T == {k \in Nat : k \in 0..n => f[k] = g[k]}
<1>1. /\ f \in [0..n -> Nat] /\ f[0] = 0 /\ f[n] = Len(s)
      /\ \A i \in 1..n : f[i] = f[i - 1] + Len(texts[i]) /\ At(s, f[i - 1] + 1, texts[i])
  BY DEF Laid
<1>2. /\ g \in [0..n -> Nat] /\ g[0] = 0 /\ g[n] = Len(t)
      /\ \A i \in 1..n : g[i] = g[i - 1] + Len(texts[i]) /\ At(t, g[i - 1] + 1, texts[i])
  BY DEF Laid
<1>3. ASSUME NEW k \in Nat, \A m \in Nat : m < k => m \in T PROVE k \in T
  <2> SUFFICES ASSUME k \in 0..n PROVE f[k] = g[k]
    OBVIOUS
  <2>1. CASE k = 0
    BY <1>1, <1>2, <2>1
  <2>2. CASE k # 0
    <3>1. k - 1 \in T /\ k - 1 \in 0..n /\ k \in 1..n
      BY <1>3, <2>2
    <3> QED BY <1>1, <1>2, <3>1
  <2> QED BY <2>1, <2>2
<1>4. Nat \subseteq T
  <2> HIDE DEF T
  <2> QED BY <1>3, Induction
<1>5. \A k \in 0..n : f[k] = g[k]
  BY <1>4
<1>6. f = g
  BY <1>1, <1>2, <1>5
<1>7. Len(s) = Len(t)
  BY <1>1, <1>2, <1>6
<1>8. ASSUME NEW p \in 1..Len(s) PROVE s[p] = t[p]
  <2>0. PICK i \in 1..n : Covered(s, texts, f, p, i)
    BY LaidCovers
  <2>1. /\ f[i - 1] \in Nat /\ p - f[i - 1] \in 1..Len(texts[i])
        /\ s[p] = texts[i][p - f[i - 1]]
    BY <2>0 DEF Covered
  <2>2. At(t, f[i - 1] + 1, texts[i])
    BY <1>2, <1>6
  <2>3. f[i - 1] + 1 + (p - f[i - 1]) - 1 = p
    <3> DEFINE x == f[i - 1]
    <3>1. x \in Nat /\ p \in Nat
      BY <2>1 DEF IsText
    <3> HIDE DEF x
    <3>2. x + 1 + (p - x) - 1 = p
      BY ONLY <3>1
    <3> QED BY <3>2 DEF x
  <2>4. t[f[i - 1] + 1 + (p - f[i - 1]) - 1] = texts[i][p - f[i - 1]]
    BY <2>1, <2>2 DEF At
  <2> QED BY <2>1, <2>3, <2>4
<1> QED BY <1>6, <1>7, <1>8, SameText

\* The texts of a sequence of texts, and what they make together.
Texts(texts) == IsText(texts) /\ \A i \in 1..Len(texts) : IsText(texts[i])

\* A flattened sequence of texts is a text that consists of them.
LEMMA FlattenedTexts ==
  ASSUME NEW texts, Texts(texts)
  PROVE  /\ IsText(FlattenSeq(texts))
         /\ \E pos : Laid(FlattenSeq(texts), Len(texts), texts, pos)
<1>1. Len(texts) \in Nat /\ (Len(texts) = 0 => texts = <<>>)
  <2>1. CASE Len(texts) = 0
    BY <2>1, SameText, Single DEF Texts, IsText
  <2> QED BY <2>1 DEF Texts, IsText
<1>2. \A i \in 1..Len(texts) : IsText(texts[i])
  BY DEF Texts
<1> QED BY <1>1, <1>2, Flattened

\* Flattening one sequence after the other.
LEMMA FlattenJoined ==
  ASSUME NEW a, NEW b, Texts(a), Texts(b)
  PROVE  Texts(a \o b) /\ FlattenSeq(a \o b) = FlattenSeq(a) \o FlattenSeq(b)
<1> DEFINE m == Len(a)
           n == Len(b)
           s == FlattenSeq(a)
           t == FlattenSeq(b)
<1>1. /\ m \in Nat /\ n \in Nat /\ IsText(a \o b) /\ Len(a \o b) = m + n
      /\ \A i \in 1..m : (a \o b)[i] = a[i] /\ IsText(a[i])
      /\ \A i \in 1..n : (a \o b)[m + i] = b[i] /\ IsText(b[i])
  BY Joined DEF Texts
<1>2. ASSUME NEW i \in 1..(m + n)
      PROVE  i \in 1..m \/ (i - m \in 1..n /\ i = m + (i - m) /\ i \notin 1..m)
  BY <1>1
<1>3. \A i \in 1..(m + n) : IsText((a \o b)[i])
  BY <1>1, <1>2
<1>4. Texts(a \o b)
  BY <1>1, <1>3 DEF Texts
<1>5. IsText(s) /\ IsText(t) /\ IsText(s \o t) /\ Len(s) \in Nat /\ Len(t) \in Nat /\ Len(s \o t) = Len(s) + Len(t)
  BY FlattenedTexts, Joined
<1>6. PICK f : Laid(s, m, a, f)
  BY FlattenedTexts
<1>7. PICK g : Laid(t, n, b, g)
  BY FlattenedTexts
<1>8. PICK h : Laid(FlattenSeq(a \o b), m + n, a \o b, h)
  BY <1>1, <1>4, FlattenedTexts
<1>9. IsText(FlattenSeq(a \o b))
  BY <1>4, FlattenedTexts
<1>10. At(s \o t, 1, s) /\ At(s \o t, 1 + Len(s), t)
  BY <1>5, AtItself, AtJoined
<1> DEFINE e == [i \in 0..(m + n) |-> IF i <= m THEN f[i] ELSE Len(s) + g[i - m]]
<1> HIDE DEF m, n, s, t
<1>11. /\ f \in [0..m -> Nat] /\ f[0] = 0 /\ f[m] = Len(s)
       /\ \A i \in 1..m : f[i] = f[i - 1] + Len(a[i]) /\ At(s, f[i - 1] + 1, a[i])
  BY <1>6 DEF Laid
<1>12. /\ g \in [0..n -> Nat] /\ g[0] = 0 /\ g[n] = Len(t)
       /\ \A i \in 1..n : g[i] = g[i - 1] + Len(b[i]) /\ At(t, g[i - 1] + 1, b[i])
  BY <1>7 DEF Laid
<1>13. /\ e \in [0..(m + n) -> Nat] /\ e[0] = 0
       /\ \A i \in 0..m : e[i] = f[i]
       /\ \A i \in 0..n : e[m + i] = Len(s) + g[i]
  <2>1. ASSUME NEW i \in 0..(m + n) PROVE (IF i <= m THEN f[i] ELSE Len(s) + g[i - m]) \in Nat
    <3>1. CASE i <= m
      BY <1>1, <1>11, <3>1
    <3>2. CASE ~(i <= m)
      <4>1. i - m \in 0..n
        BY <1>1, <3>2
      <4> QED BY <1>5, <1>12, <3>2, <4>1
    <3> QED BY <3>1, <3>2
  <2>2. \A i \in 0..m : i \in 0..(m + n) /\ i <= m
    BY <1>1
  <2>3. ASSUME NEW i \in 0..n PROVE e[m + i] = Len(s) + g[i]
    <3>1. m + i \in 0..(m + n) /\ (m + i <= m <=> i = 0) /\ m + i - m = i
      BY <1>1
    <3>2. CASE i = 0
      <4>1. e[m + i] = f[m] /\ m + 0 = m
        BY <1>1, <3>1, <3>2
      <4> QED BY <1>5, <1>11, <1>12, <3>2, <4>1
    <3>3. CASE i # 0
      <4> DEFINE j == m + i
      <4>1. j \in 0..(m + n) /\ ~(j <= m) /\ j - m = i
        BY <1>1, <3>3
      <4> HIDE DEF j
      <4>2. e[j] = Len(s) + g[i]
        BY <4>1
      <4> QED BY <4>2 DEF j
    <3> QED BY <3>2, <3>3
  <2>4. 0 \in 0..m
    BY <1>1
  <2> QED BY <1>11, <2>1, <2>2, <2>3, <2>4
<1> HIDE DEF e
<1>14. ASSUME NEW i \in 1..(m + n)
       PROVE  e[i] = e[i - 1] + Len((a \o b)[i]) /\ At(s \o t, e[i - 1] + 1, (a \o b)[i])
  <2>1. CASE i \in 1..m
    <3>1. i \in 0..m /\ i - 1 \in 0..m /\ (a \o b)[i] = a[i]
      BY <1>1, <2>1
    <3>2. e[i] = f[i] /\ e[i - 1] = f[i - 1] /\ f[i - 1] \in Nat /\ 1 \in Nat /\ f[i - 1] + 1 \in Nat \ {0}
      BY <1>11, <1>13, <3>1
    <3>3. At(s \o t, 1 + (f[i - 1] + 1) - 1, a[i])
      BY <1>1, <1>5, <1>10, <1>11, <2>1, <3>2, AtWithin
    <3>4. 1 + (f[i - 1] + 1) - 1 = f[i - 1] + 1
      BY <3>2
    <3> QED BY <1>11, <2>1, <3>1, <3>2, <3>3, <3>4
  <2>2. CASE i \notin 1..m
    <3> DEFINE k == i - m
    <3>1. k \in 1..n /\ i = m + k /\ i - 1 = m + (k - 1) /\ k \in 0..n /\ k - 1 \in 0..n
      BY <1>1, <2>2
    <3> HIDE DEF k
    <3>2. /\ (a \o b)[i] = b[k] /\ e[i] = Len(s) + g[k] /\ e[i - 1] = Len(s) + g[k - 1]
          /\ g[k - 1] \in Nat /\ g[k] = g[k - 1] + Len(b[k]) /\ Len(b[k]) \in Nat
      BY <1>1, <1>12, <1>13, <3>1 DEF IsText
    <3>3. 1 + Len(s) \in Nat /\ g[k - 1] + 1 \in Nat \ {0}
      BY <1>5, <3>2
    <3>4. At(s \o t, 1 + Len(s) + (g[k - 1] + 1) - 1, b[k])
      <4>1. /\ IsText(s \o t) /\ IsText(t) /\ IsText(b[k]) /\ At(s \o t, 1 + Len(s), t)
            /\ At(t, g[k - 1] + 1, b[k])
        BY <1>1, <1>5, <1>10, <1>12, <3>1
      <4> QED BY ONLY <3>3, <4>1, AtWithin
    <3>5. 1 + Len(s) + (g[k - 1] + 1) - 1 = e[i - 1] + 1 /\ e[i] = e[i - 1] + Len(b[k])
      <4>1. Len(s) \in Nat
        BY <1>5
      <4> QED BY ONLY <3>2, <4>1
    <3> QED BY <3>2, <3>4, <3>5
  <2> QED BY <2>1, <2>2
<1>15. e[m + n] = Len(s \o t)
  <2>1. n \in 0..n
    BY <1>1
  <2> QED BY <1>5, <1>12, <1>13, <2>1
<1>16. Laid(s \o t, m + n, a \o b, e)
  BY <1>13, <1>14, <1>15 DEF Laid
<1>17. m + n \in Nat
  BY <1>1
<1>18. s \o t = FlattenSeq(a \o b)
  BY <1>3, <1>5, <1>8, <1>9, <1>16, <1>17, LaidUnique
<1> QED BY <1>4, <1>18 DEF s, t

(***************************************************************************)
(* Escapes and what they are decoded to.                                    *)
(***************************************************************************)

\* What Decoded returns satisfies the recursion it is defined by.
Decodes(text, plus, f) ==
  /\ Decoded(text, plus) = f[1]
  /\ \A i \in 1..Len(text) + 3 : IsText(f[i])
  /\ \A i \in 1..Len(text) + 3 :
       f[i] = IF i > Len(text) THEN <<>>
              ELSE IF EscapedAt(text, i)
              THEN <<CharOf(SubSeq(text, i + 1, i + 2))>> \o f[i + 3]
              ELSE <<IF text[i] = "+" THEN plus ELSE text[i]>> \o f[i + 1]

\* The recursion of Decoded has a solution.
LEMMA DecodedRecursion ==
  ASSUME NEW text, IsText(text), NEW plus
  PROVE  \E f : Decodes(text, plus, f)
<1> DEFINE n == Len(text)
           D == 1..n + 3
           Char(i) == CharOf(SubSeq(text, i + 1, i + 2))
           Plain(i) == IF text[i] = "+" THEN plus ELSE text[i]
           C == {Char(i) : i \in D} \cup {Plain(i) : i \in D}
           S == Seq(C)
           rank == [i \in D |-> n + 3 - i]
           Value(i, f) == IF i > n THEN <<>>
                          ELSE IF EscapedAt(text, i) THEN <<Char(i)>> \o f[i + 3]
                          ELSE <<Plain(i)>> \o f[i + 1]
           F == [x \in D \X [D -> S] |-> Value(x[1], x[2])]
<1>1. n \in Nat /\ n + 3 \in Nat
  BY DEF IsText
<1> HIDE DEF Char, Plain, n
<1>2. \A i \in D : <<Char(i)>> \in S /\ <<Plain(i)>> \in S
  OBVIOUS
<1>3. <<>> \in S /\ S # {}
  BY EmptySeq
<1> HIDE DEF C
<1>4. \A i \in D : i <= n => i + 1 \in D /\ i + 3 \in D
  BY <1>1
<1>5. rank \in [D -> 0..n + 3] /\ \A i, j \in D : i < j => rank[j] < rank[i]
  BY <1>1
<1>6. ASSUME NEW i \in D, NEW f \in [D -> S] PROVE Value(i, f) \in S
  <2>1. CASE i > n
    BY <1>3, <2>1
  <2>2. CASE ~(i > n)
    <3>1. i <= n
      BY <1>1, <2>2
    <3>2. f[i + 1] \in S /\ f[i + 3] \in S
      BY <1>4, <3>1
    <3>3. <<Char(i)>> \o f[i + 3] \in S /\ <<Plain(i)>> \o f[i + 1] \in S
      BY <1>2, <3>2, ConcatProperties
    <3> QED BY <2>2, <3>3
  <2> QED BY <2>1, <2>2
<1>7. ASSUME NEW i \in D, NEW f \in [D -> S], NEW g \in [D -> S],
             \A j \in D : rank[j] < rank[i] => f[j] = g[j]
      PROVE  Value(i, f) = Value(i, g)
  <2>1. CASE i > n
    BY <2>1
  <2>2. CASE ~(i > n)
    <3>1. i + 1 \in D /\ i + 3 \in D /\ i < i + 1 /\ i < i + 3
      BY <1>1, <1>4, <2>2
    <3>2. f[i + 1] = g[i + 1] /\ f[i + 3] = g[i + 3]
      BY <1>5, <1>7, <3>1
    <3> QED BY <3>2
  <2> QED BY <2>1, <2>2
<1> HIDE DEF Value, rank, D, S
<1>8. F \in [D \X [D -> S] -> S] /\ \A i \in D : \A f \in [D -> S] : F[<<i, f>>] = Value(i, f)
  BY <1>6
<1> HIDE DEF F
<1>9. RespectsRank(D, S, rank, F)
  BY <1>7, <1>8 DEF RespectsRank
<1>10. PICK f : Solves(f, D, S, F)
  BY <1>1, <1>3, <1>5, <1>8, <1>9, RecursionExists
<1>11. f \in [D -> S] /\ \A i \in D : f[i] = Value(i, f)
  BY <1>8, <1>10 DEF Solves
<1> DEFINE IsRest(g) == g = [i \in 1..Len(text) + 3 |->
                               IF i > Len(text) THEN <<>>
                               ELSE IF EscapedAt(text, i)
                               THEN <<CharOf(SubSeq(text, i + 1, i + 2))>> \o g[i + 3]
                               ELSE <<IF text[i] = "+" THEN plus ELSE text[i]>> \o g[i + 1]]
           rest == CHOOSE g : IsRest(g)
<1>12. IsRest(f)
  <2>1. f = [i \in D |-> f[i]]
    BY <1>11
  <2>2. f = [i \in D |-> Value(i, f)]
    BY <1>11, <2>1
  <2> QED BY <2>2 DEF Value, D, n, Char, Plain
<1>13. IsRest(rest)
  BY <1>12
<1>14. Decoded(text, plus) = rest[1]
  BY DEF Decoded
<1> HIDE DEF rest
<1>15. rest = [i \in D |-> Value(i, rest)]
  BY <1>13 DEF Value, D, n, Char, Plain
<1> HIDE DEF IsRest
<1>16. \A i \in D : rest[i] = Value(i, rest)
  BY <1>15
<1> DEFINE T == {k \in Nat : \A i \in D : rank[i] = k => rest[i] \in S}
<1>17. ASSUME NEW k \in Nat, \A m \in Nat : m < k => m \in T PROVE k \in T
  <2> SUFFICES ASSUME NEW i \in D, rank[i] = k PROVE rest[i] \in S
    OBVIOUS
  <2>1. CASE i > n
    <3>1. rest[i] = <<>>
      BY <1>16, <2>1 DEF Value
    <3> QED BY <1>3, <3>1
  <2>2. CASE ~(i > n)
    <3>1. i + 1 \in D /\ i + 3 \in D /\ i < i + 1 /\ i < i + 3
      BY <1>1, <1>4, <2>2 DEF D
    <3>2. rank[i + 1] \in Nat /\ rank[i + 3] \in Nat /\ rank[i + 1] < k /\ rank[i + 3] < k
      BY <1>1, <1>5, <3>1
    <3>3. rest[i + 1] \in S /\ rest[i + 3] \in S
      BY <1>17, <3>1, <3>2
    <3> HIDE DEF T
    <3>4. <<Char(i)>> \o rest[i + 3] \in S /\ <<Plain(i)>> \o rest[i + 1] \in S
      BY <1>2, <3>3, ConcatProperties DEF S
    <3> QED BY <1>16, <2>2, <3>4 DEF Value
  <2> QED BY <2>1, <2>2
<1>18. Nat \subseteq T
  <2> HIDE DEF T
  <2> QED BY <1>17, Induction
<1>19. \A i \in D : rest[i] \in S
  BY <1>5, <1>18
<1>20. \A i \in D : IsText(rest[i])
  BY <1>19, SeqIsText DEF S
<1> QED BY <1>14, <1>16, <1>20 DEF Decodes, Value, D, n, Char, Plain

\* The symbols e stand for the character c; `plus` is what a plus sign does.
Codes3(e, c, plus) ==
  \/ e = <<c>> /\ c # "%" /\ (c = "+" => plus = "+")
  \/ e = <<"+">> /\ plus = c
  \/ c \in DOMAIN Codes /\ e = <<"%">> \o Codes[c]

\* The texts in codes stand for the characters of t, one for one.
CodesOf(codes, t, plus) ==
  /\ IsText(t) /\ IsText(codes) /\ Len(codes) = Len(t)
  /\ \A i \in 1..Len(t) : Codes3(codes[i], t[i], plus)

\* A code is the character or a percent sign and two hexadecimal digits.
LEMMA CodeIsText ==
  ASSUME NEW e, NEW c, NEW plus, Codes3(e, c, plus)
  PROVE  /\ IsText(e) /\ Len(e) \in {1, 3}
         /\ c \in DOMAIN Codes /\ e = <<"%">> \o Codes[c] =>
              /\ Len(e) = 3 /\ e[1] = "%" /\ e[2] = Codes[c][1] /\ e[3] = Codes[c][2]
              /\ {Codes[c][1], Codes[c][2]} \subseteq HexDigits
              /\ IsText(Codes[c]) /\ Len(Codes[c]) = 2
<1>1. CASE c \in DOMAIN Codes /\ e = <<"%">> \o Codes[c]
  <2>1. Codes[c] \in Seq(HexDigits) /\ Len(Codes[c]) = 2
    BY <1>1, CodesAssumption
  <2>2. IsText(Codes[c]) /\ 1 \in 1..Len(Codes[c]) /\ 2 \in 1..Len(Codes[c])
    BY <2>1, SeqIsText
  <2>3. Codes[c][1] \in HexDigits /\ Codes[c][2] \in HexDigits
    BY <2>1, <2>2, ElementOfSeq
  <2>4. IsText(<<"%">>) /\ Len(<<"%">>) = 1 /\ <<"%">>[1] = "%" /\ 1 \in 1..1
    BY Single
  <2>5. /\ IsText(e) /\ Len(e) = 3 /\ e[1] = "%" /\ e[1 + 1] = Codes[c][1] /\ e[1 + 2] = Codes[c][2]
    BY <1>1, <2>1, <2>2, <2>4, Joined
  <2> QED BY <2>1, <2>2, <2>3, <2>5
<1>2. CASE ~(c \in DOMAIN Codes /\ e = <<"%">> \o Codes[c])
  BY <1>2, Single DEF Codes3
<1> QED BY <1>1, <1>2

\* Codes, one after the other, are decoded to the characters they stand for.
LEMMA DecodedIs ==
  ASSUME NEW codes, NEW t, NEW plus, CodesOf(codes, t, plus)
  PROVE  Texts(codes) /\ Decoded(FlattenSeq(codes), plus) = t
<1> DEFINE n == Len(t)
           e == FlattenSeq(codes)
<1>1. /\ n \in Nat /\ IsText(t) /\ Len(codes) = n
      /\ \A i \in 1..n : Codes3(codes[i], t[i], plus)
  BY DEF CodesOf, IsText
<1>2. \A i \in 1..n : IsText(codes[i]) /\ Len(codes[i]) \in {1, 3}
  BY <1>1, CodeIsText
<1>3. Texts(codes)
  BY <1>1, <1>2 DEF Texts, CodesOf
<1>4. IsText(e) /\ Len(e) \in Nat
  BY <1>3, FlattenedTexts DEF IsText
<1>5. PICK pos : Laid(e, n, codes, pos)
  BY <1>1, <1>3, FlattenedTexts
<1>6. PICK f : Decodes(e, plus, f)
  BY <1>4, DecodedRecursion
<1> HIDE DEF n, e
<1>7. /\ pos \in [0..n -> Nat] /\ pos[0] = 0 /\ pos[n] = Len(e)
      /\ \A i \in 1..n : pos[i] = pos[i - 1] + Len(codes[i]) /\ At(e, pos[i - 1] + 1, codes[i])
  BY <1>5 DEF Laid
<1>8. /\ Decoded(e, plus) = f[1]
      /\ \A i \in 1..Len(e) + 3 :
           f[i] = IF i > Len(e) THEN <<>>
                  ELSE IF EscapedAt(e, i)
                  THEN <<CharOf(SubSeq(e, i + 1, i + 2))>> \o f[i + 3]
                  ELSE <<IF e[i] = "+" THEN plus ELSE e[i]>> \o f[i + 1]
  BY <1>6 DEF Decodes
<1>9. ASSUME NEW k \in 1..n
      PROVE  f[pos[k - 1] + 1] = <<t[k]>> \o f[pos[k] + 1]
  <2> DEFINE i == pos[k - 1] + 1
             c == codes[k]
  <2>1. /\ i \in Nat \ {0} /\ At(e, i, c) /\ pos[k] + 1 = i + Len(c) /\ Codes3(c, t[k], plus)
        /\ Len(c) \in {1, 3} /\ IsText(c)
    <3>1. k - 1 \in 0..n /\ k \in 0..n
      BY <1>1
    <3>2. pos[k - 1] \in Nat /\ pos[k] \in Nat
      BY <1>7, <3>1
    <3>3. At(e, i, c) /\ pos[k] = pos[k - 1] + Len(c) /\ Codes3(c, t[k], plus) /\ Len(c) \in {1, 3} /\ IsText(c)
      BY <1>1, <1>2, <1>7
    <3> HIDE DEF c
    <3>4. Len(c) \in Nat
      BY <3>3
    <3>5. pos[k] + 1 = i + Len(c) /\ i \in Nat \ {0}
      BY <3>2, <3>3, <3>4
    <3> QED BY <3>3, <3>5
  <2> HIDE DEF i, c
  <2>2. i + Len(c) - 1 <= Len(e) /\ i \in 1..Len(e) + 3 /\ ~(i > Len(e)) /\ e[i] = c[1]
    <3>1. i + Len(c) - 1 <= Len(e) /\ 1 \in 1..Len(c) /\ i + 1 - 1 = i
      <4>1. i + Len(c) - 1 <= Len(e)
        BY <2>1 DEF At
      <4>2. 1 \in 1..1 /\ 1 \in 1..3
        OBVIOUS
      <4>3. 1 \in 1..Len(c)
        BY <2>1, <4>2
      <4> QED BY <2>1, <4>1, <4>3
    <3>2. e[i + 1 - 1] = c[1]
      BY <2>1, <3>1 DEF At
    <3>3. i + 1 - 1 = i
      BY <2>1
    <3>4. i <= Len(e)
      <4>1. Len(c) >= 1
        <5>1. Len(c) \in {1, 3}
          BY <2>1
        <5> QED BY ONLY <5>1
      <4> QED BY <1>4, <2>1, <3>1, <4>1
    <3>5. i \in 1..Len(e) + 3 /\ ~(i > Len(e))
      BY <1>4, <2>1, <3>4
    <3> QED BY <3>1, <3>2, <3>3, <3>5
  <2>3. CASE t[k] \in DOMAIN Codes /\ c = <<"%">> \o Codes[t[k]]
    <3>1. /\ Len(c) = 3 /\ c[1] = "%" /\ c[2] = Codes[t[k]][1] /\ c[3] = Codes[t[k]][2]
          /\ c[2] \in HexDigits /\ c[3] \in HexDigits
          /\ IsText(Codes[t[k]]) /\ Len(Codes[t[k]]) = 2
      BY <2>1, <2>3, CodeIsText
    <3>2. e[i + 1] = c[2] /\ e[i + 2] = c[3]
      <4>1. i + 2 - 1 = i + 1 /\ i + 3 - 1 = i + 2 /\ 2 \in 1..Len(c) /\ 3 \in 1..Len(c)
        BY <2>1, <3>1
      <4>2. e[i + 2 - 1] = c[2] /\ e[i + 3 - 1] = c[3]
        BY <2>1, <4>1 DEF At
      <4> QED BY <4>1, <4>2
    <3>3. i + 2 <= Len(e) /\ EscapedAt(e, i)
      <4>1. i + 2 = i + Len(c) - 1
        BY <2>1, <3>1
      <4>2. i + 2 <= Len(e)
        BY <2>2, <4>1
      <4> QED BY <2>2, <3>1, <3>2, <4>2 DEF EscapedAt
    <3>4. SubSeq(e, i + 1, i + 2) = Codes[t[k]]
      <4>1. At(e, i + 1, Codes[t[k]])
        <5>1. \A j \in 1..2 : j = 1 \/ j = 2
          OBVIOUS
        <5>2. i + 1 + 1 - 1 = i + 1 /\ i + 1 + 2 - 1 = i + 2
          BY <2>1
        <5> QED BY <3>1, <3>2, <3>3, <5>1, <5>2 DEF At
      <4>2. i + 1 \in Nat \ {0} /\ i + 1 + Len(Codes[t[k]]) - 1 = i + 2
        BY <2>1, <3>1
      <4>3. SubSeq(e, i + 1, i + 1 + Len(Codes[t[k]]) - 1) = Codes[t[k]]
        BY <1>4, <3>1, <4>1, <4>2, AtIsPart
      <4> QED BY <4>2, <4>3
    <3>5. CharOf(Codes[t[k]]) = t[k]
      BY <2>3, CodesAssumption DEF CharOf
    <3>6. f[i] = <<CharOf(SubSeq(e, i + 1, i + 2))>> \o f[i + 3]
      BY <1>8, <2>2, <3>3
    <3>7. f[i] = <<t[k]>> \o f[i + Len(c)]
      BY <3>1, <3>4, <3>5, <3>6
    <3> QED BY <2>1, <3>7 DEF i
  <2>4. CASE ~(t[k] \in DOMAIN Codes /\ c = <<"%">> \o Codes[t[k]])
    <3>1. /\ c[1] # "%" /\ t[k] = IF c[1] = "+" THEN plus ELSE c[1]
          /\ Len(c) = 1
      BY <2>1, <2>4, Single DEF Codes3
    <3>2. ~EscapedAt(e, i)
      BY <2>2, <3>1 DEF EscapedAt
    <3>3. f[i] = <<IF e[i] = "+" THEN plus ELSE e[i]>> \o f[i + 1]
      BY <1>8, <2>2, <3>2
    <3>4. f[i] = <<t[k]>> \o f[i + Len(c)]
      BY <2>2, <3>1, <3>3
    <3> QED BY <2>1, <3>4 DEF i
  <2> QED BY <2>3, <2>4
<1>10. f[pos[n] + 1] = <<>>
  <2>1. pos[n] + 1 \in 1..Len(e) + 3 /\ pos[n] + 1 > Len(e)
    BY <1>4, <1>7
  <2> QED BY <1>8, <2>1
<1> DEFINE T == {m \in Nat : m <= n => f[pos[n - m] + 1] = SubSeq(t, n - m + 1, n)}
<1>11. ASSUME NEW m \in Nat, \A l \in Nat : l < m => l \in T PROVE m \in T
  <2> SUFFICES ASSUME m <= n PROVE f[pos[n - m] + 1] = SubSeq(t, n - m + 1, n)
    OBVIOUS
  <2>1. CASE m = 0
    <3>1. n - m = n /\ n < n + 1 /\ n - m + 1 = n + 1
      BY <1>1, <2>1
    <3>2. SubSeq(t, n + 1, n) = <<>>
      BY <1>1, SubSeqEmpty
    <3> QED BY <1>10, <3>1, <3>2
  <2>2. CASE m # 0
    <3> DEFINE k == n - m + 1
    <3>1. m - 1 \in T /\ m - 1 <= n
      BY <1>1, <1>11, <2>2
    <3>2. k \in 1..n /\ n - (m - 1) = k /\ k - 1 = n - m
      BY <1>1, <2>2
    <3>3. f[pos[k] + 1] = SubSeq(t, k + 1, n)
      BY <3>1, <3>2
    <3> HIDE DEF T, k
    <3>4. f[pos[k - 1] + 1] = <<t[k]>> \o SubSeq(t, k + 1, n)
      BY <1>9, <3>2, <3>3
    <3>5. <<t[k]>> \o SubSeq(t, k + 1, n) = SubSeq(t, k, n)
      <4>1. /\ IsText(SubSeq(t, k + 1, n)) /\ Len(SubSeq(t, k + 1, n)) = n - k
            /\ \A j \in 1..(n - (k + 1) + 1) : SubSeq(t, k + 1, n)[j] = t[k + 1 + j - 1]
        <5>1. k + 1 \in Nat \ {0} /\ n \in Int /\ n <= Len(t) /\ n - (k + 1) + 1 = n - k
              /\ (k + 1 > n => n - k = 0)
          BY <1>1, <3>2 DEF n
        <5> QED BY <1>1, <3>2, <5>1, PartOfText
      <4>2. /\ IsText(SubSeq(t, k, n)) /\ Len(SubSeq(t, k, n)) = n - k + 1
            /\ \A j \in 1..(n - k + 1) : SubSeq(t, k, n)[j] = t[k + j - 1]
        <5>1. k \in Nat \ {0} /\ n \in Int /\ n <= Len(t) /\ k <= n
          BY <1>1, <3>2 DEF n
        <5> QED BY <1>1, <5>1, PartOfText
      <4> DEFINE a == <<t[k]>>
                 b == SubSeq(t, k + 1, n)
      <4>3. IsText(a) /\ Len(a) = 1 /\ a[1] = t[k]
        BY Single
      <4>3a. IsText(b) /\ Len(b) = n - k
        BY <4>1
      <4> HIDE DEF a, b
      <4>4. /\ IsText(a \o b) /\ Len(a \o b) = 1 + (n - k)
            /\ \A j \in 1..1 : (a \o b)[j] = a[j]
            /\ \A j \in 1..(n - k) : (a \o b)[1 + j] = b[j]
        <5>1. /\ IsText(a \o b) /\ Len(a \o b) = Len(a) + Len(b)
              /\ \A j \in 1..Len(a) : (a \o b)[j] = a[j]
              /\ \A j \in 1..Len(b) : (a \o b)[Len(a) + j] = b[j]
            <6>1. IsText(a) /\ IsText(b)
              BY <4>3, <4>3a
            <6> QED BY <6>1, Joined
          <5> QED BY <4>3, <4>3a, <5>1
      <4>5. ASSUME NEW j \in 1..(n - k + 1) PROVE (a \o b)[j] = t[k + j - 1]
        <5>1. CASE j = 1
          BY <3>2, <4>3, <4>4, <5>1
        <5>2. CASE j # 1
          <6>1. j - 1 \in 1..(n - k) /\ 1 + (j - 1) = j /\ n - (k + 1) + 1 = n - k /\ k + 1 + (j - 1) - 1 = k + j - 1
            BY <1>1, <3>2, <5>2
          <6>2. (a \o b)[1 + (j - 1)] = b[j - 1] /\ b[j - 1] = t[k + 1 + (j - 1) - 1]
            BY <4>1, <4>4, <6>1 DEF b
          <6> QED BY <6>1, <6>2
        <5> QED BY <5>1, <5>2
      <4>6. Len(a \o b) = n - k + 1 /\ n - k + 1 \in Nat
        BY <1>1, <3>2, <4>4
      <4> HIDE DEF b
      <4>7. a \o b = SubSeq(t, k, n)
        BY <4>2, <4>4, <4>5, <4>6, SameText
      <4> QED BY <4>7 DEF a, b
    <3> QED BY <3>2, <3>4, <3>5 DEF k
  <2> QED BY <2>1, <2>2
<1>12. Nat \subseteq T
  <2> HIDE DEF T
  <2> QED BY <1>11, Induction
<1>13. f[pos[n - n] + 1] = SubSeq(t, n - n + 1, n)
  BY <1>1, <1>12
<1>14. n - n = 0 /\ pos[0] + 1 = 1 /\ n - n + 1 = 1
  BY <1>1, <1>7
<1>15. SubSeq(t, 1, n) = t
  <2>1. At(t, 1, t) /\ 1 \in Nat \ {0} /\ 1 + Len(t) - 1 = n
    BY <1>1, AtItself DEF n
  <2> QED BY <1>1, <2>1, AtIsPart
<1> QED BY <1>3, <1>8, <1>13, <1>14, <1>15 DEF e

\* Texts of one symbol are equal when the symbols are.
LEMMA SameWord ==
  \A x, y : <<x>> = <<y>> <=> x = y
<1> SUFFICES ASSUME NEW x, NEW y, <<x>> = <<y>> PROVE x = y
  OBVIOUS
<1>1. <<x>>[1] = x /\ <<y>>[1] = y
  BY Single
<1> QED BY <1>1

\* A text and nothing.
LEMMA JoinedEmpty ==
  \A s : IsText(s) => s \o <<>> = s /\ <<>> \o s = s
<1> SUFFICES ASSUME NEW s, IsText(s) PROVE s \o <<>> = s /\ <<>> \o s = s
  OBVIOUS
<1>1. IsText(<<>>) /\ Len(<<>>) = 0 /\ Len(s) \in Nat
  BY Single DEF IsText
<1>2. /\ IsText(s \o <<>>) /\ Len(s \o <<>>) = Len(s) + Len(<<>>)
      /\ \A i \in 1..Len(s) : (s \o <<>>)[i] = s[i]
  BY <1>1, Joined
<1>3. /\ IsText(<<>> \o s) /\ Len(<<>> \o s) = Len(<<>>) + Len(s)
      /\ \A i \in 1..Len(s) : (<<>> \o s)[Len(<<>>) + i] = s[i]
  BY <1>1, Joined
<1>4. s \o <<>> = s
  <2>1. Len(s \o <<>>) = Len(s)
    BY <1>1, <1>2
  <2> QED BY <1>2, <2>1, SameText
<1>5. <<>> \o s = s
  <2>1. Len(<<>> \o s) = Len(s) /\ \A i \in 1..Len(s) : Len(<<>>) + i = i
    BY <1>1, <1>3
  <2> QED BY <1>3, <2>1, SameText
<1> QED BY <1>4, <1>5

\* Three texts, one after the other.
LEMMA JoinedTwice ==
  \A s, t, u : IsText(s) /\ IsText(t) /\ IsText(u) => s \o (t \o u) = s \o t \o u
<1> SUFFICES ASSUME NEW s, NEW t, NEW u, IsText(s), IsText(t), IsText(u) PROVE s \o (t \o u) = s \o t \o u
  OBVIOUS
<1> DEFINE a == s \o t
           b == t \o u
           x == s \o b
           y == a \o u
           k == Len(s)
           l == Len(t)
           m == Len(u)
<1>1. /\ IsText(a) /\ Len(a) = k + l /\ k \in Nat /\ l \in Nat /\ m \in Nat
      /\ (\A i \in 1..k : a[i] = s[i]) /\ (\A i \in 1..l : a[k + i] = t[i])
      /\ IsText(b) /\ Len(b) = l + m
      /\ (\A i \in 1..l : b[i] = t[i]) /\ (\A i \in 1..m : b[l + i] = u[i])
  BY Joined
<1> HIDE DEF a, b, k, l, m
<1>2. /\ IsText(x) /\ Len(x) = k + (l + m) /\ (\A i \in 1..k : x[i] = s[i])
      /\ \A i \in 1..l + m : x[k + i] = b[i]
  <2>1. /\ IsText(s \o b) /\ Len(s \o b) = Len(s) + Len(b) /\ (\A i \in 1..Len(s) : (s \o b)[i] = s[i])
        /\ \A i \in 1..Len(b) : (s \o b)[Len(s) + i] = b[i]
    BY <1>1, Joined
  <2> QED BY <1>1, <2>1 DEF k
<1>3. /\ IsText(y) /\ Len(y) = k + l + m /\ (\A i \in 1..k + l : y[i] = a[i])
      /\ \A i \in 1..m : y[k + l + i] = u[i]
  <2>1. /\ IsText(a \o u) /\ Len(a \o u) = Len(a) + Len(u) /\ (\A i \in 1..Len(a) : (a \o u)[i] = a[i])
        /\ \A i \in 1..Len(u) : (a \o u)[Len(a) + i] = u[i]
    BY <1>1, Joined
  <2> QED BY <1>1, <2>1 DEF m
<1> HIDE DEF x, y
<1>4. ASSUME NEW i \in 1..k + (l + m) PROVE x[i] = y[i]
  <2>1. CASE i \in 1..k
    <3>1. i \in 1..k + l
      BY <1>1, <2>1
    <3> QED BY <1>1, <1>2, <1>3, <2>1, <3>1
  <2>2. CASE i \notin 1..k
    <3> DEFINE j == i - k
    <3>1. j \in 1..l + m /\ k + j = i
      BY <1>1, <2>2
    <3> HIDE DEF j
    <3>2. x[i] = b[j]
      BY <1>2, <3>1
    <3>3. CASE j \in 1..l
      <4>1. i \in 1..k + l
        BY <1>1, <3>1, <3>3
      <4> QED BY <1>1, <1>3, <3>1, <3>2, <3>3, <4>1
    <3>4. CASE j \notin 1..l
      <4> DEFINE d == j - l
      <4>1. d \in 1..m /\ l + d = j /\ k + l + d = i
        BY <1>1, <3>1, <3>4
      <4> HIDE DEF d
      <4> QED BY <1>1, <1>3, <3>2, <4>1
    <3> QED BY <3>3, <3>4
  <2> QED BY <2>1, <2>2
<1>5. k + (l + m) = k + l + m
  BY <1>1
<1>6. x = y
  BY <1>2, <1>3, <1>4, <1>5, SameText
<1> QED BY <1>6 DEF x, y, a, b

(***************************************************************************)
(* What the browser and the pages encode, the server decodes.               *)
(***************************************************************************)

\* What may stand in an encoded text besides the characters that need no escape.
CodeSigns == HexDigits \cup {"%", "+"}

\* x is a character of the text that is not escaped.
Kept(x, codes, t, i) == x = t[i] /\ codes[i] = <<t[i]>>

\* The symbols of an encoded text.
LEMMA CodeSymbols ==
  ASSUME NEW codes, NEW t, NEW plus, CodesOf(codes, t, plus), NEW p \in 1..Len(FlattenSeq(codes))
  PROVE  FlattenSeq(codes)[p] \in CodeSigns \/ \E i \in 1..Len(t) : Kept(FlattenSeq(codes)[p], codes, t, i)
<1> DEFINE e == FlattenSeq(codes)
           n == Len(t)
<1>1. /\ n \in Nat /\ Len(codes) = n /\ \A i \in 1..n : Codes3(codes[i], t[i], plus)
  BY DEF CodesOf, IsText
<1>2. Texts(codes) /\ \A i \in 1..n : IsText(codes[i])
  BY <1>1, DecodedIs, CodeIsText
<1>3. PICK pos : Laid(e, n, codes, pos)
  BY <1>1, <1>2, FlattenedTexts
<1> HIDE DEF e
<1>4. p \in 1..Len(e)
  BY DEF e
<1>4a. PICK i \in 1..n : Covered(e, codes, pos, p, i)
  BY <1>1, <1>2, <1>3, <1>4, LaidCovers
<1>5. /\ pos[i - 1] \in Nat /\ pos[i] = pos[i - 1] + Len(codes[i])
      /\ p - pos[i - 1] \in 1..Len(codes[i]) /\ e[p] = codes[i][p - pos[i - 1]]
  BY <1>4a DEF Covered
<1> DEFINE j == p - pos[i - 1]
           c == codes[i]
<1>6. j \in 1..Len(c) /\ e[p] = c[j] /\ Codes3(c, t[i], plus) /\ IsText(c)
  BY <1>1, <1>2, <1>5
<1> HIDE DEF j, c
<1>7. CASE c = <<t[i]>>
  <2>1. Len(<<t[i]>>) = 1 /\ <<t[i]>>[1] = t[i]
    BY Single
  <2>2. j = 1
    BY <1>6, <1>7, <2>1
  <2>3. e[p] = t[i]
    BY <1>6, <1>7, <2>1, <2>2
  <2> QED BY <1>7, <2>3 DEF c, e, Kept
<1>8. CASE c = <<"+">>
  <2>1. Len(<<"+">>) = 1 /\ <<"+">>[1] = "+"
    BY Single
  <2>2. j = 1
    BY <1>6, <1>8, <2>1
  <2>3. e[p] = "+"
    BY <1>6, <1>8, <2>1, <2>2
  <2> QED BY <2>3 DEF e, CodeSigns
<1>9. CASE t[i] \in DOMAIN Codes /\ c = <<"%">> \o Codes[t[i]]
  <2>1. /\ Len(c) = 3 /\ c[1] = "%" /\ c[2] = Codes[t[i]][1] /\ c[3] = Codes[t[i]][2]
        /\ {Codes[t[i]][1], Codes[t[i]][2]} \subseteq HexDigits
    BY <1>6, <1>9, CodeIsText
  <2>2. j = 1 \/ j = 2 \/ j = 3
    BY <1>6, <2>1
  <2>3. e[p] \in CodeSigns
    BY <1>6, <2>1, <2>2 DEF CodeSigns
  <2> QED BY <2>3 DEF e
<1> QED BY <1>6, <1>7, <1>8, <1>9 DEF Codes3

\* Escaped(c) stands for c.
LEMMA EscapedCode ==
  ASSUME NEW c, NEW plus
  PROVE  Codes3(Escaped(c), c, plus) /\ (Escaped(c) = <<c>> => c \notin DOMAIN Codes)
<1>1. CASE c \in DOMAIN Codes
  <2>1. Escaped(c) = <<"%">> \o Codes[c]
    BY <1>1 DEF Escaped
  <2>2. Codes3(Escaped(c), c, plus)
    BY <1>1, <2>1 DEF Codes3
  <2>3. Len(Escaped(c)) = 3 /\ Len(<<c>>) = 1
    BY <1>1, <2>1, <2>2, CodeIsText, Single
  <2> QED BY <2>2, <2>3
<1>2. CASE c \notin DOMAIN Codes
  <2>1. Escaped(c) = <<c>> /\ c # "%" /\ c # "+"
    BY <1>2, CodesAssumption DEF Escaped
  <2> QED BY <1>2, <2>1 DEF Codes3
<1> QED BY <1>1, <1>2

\* e is written for t, each of its characters by itself or by a code.
Coded(e, t, plus) == \E codes : CodesOf(codes, t, plus) /\ e = FlattenSeq(codes)

\* What is written for t is decoded to t.
LEMMA CodedIs ==
  ASSUME NEW e, NEW t, NEW plus, Coded(e, t, plus)
  PROVE  IsText(e) /\ IsText(t) /\ Decoded(e, plus) = t
<1>1. PICK codes : CodesOf(codes, t, plus) /\ e = FlattenSeq(codes)
  BY DEF Coded
<1>2. Texts(codes) /\ Decoded(e, plus) = t
  BY <1>1, DecodedIs
<1> QED BY <1>1, <1>2, FlattenedTexts DEF CodesOf

\* None of the symbols stands in the text.
Avoids(t, S) == \A p \in 1..Len(t) : t[p] \notin S

\* e encodes t: it is decoded to it, and of the characters that are escaped it
\* holds only those of an escape.
Encodes(e, t, plus) ==
  /\ Coded(e, t, plus)
  /\ \A S : Avoids(t, S \ DOMAIN Codes) /\ S \cap CodeSigns = {} => Avoids(e, S)

\* The texts in codes write each character of t that has a code by it.
LEMMA EncodesIs ==
  ASSUME NEW codes, NEW t, NEW plus, CodesOf(codes, t, plus),
         \A i \in 1..Len(t) : codes[i] = <<t[i]>> => t[i] \notin DOMAIN Codes
  PROVE  Encodes(FlattenSeq(codes), t, plus)
<1> DEFINE e == FlattenSeq(codes)
<1>1. Coded(e, t, plus)
  BY DEF Coded
<1>2. ASSUME NEW S, Avoids(t, S \ DOMAIN Codes), S \cap CodeSigns = {}, NEW p \in 1..Len(e), e[p] \in S
      PROVE  FALSE
  <2>1. e[p] \notin CodeSigns
    BY <1>2
  <2>2. PICK i \in 1..Len(t) : Kept(e[p], codes, t, i)
    BY <2>1, CodeSymbols
  <2>3. t[i] = e[p] /\ t[i] \notin DOMAIN Codes
    BY <2>2 DEF Kept
  <2> QED BY <1>2, <2>3 DEF Avoids
<1>3. \A S : Avoids(t, S \ DOMAIN Codes) /\ S \cap CodeSigns = {} => Avoids(e, S)
  <2> HIDE DEF e
  <2> QED BY <1>2 DEF Avoids
<1> QED BY <1>1, <1>3 DEF Encodes

\* UrlEncode and UrlDecode.
LEMMA UrlEncodeIs ==
  ASSUME NEW t, IsText(t), NEW plus
  PROVE  Encodes(UrlEncode(t), t, plus)
<1> DEFINE n == Len(t)
           codes == [i \in 1..n |-> Escaped(t[i])]
<1>1. n \in Nat /\ DOMAIN codes = 1..n /\ codes = [i \in 1..n |-> codes[i]] /\ \A i \in 1..n : codes[i] = Escaped(t[i])
  BY DEF IsText
<1>2. UrlEncode(t) = FlattenSeq(codes)
  BY DEF UrlEncode
<1> HIDE DEF codes
<1>3. IsText(codes) /\ Len(codes) = n
  BY <1>1, TextOf
<1>4. CodesOf(codes, t, plus)
  BY <1>1, <1>3, EscapedCode DEF CodesOf
<1>5. \A i \in 1..Len(t) : codes[i] = <<t[i]>> => t[i] \notin DOMAIN Codes
  BY <1>1, EscapedCode
<1> QED BY <1>2, <1>4, <1>5, EncodesIs

\* What the browser makes of the value of a form.
LEMMA FormEncodeIs ==
  ASSUME NEW t, IsText(t)
  PROVE  Encodes(FormEncode(t), t, " ")
<1> DEFINE n == Len(t)
           codes == [i \in 1..n |-> IF t[i] = " " THEN <<"+">> ELSE Escaped(t[i])]
<1>1. /\ n \in Nat /\ DOMAIN codes = 1..n /\ codes = [i \in 1..n |-> codes[i]]
      /\ \A i \in 1..n : codes[i] = IF t[i] = " " THEN <<"+">> ELSE Escaped(t[i])
  BY DEF IsText
<1>2. FormEncode(t) = FlattenSeq(codes)
  BY DEF FormEncode
<1> HIDE DEF codes
<1>3. IsText(codes) /\ Len(codes) = n
  BY <1>1, TextOf
<1>4. ASSUME NEW i \in 1..n PROVE Codes3(codes[i], t[i], " ") /\ (codes[i] = <<t[i]>> => t[i] \notin DOMAIN Codes)
  <2>1. CASE t[i] = " "
    <3>1. codes[i] = <<"+">> /\ <<"+">> # <<" ">>
      BY <1>1, <2>1, SameWord
    <3> QED BY <2>1, <3>1 DEF Codes3
  <2>2. CASE t[i] # " "
    <3>1. codes[i] = Escaped(t[i])
      BY <1>1, <2>2
    <3> QED BY <3>1, EscapedCode
  <2> QED BY <2>1, <2>2
<1>5. CodesOf(codes, t, " ")
  BY <1>3, <1>4 DEF CodesOf
<1>6. \A i \in 1..Len(t) : codes[i] = <<t[i]>> => t[i] \notin DOMAIN Codes
  BY <1>4
<1> QED BY <1>2, <1>5, <1>6, EncodesIs

\* The text holds no word that HtmlEscape writes.
Unescaped(t) == IsText(t) /\ \A i \in 1..Len(t) : \A c \in DOMAIN Entities : t[i] # Entities[c]

\* h is t with some of its characters escaped for HTML.
Escapes(h, t) ==
  /\ IsText(h) /\ Len(h) = Len(t)
  /\ \A i \in 1..Len(t) : h[i] = t[i] \/ (t[i] \in DOMAIN Entities /\ h[i] = Entities[t[i]])

\* The browser undoes what HtmlEscape has done ...
LEMMA UnescapeIs ==
  ASSUME NEW t, Unescaped(t), NEW h, Escapes(h, t)
  PROVE  Unescape(h) = t
<1> DEFINE n == Len(t)
           u == Unescape(h)
<1>1. n \in Nat /\ IsText(t) /\ IsText(h) /\ Len(h) = n
  BY DEF IsText, Unescaped, Escapes
<1>2. /\ DOMAIN u = 1..n /\ u = [i \in 1..n |-> u[i]]
      /\ \A i \in 1..n : u[i] = IF \E c \in DOMAIN Entities : Entities[c] = h[i]
                                THEN CHOOSE c \in DOMAIN Entities : Entities[c] = h[i] ELSE h[i]
  BY <1>1 DEF Unescape
<1> HIDE DEF u
<1>3. IsText(u) /\ Len(u) = n
  BY <1>1, <1>2, TextOf
<1>4. ASSUME NEW i \in 1..n PROVE u[i] = t[i]
  <2>1. CASE t[i] \in DOMAIN Entities /\ h[i] = Entities[t[i]]
    <3> DEFINE d == CHOOSE c \in DOMAIN Entities : Entities[c] = h[i]
    <3>1. d \in DOMAIN Entities /\ Entities[d] = Entities[t[i]]
      BY <2>1
    <3>2. u[i] = d
      BY <1>2, <2>1
    <3> HIDE DEF d
    <3> QED BY <2>1, <3>1, <3>2, EntitiesAssumption
  <2>2. CASE h[i] = t[i]
    <3>1. \A c \in DOMAIN Entities : Entities[c] # h[i]
      BY <2>2 DEF Unescaped
    <3> QED BY <1>2, <2>2, <3>1
  <2> QED BY <2>1, <2>2 DEF Escapes
<1> QED BY <1>1, <1>3, <1>4, SameText DEF u

\* ... to any text,
LEMMA HtmlEscapeIs ==
  ASSUME NEW t, IsText(t)
  PROVE  Escapes(HtmlEscape(t), t)
<1> DEFINE n == Len(t)
           h == HtmlEscape(t)
<1>1. n \in Nat
  BY DEF IsText
<1>2. /\ DOMAIN h = 1..n /\ h = [i \in 1..n |-> h[i]]
      /\ \A i \in 1..n : h[i] = IF t[i] \in DOMAIN Entities THEN Entities[t[i]] ELSE t[i]
  BY DEF HtmlEscape
<1> HIDE DEF h
<1>3. IsText(h) /\ Len(h) = n
  BY <1>1, <1>2, TextOf
<1> QED BY <1>2, <1>3 DEF Escapes, h

\* and joined texts are escaped one by one.
LEMMA EscapesJoined ==
  \A g, h, t, u : Unescaped(t) /\ Unescaped(u) /\ Escapes(g, t) /\ Escapes(h, u) =>
                    Unescaped(t \o u) /\ Escapes(g \o h, t \o u)
<1> SUFFICES ASSUME NEW g, NEW h, NEW t, NEW u, Unescaped(t), Unescaped(u), Escapes(g, t), Escapes(h, u)
             PROVE  Unescaped(t \o u) /\ Escapes(g \o h, t \o u)
  OBVIOUS
<1>1. IsText(t) /\ IsText(u) /\ IsText(g) /\ IsText(h) /\ Len(g) = Len(t) /\ Len(h) = Len(u)
  BY DEF Unescaped, Escapes
<1>2. /\ IsText(t \o u) /\ Len(t \o u) = Len(t) + Len(u) /\ Len(t) \in Nat /\ Len(u) \in Nat
      /\ \A i \in 1..Len(t) : (t \o u)[i] = t[i]
      /\ \A i \in 1..Len(u) : (t \o u)[Len(t) + i] = u[i]
  BY <1>1, Joined
<1>3. /\ IsText(g \o h) /\ Len(g \o h) = Len(g) + Len(h)
      /\ \A i \in 1..Len(g) : (g \o h)[i] = g[i]
      /\ \A i \in 1..Len(h) : (g \o h)[Len(g) + i] = h[i]
  BY <1>1, Joined
<1>4. ASSUME NEW p \in 1..Len(t \o u)
      PROVE  \/ p \in 1..Len(t) /\ (t \o u)[p] = t[p] /\ (g \o h)[p] = g[p]
             \/ \E i \in 1..Len(u) : (t \o u)[p] = u[i] /\ (g \o h)[p] = h[i]
  <2>1. CASE p \in 1..Len(t)
    BY <1>1, <1>2, <1>3, <2>1
  <2>2. CASE p \notin 1..Len(t)
    <3> DEFINE i == p - Len(t)
    <3>1. i \in 1..Len(u) /\ p = Len(t) + i
      BY <1>2, <2>2
    <3> HIDE DEF i
    <3>2. (t \o u)[p] = u[i] /\ (g \o h)[p] = h[i]
      BY <1>1, <1>2, <1>3, <3>1
    <3> QED BY <3>1, <3>2
  <2> QED BY <2>1, <2>2
<1>5. Unescaped(t \o u)
  <2>1. /\ \A i \in 1..Len(t) : \A c \in DOMAIN Entities : t[i] # Entities[c]
        /\ \A i \in 1..Len(u) : \A c \in DOMAIN Entities : u[i] # Entities[c]
    BY DEF Unescaped
  <2>2. ASSUME NEW p \in 1..Len(t \o u), NEW c \in DOMAIN Entities PROVE (t \o u)[p] # Entities[c]
    BY <1>4, <2>1
  <2> QED BY <1>2, <2>2 DEF Unescaped
<1>6. ASSUME NEW p \in 1..Len(t \o u)
      PROVE  \/ (g \o h)[p] = (t \o u)[p]
             \/ (t \o u)[p] \in DOMAIN Entities /\ (g \o h)[p] = Entities[(t \o u)[p]]
  BY <1>4 DEF Escapes
<1>7. Len(g \o h) = Len(t \o u)
  BY <1>1, <1>2, <1>3
<1> QED BY <1>3, <1>5, <1>6, <1>7 DEF Escapes

(***************************************************************************)
(* Encoded texts, one after the other; the URL the browser makes of a link.*)
(***************************************************************************)

\* What is in neither of two texts is not in both joined.
LEMMA AvoidsJoined ==
  \A a, b, S : IsText(a) /\ IsText(b) /\ Avoids(a, S) /\ Avoids(b, S) => Avoids(a \o b, S)
<1> SUFFICES ASSUME NEW a, NEW b, NEW S, IsText(a), IsText(b), Avoids(a, S), Avoids(b, S),
                    NEW p \in 1..Len(a \o b)
             PROVE  (a \o b)[p] \notin S
  BY DEF Avoids
<1>1. /\ Len(a \o b) = Len(a) + Len(b) /\ Len(a) \in Nat /\ Len(b) \in Nat
      /\ \A i \in 1..Len(a) : (a \o b)[i] = a[i]
      /\ \A i \in 1..Len(b) : (a \o b)[Len(a) + i] = b[i]
  BY Joined
<1>2. CASE p \in 1..Len(a)
  BY <1>1, <1>2 DEF Avoids
<1>3. CASE p \notin 1..Len(a)
  <2> DEFINE i == p - Len(a)
  <2>1. i \in 1..Len(b) /\ p = Len(a) + i
    BY <1>1, <1>3
  <2> HIDE DEF i
  <2> QED BY <1>1, <2>1 DEF Avoids
<1> QED BY <1>2, <1>3

\* A text of one symbol.
LEMMA AvoidsSymbol == \A x, S : x \notin S => Avoids(<<x>>, S)
<1> SUFFICES ASSUME NEW x, NEW S, x \notin S PROVE Avoids(<<x>>, S)
  OBVIOUS
<1>1. Len(<<x>>) = 1 /\ <<x>>[1] = x /\ \A i \in 1..1 : i = 1
  BY Single
<1> QED BY <1>1 DEF Avoids

\* Codes of two texts are codes of the joined text.
LEMMA CodesJoined ==
  ASSUME NEW a, NEW b, NEW t, NEW u, NEW plus, CodesOf(a, t, plus), CodesOf(b, u, plus)
  PROVE  CodesOf(a \o b, t \o u, plus)
<1>1. IsText(a) /\ IsText(b) /\ IsText(t) /\ IsText(u) /\ Len(a) = Len(t) /\ Len(b) = Len(u)
  BY DEF CodesOf
<1>2. /\ IsText(a \o b) /\ Len(a \o b) = Len(a) + Len(b) /\ Len(a) \in Nat /\ Len(b) \in Nat
      /\ \A i \in 1..Len(a) : (a \o b)[i] = a[i]
      /\ \A i \in 1..Len(b) : (a \o b)[Len(a) + i] = b[i]
  BY <1>1, Joined
<1>3. /\ IsText(t \o u) /\ Len(t \o u) = Len(t) + Len(u)
      /\ \A i \in 1..Len(t) : (t \o u)[i] = t[i]
      /\ \A i \in 1..Len(u) : (t \o u)[Len(t) + i] = u[i]
  BY <1>1, Joined
<1>4. ASSUME NEW p \in 1..Len(t \o u) PROVE Codes3((a \o b)[p], (t \o u)[p], plus)
  <2>1. CASE p \in 1..Len(t)
    <3>1. (a \o b)[p] = a[p] /\ (t \o u)[p] = t[p]
      BY <1>1, <1>2, <1>3, <2>1
    <3> QED BY <2>1, <3>1 DEF CodesOf
  <2>2. CASE p \notin 1..Len(t)
    <3> DEFINE i == p - Len(t)
    <3>1. i \in 1..Len(u) /\ p = Len(t) + i
      BY <1>1, <1>2, <1>3, <2>2
    <3> HIDE DEF i
    <3>2. (a \o b)[p] = b[i] /\ (t \o u)[p] = u[i]
      BY <1>1, <1>2, <1>3, <3>1
    <3> QED BY <3>1, <3>2 DEF CodesOf
  <2> QED BY <2>1, <2>2
<1>5. IsText(a \o b) /\ IsText(t \o u) /\ Len(a \o b) = Len(t \o u)
  BY <1>1, <1>2, <1>3
<1> QED BY <1>4, <1>5 DEF CodesOf

\* What is written for two texts is written for the joined text.
LEMMA CodedJoined ==
  \A a, b, t, u, plus : Coded(a, t, plus) /\ Coded(b, u, plus) => Coded(a \o b, t \o u, plus)
<1> SUFFICES ASSUME NEW a, NEW b, NEW t, NEW u, NEW plus, Coded(a, t, plus), Coded(b, u, plus)
             PROVE  Coded(a \o b, t \o u, plus)
  OBVIOUS
<1>1. PICK c : CodesOf(c, t, plus) /\ a = FlattenSeq(c)
  BY DEF Coded
<1>2. PICK d : CodesOf(d, u, plus) /\ b = FlattenSeq(d)
  BY DEF Coded
<1>3. Texts(c) /\ Texts(d)
  BY <1>1, <1>2, DecodedIs
<1>4. CodesOf(c \o d, t \o u, plus)
  BY <1>1, <1>2, CodesJoined
<1>5. FlattenSeq(c \o d) = a \o b
  BY <1>1, <1>2, <1>3, FlattenJoined
<1> QED BY <1>4, <1>5 DEF Coded

\* A single text, flattened.
LEMMA FlattenSingle ==
  ASSUME NEW t, IsText(t)
  PROVE  FlattenSeq(<<t>>) = t
<1> DEFINE s == <<t>>
<1>1. Len(s) = 1 /\ s[1] = t /\ (\A i \in 1..1 : i = 1) /\ 1 \in Nat \ {0}
  BY Single
<1> HIDE DEF s
<1>2. \A i \in 1..1 : IsText(s[i])
  BY <1>1
<1>3. PICK f : Flattens(f, 1, s)
  BY <1>1, <1>2, FlattenRecursion
<1>4. FlattenSeq(s) = t
  BY <1>1, <1>3 DEF Flattens
<1> QED BY <1>4 DEF s

\* A symbol written by itself.
LEMMA CodedSymbol ==
  \A c, plus : c # "%" /\ (c = "+" => plus = "+") => Coded(<<c>>, <<c>>, plus)
<1> SUFFICES ASSUME NEW c, NEW plus, c # "%", c = "+" => plus = "+" PROVE Coded(<<c>>, <<c>>, plus)
  OBVIOUS
<1> DEFINE t == <<c>>
           s == <<t>>
<1>1. IsText(t) /\ Len(t) = 1 /\ t[1] = c /\ IsText(s) /\ Len(s) = 1 /\ s[1] = t /\ \A i \in 1..1 : i = 1
  <2>1. IsText(t) /\ Len(t) = 1 /\ t[1] = c
    BY Single
  <2> HIDE DEF t
  <2>2. IsText(s) /\ Len(s) = 1 /\ s[1] = t
    BY Single
  <2>3. \A i \in 1..1 : i = 1
    OBVIOUS
  <2> QED BY <2>1, <2>2, <2>3
<1>2. Codes3(t, c, plus)
  BY DEF Codes3
<1>3. FlattenSeq(s) = t
  BY <1>1, FlattenSingle
<1> HIDE DEF s, t
<1>4. CodesOf(s, t, plus)
  BY <1>1, <1>2 DEF CodesOf
<1>5. Coded(t, t, plus)
  BY <1>3, <1>4 DEF Coded
<1> QED BY <1>5 DEF t

\* A text is made of its symbols.
LEMMA SymbolsFlat ==
  ASSUME NEW t, IsText(t), NEW s, IsText(s), Len(s) = Len(t), \A i \in 1..Len(t) : s[i] = <<t[i]>>
  PROVE  FlattenSeq(s) = t
<1> DEFINE n == Len(t)
           pos == [i \in 0..n |-> i]
<1>1. n \in Nat /\ Len(s) = n
  BY DEF IsText
<1>2. \A i \in 1..n : IsText(s[i]) /\ Len(s[i]) = 1 /\ s[i][1] = t[i]
  BY Single, SMTT(30)
<1>3. Texts(s)
  BY <1>1, <1>2 DEF Texts
<1>4. PICK f : Laid(FlattenSeq(s), n, s, f)
  BY <1>1, <1>3, FlattenedTexts
<1>5. pos \in [0..n -> Nat] /\ pos[0] = 0 /\ pos[n] = n /\ \A i \in 1..n : pos[i] = i /\ pos[i - 1] = i - 1
  BY <1>1
<1> HIDE DEF pos
<1>6. ASSUME NEW i \in 1..n PROVE pos[i] = pos[i - 1] + Len(s[i]) /\ At(t, pos[i - 1] + 1, s[i])
  <2>1. pos[i] = i /\ pos[i - 1] + 1 = i /\ i \in Nat /\ i <= n
    BY <1>1, <1>5
  <2>2. At(t, i, <<t[i]>>)
    BY <1>1, <2>1, AtSymbol
  <2>3. At(t, pos[i - 1] + 1, s[i])
    BY <2>1, <2>2
  <2>4. pos[i] = pos[i - 1] + 1
    BY <1>1, <1>5
  <2> QED BY <1>2, <2>3, <2>4
<1>7. Laid(t, n, s, pos)
  BY <1>5, <1>6 DEF Laid
<1>8. IsText(FlattenSeq(s))
  BY <1>3, FlattenedTexts
<1> QED BY <1>1, <1>2, <1>4, <1>7, <1>8, LaidUnique

\* How the browser writes a URL.
UrlCodes(t) == [i \in 1..Len(t) |-> IF t[i] = " " THEN Escaped(" ") ELSE <<t[i]>>]

\* The codes of a URL are those of its symbols: only a blank is escaped.
LEMMA UrlCodesAre ==
  ASSUME NEW t, IsText(t)
  PROVE  /\ Texts(UrlCodes(t)) /\ Len(UrlCodes(t)) = Len(t) /\ UrlOf(t) = FlattenSeq(UrlCodes(t))
         /\ \A i \in 1..Len(t) : UrlCodes(t)[i] = IF t[i] = " " THEN Escaped(" ") ELSE <<t[i]>>
         /\ IsText(UrlOf(t))
<1> DEFINE s == UrlCodes(t)
           n == Len(t)
<1>1. /\ n \in Nat /\ DOMAIN s = 1..n /\ s = [i \in 1..n |-> s[i]]
      /\ \A i \in 1..n : s[i] = IF t[i] = " " THEN Escaped(" ") ELSE <<t[i]>>
  BY DEF UrlCodes, IsText
<1>2. UrlOf(t) = FlattenSeq(s)
  BY DEF UrlOf, UrlCodes
<1> HIDE DEF s
<1>3. IsText(s) /\ Len(s) = n
  BY <1>1, TextOf
<1>4. IsText(Escaped(" "))
  BY EscapedCode, CodeIsText
<1>5. Texts(s)
  <2>1. ASSUME NEW i \in 1..n PROVE IsText(s[i])
    <3>1. s[i] = Escaped(" ") \/ s[i] = <<t[i]>>
      BY <1>1
    <3> QED BY <1>4, <3>1, Single
  <2> HIDE DEF n
  <2> QED BY <1>3, <2>1 DEF Texts
<1> QED BY <1>1, <1>2, <1>3, <1>5, FlattenedTexts DEF s

\* A URL of two parts is written part by part.
LEMMA UrlOfJoined ==
  \A a, b : IsText(a) /\ IsText(b) => UrlOf(a \o b) = UrlOf(a) \o UrlOf(b)
<1> SUFFICES ASSUME NEW a, NEW b, IsText(a), IsText(b) PROVE UrlOf(a \o b) = UrlOf(a) \o UrlOf(b)
  OBVIOUS
<1> DEFINE c == UrlCodes(a)
           d == UrlCodes(b)
           e == UrlCodes(a \o b)
<1>1. /\ IsText(a \o b) /\ Len(a \o b) = Len(a) + Len(b) /\ Len(a) \in Nat /\ Len(b) \in Nat
      /\ \A i \in 1..Len(a) : (a \o b)[i] = a[i]
      /\ \A i \in 1..Len(b) : (a \o b)[Len(a) + i] = b[i]
  BY Joined
<1>2. /\ Texts(c) /\ Len(c) = Len(a) /\ UrlOf(a) = FlattenSeq(c)
      /\ \A i \in 1..Len(a) : c[i] = IF a[i] = " " THEN Escaped(" ") ELSE <<a[i]>>
  BY UrlCodesAre
<1>3. /\ Texts(d) /\ Len(d) = Len(b) /\ UrlOf(b) = FlattenSeq(d)
      /\ \A i \in 1..Len(b) : d[i] = IF b[i] = " " THEN Escaped(" ") ELSE <<b[i]>>
  BY UrlCodesAre
<1>4. /\ Texts(e) /\ Len(e) = Len(a \o b) /\ UrlOf(a \o b) = FlattenSeq(e)
      /\ \A i \in 1..Len(a \o b) : e[i] = IF (a \o b)[i] = " " THEN Escaped(" ") ELSE <<(a \o b)[i]>>
  BY <1>1, UrlCodesAre
<1> HIDE DEF c, d, e
<1>5. IsText(c) /\ IsText(d) /\ IsText(e)
  BY <1>2, <1>3, <1>4 DEF Texts
<1>6. /\ IsText(c \o d) /\ Len(c \o d) = Len(c) + Len(d)
      /\ \A i \in 1..Len(c) : (c \o d)[i] = c[i]
      /\ \A i \in 1..Len(d) : (c \o d)[Len(c) + i] = d[i]
  BY <1>5, Joined
<1>7. ASSUME NEW p \in 1..Len(e) PROVE e[p] = (c \o d)[p]
  <2>1. CASE p \in 1..Len(a)
    <3>1. (a \o b)[p] = a[p] /\ (c \o d)[p] = c[p] /\ p \in 1..Len(a \o b)
      BY <1>1, <1>2, <1>4, <1>6, <2>1
    <3> QED BY <1>2, <1>4, <2>1, <3>1
  <2>2. CASE p \notin 1..Len(a)
    <3> DEFINE i == p - Len(a)
    <3>1. i \in 1..Len(b) /\ p = Len(a) + i
      <4>1. Len(e) = Len(a) + Len(b)
        BY <1>1, <1>4
      <4>2. p \in 1..Len(a) + Len(b)
        BY <4>1
      <4> QED BY <1>1, <2>2, <4>2
    <3> HIDE DEF i
    <3>2. (a \o b)[p] = b[i] /\ (c \o d)[p] = d[i] /\ p \in 1..Len(a \o b)
      BY <1>1, <1>2, <1>3, <1>4, <1>6, <3>1
    <3> QED BY <1>3, <1>4, <3>1, <3>2
  <2> QED BY <2>1, <2>2
<1>8. e = c \o d
  <2>1. Len(e) = Len(c \o d)
    BY <1>1, <1>2, <1>3, <1>4, <1>6
  <2> QED BY <1>5, <1>6, <1>7, <2>1, SameText
<1>9. FlattenSeq(c \o d) = FlattenSeq(c) \o FlattenSeq(d)
  BY <1>2, <1>3, FlattenJoined
<1> QED BY <1>2, <1>3, <1>4, <1>8, <1>9

\* A URL without blanks is written as it is.
LEMMA UrlOfPlain ==
  ASSUME NEW t, IsText(t), Avoids(t, {" "})
  PROVE  UrlOf(t) = t
<1>1. /\ IsText(UrlCodes(t)) /\ Len(UrlCodes(t)) = Len(t) /\ UrlOf(t) = FlattenSeq(UrlCodes(t))
      /\ \A i \in 1..Len(t) : UrlCodes(t)[i] = IF t[i] = " " THEN Escaped(" ") ELSE <<t[i]>>
  BY UrlCodesAre DEF Texts
<1>2. \A i \in 1..Len(t) : UrlCodes(t)[i] = <<t[i]>>
  BY <1>1 DEF Avoids
<1> QED BY <1>1, <1>2, SymbolsFlat

\* A URL without percent signs is decoded to itself.
LEMMA UrlOfPath ==
  ASSUME NEW t, IsText(t), Avoids(t, {"%"})
  PROVE  /\ Coded(UrlOf(t), t, "+")
         /\ \A S : Avoids(t, S \ {" "}) /\ S \cap CodeSigns = {} => Avoids(UrlOf(t), S)
<1> DEFINE c == UrlCodes(t)
           u == UrlOf(t)
<1>1. /\ IsText(c) /\ Len(c) = Len(t) /\ u = FlattenSeq(c)
      /\ \A i \in 1..Len(t) : c[i] = IF t[i] = " " THEN Escaped(" ") ELSE <<t[i]>>
  BY UrlCodesAre DEF Texts
<1> HIDE DEF c, u
<1>2. CodesOf(c, t, "+")
  <2>1. ASSUME NEW i \in 1..Len(t) PROVE Codes3(c[i], t[i], "+")
    <3>1. CASE t[i] = " "
      BY <1>1, <3>1, EscapedCode
    <3>2. CASE t[i] # " "
      BY <1>1, <3>2 DEF Codes3, Avoids
    <3> QED BY <3>1, <3>2
  <2> QED BY <1>1, <2>1 DEF CodesOf
<1>3. Coded(u, t, "+")
  BY <1>1, <1>2 DEF Coded
<1>4. ASSUME NEW S, Avoids(t, S \ {" "}), S \cap CodeSigns = {}, NEW p \in 1..Len(u), u[p] \in S
      PROVE  FALSE
  <2>1. PICK i \in 1..Len(t) : Kept(u[p], c, t, i)
    BY <1>1, <1>2, <1>4, CodeSymbols
  <2>2. t[i] = u[p] /\ c[i] = <<t[i]>> /\ t[i] = " "
    BY <1>4, <2>1 DEF Kept, Avoids
  <2>3. Escaped(" ") = <<" ">>
    BY <1>1, <2>2
  <2> QED BY <2>3, EscapedCode, CodesAssumption
<1>5. \A S : Avoids(t, S \ {" "}) /\ S \cap CodeSigns = {} => Avoids(u, S)
  BY <1>4 DEF Avoids
<1> QED BY <1>3, <1>5 DEF u

(***************************************************************************)
(* The links to files.                                                     *)
(***************************************************************************)

\* A name the pages can write: of a user, a file or a directory.
Name(t) == Unescaped(t) /\ Avoids(t, {CR, LF})

\* What the server serves for an open wish.
Opened(user, path) == <<"/">> \o user \o <<"/">> \o path

\* The link to a file.
LEMMA LinkIs ==
  ASSUME NEW user, Name(user), NEW path, Name(path)
  PROVE  Unescape(FileLink(user, path)) = <<"/">> \o UrlEncode(user) \o <<"/">> \o path
<1> DEFINE e == UrlEncode(user)
           x == <<"/">> \o e \o <<"/">> \o path
           h == <<"/">> \o HtmlEscape(e) \o <<"/">> \o HtmlEscape(path)
<1>1. h = FileLink(user, path)
  BY DEF FileLink
<1>2. IsText(user) /\ IsText(path) /\ Unescaped(path) /\ Unescaped(user)
  BY DEF Name, Unescaped
<1>3. Encodes(e, user, "+") /\ IsText(e)
  BY <1>2, UrlEncodeIs, CodedIs DEF Encodes
<1> HIDE DEF e
<1>4. Unescaped(e)
  <2> DEFINE S == {Entities[c] : c \in DOMAIN Entities}
  <2>1. Avoids(user, S \ DOMAIN Codes) /\ S \cap CodeSigns = {}
    BY <1>2, EntitiesAssumption DEF Avoids, Unescaped, CodeSigns
  <2>2. Avoids(e, S)
    <3> HIDE DEF S
    <3> QED BY <1>3, <2>1 DEF Encodes
  <2> QED BY <1>3, <2>2 DEF Avoids, Unescaped
<1>5. Unescaped(<<"/">>) /\ Escapes(<<"/">>, <<"/">>) /\ IsText(<<"/">>)
  <2> DEFINE s == <<"/">>
  <2>1. IsText(s) /\ Len(s) = 1 /\ s[1] = "/" /\ \A i \in 1..1 : i = 1
    BY Single
  <2> HIDE DEF s
  <2>2. Unescaped(s) /\ Escapes(s, s)
    BY <2>1, EntitiesAssumption DEF Unescaped, Escapes
  <2> QED BY <2>1, <2>2 DEF s
<1>6. Escapes(HtmlEscape(e), e) /\ Escapes(HtmlEscape(path), path)
  BY <1>2, <1>3, HtmlEscapeIs
<1> DEFINE s == <<"/">>
           he == HtmlEscape(e)
           hp == HtmlEscape(path)
<1> HIDE DEF s, he, hp
<1>7. Unescaped(s) /\ Escapes(s, s) /\ Unescaped(e) /\ Escapes(he, e) /\ Unescaped(path) /\ Escapes(hp, path)
  BY <1>2, <1>4, <1>5, <1>6 DEF s, he, hp
<1>8. Unescaped(s \o e) /\ Escapes(s \o he, s \o e)
  BY <1>7, EscapesJoined
<1>9. Unescaped(s \o e \o s) /\ Escapes(s \o he \o s, s \o e \o s)
  BY <1>7, <1>8, EscapesJoined
<1>10. Unescaped(s \o e \o s \o path) /\ Escapes(s \o he \o s \o hp, s \o e \o s \o path)
  BY <1>7, <1>9, EscapesJoined
<1>11. Unescape(s \o he \o s \o hp) = s \o e \o s \o path
  BY <1>10, UnescapeIs
<1> QED BY <1>1, <1>11 DEF s, he, hp, e

\* A slash is written by itself.
LEMMA SlashIs ==
  /\ IsText(<<"/">>) /\ Coded(<<"/">>, <<"/">>, "+") /\ UrlOf(<<"/">>) = <<"/">>
  /\ \A S : "/" \notin S => Avoids(<<"/">>, S)
<1> DEFINE s == <<"/">>
<1>1. IsText(s) /\ Len(s) = 1 /\ s[1] = "/" /\ \A i \in 1..1 : i = 1
  BY Single
<1>2. Coded(s, s, "+")
  BY CodedSymbol
<1> HIDE DEF s
<1>3. \A S : "/" \notin S => Avoids(s, S)
  BY <1>1 DEF Avoids
<1>4. UrlOf(s) = s
  <2>1. "/" \notin {" "}
    OBVIOUS
  <2>2. Avoids(s, {" "})
    BY ONLY <1>3, <2>1
  <2> QED BY <1>1, <2>2, UrlOfPlain
<1> QED BY <1>1, <1>2, <1>3, <1>4 DEF s

\* The URL the browser opens, and what DecodeUrlPath makes of it.
LEMMA OpenUrlIs ==
  ASSUME NEW user, Name(user), NEW path, Name(path), Avoids(path, {"?", "%"}),
         NEW url, url = UrlOf(Unescape(FileLink(user, path)))
  PROVE  /\ IsText(url) /\ Avoids(url, {SP, LF, "?"})
         /\ Decoded(url, "+") = Opened(user, path)
<1> DEFINE e == UrlEncode(user)
           s == <<"/">>
           v == UrlOf(path)
<1>1. IsText(user) /\ IsText(path)
  BY DEF Name, Unescaped
<1>2. Encodes(e, user, "+") /\ IsText(e) /\ Coded(e, user, "+")
  BY <1>1, UrlEncodeIs, CodedIs DEF Encodes
<1>3. IsText(s) /\ Coded(s, s, "+") /\ UrlOf(s) = s /\ Avoids(s, {SP, LF, "?"})
  BY SlashIs DEF SP, LF
<1>4. url = UrlOf(s \o e \o s \o path)
  BY LinkIs
<1>5. Avoids(user, {SP, LF, "?", " "} \ DOMAIN Codes) /\ {SP, LF, "?", " "} \cap CodeSigns = {}
  BY CodesAssumption DEF Name, Avoids, CodeSigns, HexDigits, SP, LF
<1> HIDE DEF e, s
<1>6. Avoids(e, {SP, LF, "?", " "})
  BY <1>2, <1>5 DEF Encodes
<1>7. UrlOf(e) = e /\ Avoids(e, {SP, LF, "?"})
  <2>1. Avoids(e, {" "}) /\ Avoids(e, {SP, LF, "?"})
    BY <1>6 DEF Avoids
  <2> QED BY <1>2, <2>1, UrlOfPlain
<1>8. IsText(s \o e) /\ UrlOf(s \o e) = s \o e /\ Coded(s \o e, s \o user, "+") /\ Avoids(s \o e, {SP, LF, "?"})
  <2>1. IsText(s) /\ IsText(e)
    BY <1>2, <1>3
  <2>2. UrlOf(s \o e) = s \o e
    BY <1>3, <1>7, <2>1, UrlOfJoined
  <2>3. Coded(s \o e, s \o user, "+")
    BY <1>2, <1>3, CodedJoined
  <2>4. Avoids(s \o e, {SP, LF, "?"})
    BY <1>3, <1>7, <2>1, AvoidsJoined
  <2> QED BY <2>1, <2>2, <2>3, <2>4, Joined
<1> DEFINE a == s \o e
           su == s \o user
<1> HIDE DEF a, su
<1>9. IsText(a \o s) /\ UrlOf(a \o s) = a \o s /\ Coded(a \o s, su \o s, "+") /\ Avoids(a \o s, {SP, LF, "?"})
  <2>0. IsText(a) /\ UrlOf(a) = a /\ Coded(a, su, "+") /\ Avoids(a, {SP, LF, "?"})
    BY <1>8 DEF a, su
  <2>1. IsText(a) /\ IsText(s)
    BY <1>3, <2>0
  <2>2. UrlOf(a \o s) = a \o s
    <3>1. UrlOf(a \o s) = UrlOf(a) \o UrlOf(s)
      BY <2>1, UrlOfJoined
    <3> QED BY <1>3, <2>0, <3>1
  <2>3. Coded(a \o s, su \o s, "+")
    BY <1>3, <2>0, CodedJoined
  <2>4. Avoids(a \o s, {SP, LF, "?"})
    BY <1>3, <2>0, <2>1, AvoidsJoined
  <2> QED BY <2>1, <2>2, <2>3, <2>4, Joined
<1> DEFINE b == a \o s
           sus == su \o s
<1> HIDE DEF b, sus
<1>10. Coded(v, path, "+") /\ IsText(v) /\ Avoids(v, {SP, LF, "?"})
  <2>1. Avoids(path, {"%"}) /\ Avoids(path, {SP, LF, "?"} \ {" "})
    BY DEF Avoids, Name, SP, LF
  <2>2. /\ Coded(v, path, "+")
        /\ \A S : Avoids(path, S \ {" "}) /\ S \cap CodeSigns = {} => Avoids(v, S)
    BY <1>1, <2>1, UrlOfPath
  <2>3. {SP, LF, "?"} \cap CodeSigns = {}
    BY <1>5
  <2> HIDE DEF v
  <2> QED BY <2>1, <2>2, <2>3, CodedIs
<1>11. url = b \o v
  <2>1. IsText(b) /\ IsText(path) /\ UrlOf(b) = b
    BY <1>1, <1>9 DEF b
  <2>2. UrlOf(b \o path) = UrlOf(b) \o UrlOf(path)
    BY <2>1, UrlOfJoined
  <2> QED BY <1>4, <2>1, <2>2 DEF a, b
<1> HIDE DEF v
<1>12. IsText(b) /\ Coded(b, sus, "+") /\ Avoids(b, {SP, LF, "?"})
  BY <1>9 DEF b, sus
<1>13. Coded(url, sus \o path, "+") /\ Avoids(url, {SP, LF, "?"})
  BY <1>10, <1>11, <1>12, CodedJoined, AvoidsJoined
<1>14. IsText(url) /\ Decoded(url, "+") = sus \o path
  BY <1>13, CodedIs
<1> QED BY <1>13, <1>14 DEF sus, su, s, Opened

(***************************************************************************)
(* Forms.                                                                  *)
(***************************************************************************)

\* What a find of one symbol returns.
LEMMA FindWithin ==
  ASSUME NEW s, IsText(s), NEW x, NEW from \in Nat \ {0}
  PROVE  \/ Find(s, <<x>>, from) = 0
         \/ /\ Find(s, <<x>>, from) \in Nat /\ from <= Find(s, <<x>>, from)
            /\ Find(s, <<x>>, from) <= Len(s)
<1> DEFINE hits == {i \in from..Len(s) + 1 - Len(<<x>>) : SubSeq(s, i, i + Len(<<x>>) - 1) = <<x>>}
           n == Len(s)
<1>1. n \in Nat /\ Len(<<x>>) = 1
  BY Single DEF IsText
<1>2. Find(s, <<x>>, from) = IF hits = {} THEN 0 ELSE Min(hits)
  BY DEF Find
<1>3. hits \subseteq Nat /\ \A i \in hits : from <= i /\ i <= n
  <2>1. from..n + 1 - 1 \subseteq Nat /\ \A i \in from..n + 1 - 1 : from <= i /\ i <= n
    BY <1>1
  <2> QED BY <1>1, <2>1
<1> HIDE DEF hits, n
<1>4. CASE hits # {}
  <2>1. Min(hits) \in hits
    BY <1>3, <1>4, MinIs
  <2> QED BY <1>2, <1>3, <1>4, <2>1 DEF n
<1> QED BY <1>2, <1>4

\* A field at a position of a form, and those after it.
FieldAt(body, pos, later) ==
  LET amp == Find(body, <<"&">>, pos)
      end == IF amp = 0 THEN Len(body) + 1 ELSE amp
      eq == Find(body, <<"=">>, pos)
      name == UrlDecode(SubSeq(body, pos, eq - 1))
  IN  IF eq # 0 /\ eq < end /\ name \notin DOMAIN later
      THEN WithField(later, name, UrlDecode(SubSeq(body, eq + 1, end - 1)))
      ELSE later

\* The fields behind the one at pos, as the recursion has them.
LaterFields(body, pos, f) ==
  IF Find(body, <<"&">>, pos) = 0 THEN NoFields ELSE f[Find(body, <<"&">>, pos) + 1]

\* What ParseFormUrlEncoded returns satisfies the recursion it is defined by.
ParsesForm(body, f) ==
  /\ ParseFormUrlEncoded(body) = f[1]
  /\ \A pos \in 1..Len(body) + 1 : f[pos] = FieldAt(body, pos, LaterFields(body, pos, f))

\* The recursion of ParseFormUrlEncoded has a solution.
LEMMA FormRecursion ==
  ASSUME NEW body, IsText(body)
  PROVE  \E f : ParsesForm(body, f)
<1> DEFINE n == Len(body)
           D == 1..n + 1
           N == {UrlDecode(SubSeq(body, x[1], x[2])) : x \in Int \X Int}
           S == UNION {[K -> N] : K \in SUBSET N}
           rank == [i \in D |-> n + 1 - i]
           Value3(i, f) == FieldAt(body, i, LaterFields(body, i, f))
           F == [x \in D \X [D -> S] |-> Value3(x[1], x[2])]
<1>1. n \in Nat /\ 1 \in D
  BY DEF IsText
<1>2. \A i \in D : /\ Find(body, <<"&">>, i) \in Nat /\ Find(body, <<"=">>, i) \in Nat
                   /\ (Find(body, <<"&">>, i) = 0 \/ (Find(body, <<"&">>, i) + 1 \in D /\ i < Find(body, <<"&">>, i) + 1))
  <2> SUFFICES ASSUME NEW i \in D
               PROVE  /\ Find(body, <<"&">>, i) \in Nat /\ Find(body, <<"=">>, i) \in Nat
                      /\ (Find(body, <<"&">>, i) = 0 \/ (Find(body, <<"&">>, i) + 1 \in D /\ i < Find(body, <<"&">>, i) + 1))
    OBVIOUS
  <2> DEFINE amp == Find(body, <<"&">>, i)
             eq == Find(body, <<"=">>, i)
  <2>1. i \in Nat \ {0}
    BY <1>1
  <2>2. amp = 0 \/ (amp \in Nat /\ i <= amp /\ amp <= n)
    BY <2>1, FindWithin
  <2>3. eq \in Nat
    BY <2>1, FindWithin
  <2> HIDE DEF amp, eq, n
  <2>4. amp = 0 \/ (amp + 1 \in D /\ i < amp + 1)
    BY <1>1, <2>1, <2>2
  <2> QED BY <2>2, <2>3, <2>4 DEF amp, eq
<1>3. NoFields \in S
  <2>1. NoFields \in [{} -> N] /\ {} \in SUBSET N
    BY DEF NoFields
  <2> HIDE DEF N
  <2> QED BY <2>1
<1>4. ASSUME NEW g \in S, NEW name \in N, NEW value \in N PROVE WithField(g, name, value) \in S
  <2> HIDE DEF N
  <2>1. PICK K \in SUBSET N : g \in [K -> N]
    OBVIOUS
  <2>2. WithField(g, name, value) \in [K \cup {name} -> N] /\ K \cup {name} \in SUBSET N
    BY <2>1 DEF WithField
  <2> HIDE DEF S
  <2> QED BY <2>2 DEF S
<1>5. ASSUME NEW a \in Int, NEW b \in Int PROVE UrlDecode(SubSeq(body, a, b)) \in N
  <2>1. <<a, b>> \in Int \X Int
    OBVIOUS
  <2> QED BY <2>1
<1>6. rank \in [D -> 0..n + 1] /\ \A i, j \in D : i < j => rank[j] < rank[i]
  BY <1>1
<1> HIDE DEF N, S, n
<1>7. ASSUME NEW i \in D, NEW f \in [D -> S] PROVE Value3(i, f) \in S
  <2> DEFINE amp == Find(body, <<"&">>, i)
             eq == Find(body, <<"=">>, i)
             end == IF amp = 0 THEN Len(body) + 1 ELSE amp
             later == LaterFields(body, i, f)
             name == UrlDecode(SubSeq(body, i, eq - 1))
             value == UrlDecode(SubSeq(body, eq + 1, end - 1))
  <2>1. later \in S
    BY <1>2, <1>3 DEF LaterFields
  <2>2. i \in Int /\ eq - 1 \in Int /\ eq + 1 \in Int /\ end - 1 \in Int
    BY <1>1, <1>2 DEF n
  <2>3. name \in N /\ value \in N
    BY <1>5, <2>2
  <2>4. Value3(i, f) = WithField(later, name, value) \/ Value3(i, f) = later
    BY DEF FieldAt
  <2> HIDE DEF later, name, value, Value3
  <2> QED BY <1>4, <2>1, <2>3, <2>4
<1>8. ASSUME NEW i \in D, NEW f \in [D -> S], NEW g \in [D -> S],
             \A j \in D : rank[j] < rank[i] => f[j] = g[j]
      PROVE  Value3(i, f) = Value3(i, g)
  <2>1. LaterFields(body, i, f) = LaterFields(body, i, g)
    BY <1>2, <1>6, <1>8 DEF LaterFields
  <2> QED BY <2>1
<1> HIDE DEF Value3, rank, D
<1>9. F \in [D \X [D -> S] -> S] /\ \A i \in D : \A f \in [D -> S] : F[<<i, f>>] = Value3(i, f)
  BY <1>7
<1> HIDE DEF F
<1>10. RespectsRank(D, S, rank, F)
  BY <1>8, <1>9 DEF RespectsRank
<1>11. PICK f : Solves(f, D, S, F)
  <2>1. S # {} /\ n + 1 \in Nat /\ rank \in [D -> 0..n + 1] /\ F \in [D \X [D -> S] -> S]
    BY <1>1, <1>3, <1>6, <1>9
  <2> QED BY <1>10, <2>1, RecursionExists
<1>12. f \in [D -> S] /\ \A i \in D : f[i] = Value3(i, f)
  BY <1>9, <1>11 DEF Solves
<1> DEFINE IsFields(g) ==
             g = [pos \in 1..Len(body) + 1 |->
                    LET amp == Find(body, <<"&">>, pos)
                        end == IF amp = 0 THEN Len(body) + 1 ELSE amp
                        eq == Find(body, <<"=">>, pos)
                        later == IF amp = 0 THEN NoFields ELSE g[amp + 1]
                        name == UrlDecode(SubSeq(body, pos, eq - 1))
                    IN  IF eq # 0 /\ eq < end /\ name \notin DOMAIN later
                        THEN WithField(later, name, UrlDecode(SubSeq(body, eq + 1, end - 1)))
                        ELSE later]
           fields == CHOOSE g : IsFields(g)
<1>13. \A g : IsFields(g) <=> g = [pos \in D |-> Value3(pos, g)]
  BY DEF Value3, D, n, FieldAt, LaterFields
<1>14. IsFields(f)
  <2>1. f = [pos \in D |-> Value3(pos, f)]
    BY <1>12
  <2> HIDE DEF IsFields
  <2> QED BY <1>13, <2>1
<1>15. IsFields(fields)
  BY <1>14
<1>16. ParseFormUrlEncoded(body) = fields[1]
  BY DEF ParseFormUrlEncoded
<1> HIDE DEF fields, IsFields
<1>17. \A i \in D : fields[i] = Value3(i, fields)
  BY <1>13, <1>15
<1> QED BY <1>16, <1>17 DEF ParsesForm, Value3, D, n

\* body is the form of two fields: x1=e1&x2=e2.
TwoFields(body, x1, e1, x2, e2) ==
  /\ IsText(body) /\ IsText(e1) /\ IsText(e2) /\ Len(body) = Len(e1) + Len(e2) + 5
  /\ body[1] = x1 /\ body[2] = "=" /\ At(body, 3, e1)
  /\ body[Len(e1) + 3] = "&" /\ body[Len(e1) + 4] = x2 /\ body[Len(e1) + 5] = "="
  /\ At(body, Len(e1) + 6, e2)

\* A name that stands for itself in a form.
FieldName(x) == x \notin {"%", "+", "&", "="}

\* The name of a field is decoded to itself.
LEMMA FieldNameIs ==
  ASSUME NEW x, FieldName(x)
  PROVE  UrlDecode(<<x>>) = <<x>>
<1>1. Coded(<<x>>, <<x>>, " ")
  BY CodedSymbol DEF FieldName
<1> QED BY <1>1, CodedIs DEF UrlDecode

\* A field at a position, and where it ends.
FieldText(body, pos, x, e) == body[pos] = x /\ body[pos + 1] = "=" /\ At(body, pos + 2, e)

\* The field with the encoded value e ends at the next ampersand or with the form.
FieldEnds(body, pos, e) ==
  /\ pos + Len(e) + 1 <= Len(body)
  /\ \/ Find(body, <<"&">>, pos) = pos + Len(e) + 2
     \/ Find(body, <<"&">>, pos) = 0 /\ Len(body) = pos + Len(e) + 1

\* What a field at pos adds to the later ones.
LEMMA FieldIs ==
  ASSUME NEW body, IsText(body), NEW pos \in Nat \ {0}, NEW x, FieldName(x), NEW e, IsText(e), NEW t,
         UrlDecode(e) = t, FieldText(body, pos, x, e), FieldEnds(body, pos, e),
         NEW later, <<x>> \notin DOMAIN later
  PROVE  FieldAt(body, pos, later) = WithField(later, <<x>>, t)
<1> DEFINE amp == Find(body, <<"&">>, pos)
           end == IF amp = 0 THEN Len(body) + 1 ELSE amp
           eq == Find(body, <<"=">>, pos)
           name == UrlDecode(SubSeq(body, pos, eq - 1))
           value == UrlDecode(SubSeq(body, eq + 1, end - 1))
           n == Len(e)
<1>1. /\ n \in Nat /\ Len(body) \in Nat /\ body[pos] = x /\ body[pos + 1] = "=" /\ At(body, pos + 2, e)
      /\ pos + n + 1 <= Len(body) /\ (amp = pos + n + 2 \/ (amp = 0 /\ Len(body) = pos + n + 1))
  BY DEF IsText, FieldText, FieldEnds
<1>2. end = pos + n + 2
  <2> HIDE DEF amp, n
  <2> QED BY <1>1
<1>3. eq = pos + 1
  <2>1. pos + 1 \in pos..Len(body) /\ body[pos + 1] = "="
    BY <1>1
  <2>2. \A q \in pos..(pos + 1) - 1 : q = pos
    OBVIOUS
  <2>3. \A q \in pos..(pos + 1) - 1 : body[q] # "="
    BY <1>1, <2>2 DEF FieldName
  <2> QED BY <1>1, <2>1, <2>3, FindSymbol
<1>4. name = <<x>>
  <2>1. IsText(<<x>>) /\ Len(<<x>>) = 1
    BY Single
  <2>2. At(body, pos, <<x>>)
    BY <1>1, AtSymbol
  <2>3. SubSeq(body, pos, pos + 1 - 1) = <<x>>
    BY <2>1, <2>2, AtIsPart
  <2>4. eq - 1 = pos + 1 - 1
    BY <1>3
  <2> HIDE DEF eq
  <2> QED BY <2>3, <2>4, FieldNameIs
<1>5. value = t
  <2>1. pos + 2 \in Nat \ {0} /\ pos + 2 + n - 1 = end - 1 /\ eq + 1 = pos + 2
    BY <1>1, <1>2, <1>3
  <2>2. SubSeq(body, pos + 2, pos + 2 + n - 1) = e
    BY <1>1, <2>1, AtIsPart
  <2> HIDE DEF eq, end
  <2> QED BY <2>1, <2>2
<1>6. eq # 0 /\ eq < end
  BY <1>1, <1>2, <1>3
<1>7. FieldAt(body, pos, later)
        = IF eq # 0 /\ eq < end /\ name \notin DOMAIN later THEN WithField(later, name, value) ELSE later
  BY DEF FieldAt
<1> HIDE DEF eq, end, name, value
<1> QED BY <1>4, <1>5, <1>6, <1>7

\* A form of two fields is parsed into both.
LEMMA TwoFieldsParsed ==
  ASSUME NEW body, NEW x1, NEW e1, NEW x2, NEW e2, TwoFields(body, x1, e1, x2, e2),
         FieldName(x1), FieldName(x2), x1 # x2, NEW t1, UrlDecode(e1) = t1, NEW t2, UrlDecode(e2) = t2,
         Avoids(e1, {"&"}), Avoids(e2, {"&"})
  PROVE  ParseFormUrlEncoded(body) = WithField(WithField(NoFields, <<x2>>, t2), <<x1>>, t1)
<1> DEFINE n1 == Len(e1)
           n2 == Len(e2)
           p == n1 + 4
<1>1. /\ IsText(body) /\ IsText(e1) /\ IsText(e2) /\ n1 \in Nat /\ n2 \in Nat
      /\ Len(body) = n1 + n2 + 5
      /\ body[1] = x1 /\ body[2] = "=" /\ At(body, 3, e1)
      /\ body[n1 + 3] = "&" /\ body[p] = x2 /\ body[n1 + 5] = "=" /\ At(body, n1 + 6, e2)
  BY DEF TwoFields, IsText
<1>2. (\A i \in 1..n1 : body[3 + i - 1] = e1[i] /\ e1[i] # "&") /\ \A i \in 1..n2 : body[n1 + 6 + i - 1] = e2[i] /\ e2[i] # "&"
  BY <1>1 DEF At, Avoids
<1>3. Find(body, <<"&">>, 1) = n1 + 3
  <2>1. n1 + 3 \in 1..Len(body) /\ 1 \in Nat \ {0}
    BY <1>1
  <2>2. ASSUME NEW q \in 1..(n1 + 3) - 1 PROVE body[q] # "&"
    <3>1. q = 1 \/ q = 2 \/ (q - 2 \in 1..n1 /\ 3 + (q - 2) - 1 = q)
      BY <1>1
    <3>2. CASE q = 1 \/ q = 2
      BY <1>1, <3>2 DEF FieldName
    <3>3. CASE q - 2 \in 1..n1 /\ 3 + (q - 2) - 1 = q
      <4>1. body[3 + (q - 2) - 1] = e1[q - 2] /\ e1[q - 2] # "&"
        BY <1>2, <3>3
      <4> QED BY <3>3, <4>1
    <3> QED BY <3>1, <3>2, <3>3
  <2> DEFINE k == n1 + 3
  <2>3. k \in 1..Len(body) /\ body[k] = "&" /\ \A q \in 1..(k - 1) : body[q] # "&"
    BY <1>1, <2>1, <2>2
  <2> HIDE DEF k
  <2>4. Find(body, <<"&">>, 1) = k
    BY <1>1, <2>1, <2>3, FindSymbol
  <2> QED BY <2>4 DEF k
<1>4. Find(body, <<"&">>, p) = 0
  <2>1. p \in Nat \ {0}
    BY <1>1
  <2>2. ASSUME NEW q \in p..Len(body) PROVE body[q] # "&"
    <3> DEFINE i == q - n1 - 5
    <3>1. q = p \/ q = n1 + 5 \/ (i \in 1..n2 /\ n1 + 6 + i - 1 = q)
      BY <1>1
    <3>2. CASE q = p \/ q = n1 + 5
      BY <1>1, <3>2 DEF FieldName
    <3>3. CASE i \in 1..n2 /\ n1 + 6 + i - 1 = q
      <4> HIDE DEF i
      <4>1. body[n1 + 6 + i - 1] = e2[i] /\ e2[i] # "&"
        BY <1>2, <3>3
      <4> QED BY <3>3, <4>1
    <3> QED BY <3>1, <3>2, <3>3
  <2> HIDE DEF p
  <2> QED BY <1>1, <2>1, <2>2, FindSymbol
<1>5. PICK f : ParsesForm(body, f)
  BY <1>1, FormRecursion
<1>6. /\ ParseFormUrlEncoded(body) = f[1]
      /\ \A pos \in 1..Len(body) + 1 : f[pos] = FieldAt(body, pos, LaterFields(body, pos, f))
  BY <1>5 DEF ParsesForm
<1>7. f[p] = WithField(NoFields, <<x2>>, t2)
  <2>1. p \in 1..Len(body) + 1 /\ p \in Nat \ {0}
    BY <1>1
  <2>2. LaterFields(body, p, f) = NoFields
    BY <1>4 DEF LaterFields
  <2>3. f[p] = FieldAt(body, p, NoFields)
    BY <1>6, <2>1, <2>2
  <2>4. /\ p + 1 = n1 + 5 /\ p + 2 = n1 + 6 /\ p + n2 + 1 <= Len(body) /\ Len(body) = p + n2 + 1
    BY <1>1
  <2> HIDE DEF p
  <2>5. body[p] = x2 /\ body[p + 1] = "=" /\ At(body, p + 2, e2)
    BY <1>1, <2>4
  <2>6. <<x2>> \notin DOMAIN NoFields
    BY DEF NoFields
  <2>6a. FieldText(body, p, x2, e2) /\ FieldEnds(body, p, e2)
    BY <1>1, <1>4, <2>4, <2>5 DEF FieldText, FieldEnds
  <2>7. FieldAt(body, p, NoFields) = WithField(NoFields, <<x2>>, t2)
    BY <1>1, <2>1, <2>6, <2>6a, FieldIs
  <2> QED BY <2>3, <2>7
<1>8. f[1] = WithField(f[p], <<x1>>, t1)
  <2>1. 1 \in 1..Len(body) + 1 /\ 1 \in Nat \ {0}
    BY <1>1
  <2>2. LaterFields(body, 1, f) = f[p]
    <3>1. n1 + 3 # 0 /\ n1 + 3 + 1 = p
      BY <1>1
    <3> HIDE DEF p
    <3> QED BY <1>3, <3>1 DEF LaterFields
  <2>3. f[1] = FieldAt(body, 1, f[p])
    BY <1>6, <2>1, <2>2
  <2>4. 1 + 1 = 2 /\ 1 + 2 = 3 /\ 1 + n1 + 1 <= Len(body) /\ 1 + n1 + 2 = n1 + 3
    BY <1>1
  <2> HIDE DEF p
  <2>5. body[1] = x1 /\ body[1 + 1] = "=" /\ At(body, 1 + 2, e1)
    BY <1>1, <2>4
  <2>6. <<x1>> \notin DOMAIN f[p]
    <3>1. DOMAIN f[p] = {<<x2>>}
      BY <1>7 DEF WithField, NoFields
    <3> QED BY <3>1, SameWord
  <2>7. Find(body, <<"&">>, 1) = 1 + n1 + 2
    BY <1>3, <2>4
  <2>7a. FieldText(body, 1, x1, e1) /\ FieldEnds(body, 1, e1)
    BY <1>1, <2>4, <2>5, <2>7 DEF FieldText, FieldEnds
  <2>8. FieldAt(body, 1, f[p]) = WithField(f[p], <<x1>>, t1)
    BY <1>1, <2>1, <2>6, <2>7a, FieldIs
  <2> QED BY <2>3, <2>8
<1> QED BY <1>6, <1>7, <1>8

\* Two symbols, one after the other.
LEMMA PairIs == \A x, y : <<x>> \o <<y>> = <<x, y>>
<1> SUFFICES ASSUME NEW x, NEW y PROVE <<x>> \o <<y>> = <<x, y>>
  OBVIOUS
<1> DEFINE a == <<x>>
           b == <<y>>
           c == <<x, y>>
<1>1. /\ IsText(a) /\ IsText(b) /\ IsText(c) /\ Len(a) = 1 /\ Len(b) = 1 /\ Len(c) = 2
      /\ a[1] = x /\ b[1] = y /\ c[1] = x /\ c[2] = y
  BY Single
<1> HIDE DEF a, b, c
<1>2. /\ IsText(a \o b) /\ Len(a \o b) = Len(a) + Len(b)
      /\ \A i \in 1..Len(a) : (a \o b)[i] = a[i]
      /\ \A i \in 1..Len(b) : (a \o b)[Len(a) + i] = b[i]
  <2>1. IsText(a) /\ IsText(b)
    BY <1>1
  <2> QED BY <2>1, Joined
<1>3. Len(a \o b) = 2 /\ (a \o b)[1] = x /\ (a \o b)[2] = y
  <2>1. 1 \in 1..1 /\ 1 + 1 = 2
    OBVIOUS
  <2> QED BY <1>1, <1>2, <2>1
<1>4. \A i \in 1..2 : i = 1 \/ i = 2
  OBVIOUS
<1>5. a \o b = c
  <2> DEFINE d == a \o b
  <2>1. IsText(d) /\ Len(d) = 2 /\ d[1] = x /\ d[2] = y
    BY <1>2, <1>3
  <2> HIDE DEF d
  <2>2. IsText(c) /\ Len(d) = Len(c) /\ \A i \in 1..Len(d) : d[i] = c[i]
    BY <1>1, <1>4, <2>1
  <2>3. d = c
    BY <2>1, <2>2, SameText
  <2> QED BY <2>3 DEF d
<1> QED BY <1>5 DEF a, b, c

\* Two texts, flattened.
LEMMA FlattenTwo ==
  ASSUME NEW s, Len(s) = 2, IsText(s[1]), IsText(s[2])
  PROVE  FlattenSeq(s) = s[1] \o s[2]
<1>1. \A i \in 1..2 : i = 1 \/ i = 2
  OBVIOUS
<1>2. \A i \in 1..2 : IsText(s[i])
  BY <1>1
<1>3. PICK f : Flattens(f, 2, s)
  BY <1>2, 2 \in Nat \ {0}, FlattenRecursion
<1>4. f[1] = s[1] /\ FlattenSeq(s) = f[2] /\ f[2] = f[2 - 1] \o s[2]
  BY <1>3, 2 \in 2..2 DEF Flattens
<1>5. 2 - 1 = 1
  OBVIOUS
<1> QED BY <1>4, <1>5

\* A form made of two fields.
LEMMA TwoFieldsMade ==
  ASSUME NEW x1, NEW x2, NEW e1, IsText(e1), NEW e2, IsText(e2),
         NEW a, IsText(a), Len(a) = 2, a[1] = x1, a[2] = "=",
         NEW b, IsText(b), Len(b) = 3, b[1] = "&", b[2] = x2, b[3] = "="
  PROVE  TwoFields((a \o e1) \o (b \o e2), x1, e1, x2, e2)
<1> DEFINE p1 == a \o e1
           p2 == b \o e2
           body == p1 \o p2
           n1 == Len(e1)
           n2 == Len(e2)
<1>1. IsText(a) /\ IsText(e1) /\ IsText(b) /\ IsText(e2)
  OBVIOUS
<1>2. IsText(p1) /\ Len(p1) = 2 + n1 /\ n1 \in Nat
  <2>1. IsText(a \o e1) /\ Len(a \o e1) = Len(a) + Len(e1) /\ Len(e1) \in Nat
    BY <1>1, Joined
  <2> QED BY <2>1
<1>3. IsText(p2) /\ Len(p2) = 3 + n2 /\ n2 \in Nat
  <2>1. IsText(b \o e2) /\ Len(b \o e2) = Len(b) + Len(e2) /\ Len(e2) \in Nat
    BY <1>1, Joined
  <2> QED BY <2>1
<1>4. IsText(p1) /\ IsText(p2)
  BY <1>2, <1>3
<1> HIDE DEF p1, p2
<1>5. IsText(body) /\ Len(body) = Len(p1) + Len(p2)
  BY <1>4, Joined
<1>6. At(body, 1, p1) /\ At(body, 1 + Len(p1), p2)
  <2>1. At(body, 1, body)
    BY <1>5, AtItself
  <2>2. IsText(body) /\ IsText(p1) /\ IsText(p2) /\ 1 \in Nat
    BY <1>4, <1>5
  <2> QED BY <2>1, <2>2, AtJoined
<1> HIDE DEF body
<1>7. At(body, 1, a) /\ At(body, 1 + Len(a), e1)
  <2>1. IsText(body) /\ IsText(a) /\ IsText(e1) /\ 1 \in Nat
    BY <1>1, <1>5
  <2>2. At(body, 1, a \o e1)
    BY <1>6 DEF p1
  <2> QED BY <2>1, <2>2, AtJoined
<1> DEFINE k == 1 + Len(p1)
<1>8. k = n1 + 3 /\ k \in Nat
  BY <1>2
<1>9. At(body, k, b) /\ At(body, k + Len(b), e2)
  <2>1. IsText(body) /\ IsText(b) /\ IsText(e2) /\ k \in Nat
    BY <1>1, <1>5, <1>8
  <2>2. At(body, k, b \o e2)
    BY <1>6 DEF p2
  <2> QED BY <2>1, <2>2, AtJoined
<1> HIDE DEF k, n1, n2
<1>10. body[1] = x1 /\ body[2] = "=" /\ At(body, 3, e1)
  <2>1. 1 \in 1..Len(a) /\ 2 \in 1..Len(a) /\ 1 + 1 - 1 = 1 /\ 1 + 2 - 1 = 2 /\ 1 + Len(a) = 3
    OBVIOUS
  <2>2. body[1 + 1 - 1] = a[1] /\ body[1 + 2 - 1] = a[2]
    BY <1>7, <2>1 DEF At
  <2> QED BY <1>7, <2>1, <2>2
<1>11. body[n1 + 3] = "&" /\ body[n1 + 4] = x2 /\ body[n1 + 5] = "=" /\ At(body, n1 + 6, e2)
  <2>1. /\ 1 \in 1..Len(b) /\ 2 \in 1..Len(b) /\ 3 \in 1..Len(b) /\ k + 1 - 1 = n1 + 3 /\ k + 2 - 1 = n1 + 4
        /\ k + 3 - 1 = n1 + 5 /\ k + Len(b) = n1 + 6
    BY <1>2, <1>8
  <2>2. body[k + 1 - 1] = b[1] /\ body[k + 2 - 1] = b[2] /\ body[k + 3 - 1] = b[3]
    BY <1>9, <2>1 DEF At
  <2> QED BY <1>9, <2>1, <2>2
<1>12. Len(body) = n1 + n2 + 5
  BY <1>2, <1>3, <1>5
<1>13. TwoFields(body, x1, e1, x2, e2)
  BY <1>1, <1>5, <1>10, <1>11, <1>12 DEF TwoFields, n1, n2
<1> QED BY <1>13 DEF body, p1, p2

\* A value a form or a link carries.
LEMMA ValueEncoded ==
  ASSUME NEW e, NEW t, IsText(t), Avoids(t, {LF}), Encodes(e, t, " ")
  PROVE  IsText(e) /\ UrlDecode(e) = t /\ Avoids(e, {"&"}) /\ Avoids(e, {SP, LF, "?"})
<1>1. IsText(e) /\ UrlDecode(e) = t
  BY CodedIs DEF Encodes, UrlDecode
<1>2. Avoids(t, {"&"} \ DOMAIN Codes) /\ {"&"} \cap CodeSigns = {}
  BY CodesAssumption DEF Avoids, CodeSigns, HexDigits
<1>3. Avoids(t, {SP, LF, "?"} \ DOMAIN Codes) /\ {SP, LF, "?"} \cap CodeSigns = {}
  BY CodesAssumption DEF Avoids, CodeSigns, HexDigits, SP, LF
<1> QED BY <1>1, <1>2, <1>3 DEF Encodes

\* The body of the download and delete forms.
LEMMA FormBodyIs ==
  ASSUME NEW user, Name(user), NEW path, Name(path),
         NEW body, body = UrlEncoded(FileFormFields(user, path))
  PROVE  /\ IsText(body) /\ Len(body) # 0
         /\ ParseFormUrlEncoded(body) = WithField(WithField(NoFields, <<"path">>, path), <<"username">>, user)
<1> DEFINE f1 == [name |-> <<"username">>, value |-> HtmlEscape(user)]
           f2 == [name |-> <<"path">>, value |-> HtmlEscape(path)]
           fs == <<f1, f2>>
           e1 == FormEncode(user)
           e2 == FormEncode(path)
           s == [i \in 1..Len(fs) |-> (IF i = 1 THEN <<>> ELSE <<"&">>)
                   \o fs[i].name \o <<"=">> \o FormEncode(Unescape(fs[i].value))]
           a == <<>> \o <<"username">> \o <<"=">>
           b == <<"&">> \o <<"path">> \o <<"=">>
<1>1. fs = FileFormFields(user, path) /\ Len(fs) = 2 /\ fs[1] = f1 /\ fs[2] = f2
  BY Single DEF FileFormFields
<1>2. body = FlattenSeq(s)
  BY <1>1 DEF UrlEncoded
<1>3. Unescaped(user) /\ Unescaped(path) /\ IsText(user) /\ IsText(path) /\ Avoids(user, {LF}) /\ Avoids(path, {LF})
  BY DEF Name, Unescaped, Avoids
<1>4. Unescape(f1.value) = user /\ Unescape(f2.value) = path
  BY <1>3, HtmlEscapeIs, UnescapeIs
<1>5. s[1] = a \o e1 /\ s[2] = b \o e2 /\ DOMAIN s = 1..2 /\ s = [i \in 1..2 |-> s[i]]
  <2>1. fs[1].name = <<"username">> /\ fs[2].name = <<"path">> /\ Unescape(fs[1].value) = user /\ Unescape(fs[2].value) = path
    BY <1>1, <1>4
  <2>2. Len(fs) = 2 /\ 1 \in 1..2 /\ 2 \in 1..2 /\ 2 # 1
    BY <1>1
  <2> HIDE DEF fs
  <2>3. DOMAIN s = 1..2 /\ s = [i \in 1..2 |-> s[i]]
    BY <2>2
  <2>4. s[1] = <<>> \o fs[1].name \o <<"=">> \o FormEncode(Unescape(fs[1].value))
    BY <2>2
  <2>5. s[2] = <<"&">> \o fs[2].name \o <<"=">> \o FormEncode(Unescape(fs[2].value))
    BY <2>2
  <2> HIDE DEF s
  <2> QED BY <2>1, <2>3, <2>4, <2>5
<1> HIDE DEF s, fs, f1, f2
<1>6. Len(s) = 2
  BY <1>5, 2 \in Nat, TextOf
<1>7. IsText(a) /\ Len(a) = 2 /\ a[1] = "username" /\ a[2] = "="
  <2>1. IsText(<<"username">>) /\ <<>> \o <<"username">> = <<"username">>
    BY Single
  <2>2. a = <<"username", "=">>
    BY <2>1, PairIs
  <2> HIDE DEF a
  <2> QED BY <2>2, Single
<1>8. IsText(b) /\ Len(b) = 3 /\ b[1] = "&" /\ b[2] = "path" /\ b[3] = "="
  <2> DEFINE c == <<"&", "path">>
             d == <<"=">>
  <2>1. b = c \o d
    BY PairIs
  <2>2. IsText(c) /\ Len(c) = 2 /\ c[1] = "&" /\ c[2] = "path" /\ IsText(d) /\ Len(d) = 1 /\ d[1] = "="
    BY Single
  <2> HIDE DEF b, c, d
  <2>3. /\ IsText(c \o d) /\ Len(c \o d) = Len(c) + Len(d)
        /\ \A i \in 1..Len(c) : (c \o d)[i] = c[i]
        /\ \A i \in 1..Len(d) : (c \o d)[Len(c) + i] = d[i]
    <3>1. IsText(c) /\ IsText(d)
      BY <2>2
    <3> QED BY <3>1, Joined
  <2>4. 1 \in 1..Len(c) /\ 2 \in 1..Len(c) /\ 1 \in 1..Len(d) /\ Len(c) + 1 = 3 /\ Len(c) + Len(d) = 3
    BY <2>2
  <2> QED BY <2>1, <2>2, <2>3, <2>4
<1>9. Encodes(e1, user, " ") /\ Encodes(e2, path, " ")
  BY <1>3, FormEncodeIs
<1> HIDE DEF a, b, e1, e2
<1>10. IsText(e1) /\ UrlDecode(e1) = user /\ Avoids(e1, {"&"}) /\ IsText(e2) /\ UrlDecode(e2) = path /\ Avoids(e2, {"&"})
  BY <1>3, <1>9, ValueEncoded
<1>11. body = (a \o e1) \o (b \o e2)
  <2>1. IsText(a \o e1) /\ IsText(b \o e2)
    BY <1>7, <1>8, <1>10, Joined
  <2> QED BY <1>2, <1>5, <1>6, <2>1, FlattenTwo
<1>12. TwoFields(body, "username", e1, "path", e2)
  BY <1>7, <1>8, <1>10, <1>11, TwoFieldsMade
<1>13. FieldName("username") /\ FieldName("path")
  BY DEF FieldName
<1>14. ParseFormUrlEncoded(body) = WithField(WithField(NoFields, <<"path">>, path), <<"username">>, user)
  BY <1>10, <1>12, <1>13, TwoFieldsParsed
<1>15. IsText(body) /\ Len(body) # 0
  BY <1>12 DEF TwoFields, IsText
<1> QED BY <1>14, <1>15

\* A path without anything escaped.
LEMMA PlainPath ==
  ASSUME NEW word, word \notin {"?", "%"}
  PROVE  DecodeUrlPath(<<"/", word>>) = <<"/", word>>
<1> DEFINE u == <<"/", word>>
<1>1. IsText(u) /\ Len(u) = 2 /\ u[1] = "/" /\ u[2] = word /\ \A i \in 1..2 : i = 1 \/ i = 2
  BY Single
<1>2. Coded(<<"/">> \o <<word>>, <<"/">> \o <<word>>, "+")
  <2>1. Coded(<<"/">>, <<"/">>, "+") /\ Coded(<<word>>, <<word>>, "+")
    BY CodedSymbol
  <2> QED BY <2>1, CodedJoined
<1>3. Decoded(u, "+") = u
  <2>1. <<"/">> \o <<word>> = u
    BY PairIs
  <2> HIDE DEF u
  <2> QED BY <1>2, <2>1, CodedIs
<1> HIDE DEF u
<1>4. Find(u, <<"?">>, 1) = 0
  <2>1. \A q \in 1..Len(u) : u[q] # "?"
    BY <1>1
  <2> QED BY <1>1, <2>1, 1 \in Nat \ {0}, FindSymbol
<1>5. DecodeUrlPath(u) = u
  BY <1>3, <1>4 DEF DecodeUrlPath, Before
<1> QED BY <1>5 DEF u

\* The type of a form that is not an upload.
FormType == <<"application/x-www-form-urlencoded">>

\* A text of five symbols.
LEMMA FiveIs ==
  \A v, w, x, y, z : /\ IsText(<<v, w, x, y, z>>) /\ Len(<<v, w, x, y, z>>) = 5
                     /\ <<v, w, x, y, z>>[1] = v /\ <<v, w, x, y, z>>[2] = w /\ <<v, w, x, y, z>>[3] = x
                     /\ <<v, w, x, y, z>>[4] = y /\ <<v, w, x, y, z>>[5] = z
<1> SUFFICES ASSUME NEW v, NEW w, NEW x, NEW y, NEW z
             PROVE  /\ IsText(<<v, w, x, y, z>>) /\ Len(<<v, w, x, y, z>>) = 5
                    /\ <<v, w, x, y, z>>[1] = v /\ <<v, w, x, y, z>>[2] = w /\ <<v, w, x, y, z>>[3] = x
                    /\ <<v, w, x, y, z>>[4] = y /\ <<v, w, x, y, z>>[5] = z
  OBVIOUS
<1>1. <<v, w, x, y, z>> \in Seq({v, w, x, y, z})
  OBVIOUS
<1> QED BY <1>1, SeqIsText

\* Four symbols.
LEMMA FourIs ==
  \A w, x, y, z : /\ IsText(<<w, x, y, z>>) /\ Len(<<w, x, y, z>>) = 4
                  /\ <<w, x, y, z>>[1] = w /\ <<w, x, y, z>>[2] = x
                  /\ <<w, x, y, z>>[3] = y /\ <<w, x, y, z>>[4] = z
<1> SUFFICES ASSUME NEW w, NEW x, NEW y, NEW z
             PROVE  /\ IsText(<<w, x, y, z>>) /\ Len(<<w, x, y, z>>) = 4
                    /\ <<w, x, y, z>>[1] = w /\ <<w, x, y, z>>[2] = x
                    /\ <<w, x, y, z>>[3] = y /\ <<w, x, y, z>>[4] = z
  OBVIOUS
<1>1. <<w, x, y, z>> \in Seq({w, x, y, z})
  OBVIOUS
<1> QED BY <1>1, SeqIsText

\* Three symbols, one after the other.
LEMMA TripleIs == \A x, y, z : <<x, y>> \o <<z>> = <<x, y, z>>
<1> SUFFICES ASSUME NEW x, NEW y, NEW z PROVE <<x, y>> \o <<z>> = <<x, y, z>>
  OBVIOUS
<1> DEFINE a == <<x, y>>
           b == <<z>>
           c == <<x, y, z>>
           d == a \o b
<1>1. /\ IsText(a) /\ IsText(b) /\ IsText(c) /\ Len(a) = 2 /\ Len(b) = 1 /\ Len(c) = 3
      /\ a[1] = x /\ a[2] = y /\ b[1] = z /\ c[1] = x /\ c[2] = y /\ c[3] = z
  BY Single
<1> HIDE DEF a, b, c
<1>2. /\ IsText(d) /\ Len(d) = Len(a) + Len(b)
      /\ \A i \in 1..Len(a) : d[i] = a[i]
      /\ \A i \in 1..Len(b) : d[Len(a) + i] = b[i]
  <2>1. IsText(a) /\ IsText(b)
    BY <1>1
  <2> QED BY <2>1, Joined
<1> HIDE DEF d
<1>3. Len(d) = 3 /\ d[1] = x /\ d[2] = y /\ d[3] = z
  <2>1. 1 \in 1..1 /\ 2 + 1 = 3 /\ 1 \in 1..2 /\ 2 \in 1..2
    OBVIOUS
  <2> QED BY <1>1, <1>2, <2>1
<1>4. \A i \in 1..3 : i = 1 \/ i = 2 \/ i = 3
  OBVIOUS
<1>5. \A i \in 1..Len(d) : d[i] = c[i]
  BY <1>1, <1>3, <1>4
<1>6. d = c
  BY <1>1, <1>2, <1>3, <1>5, SameText
<1> QED BY <1>6 DEF a, b, c, d

\* The beginning of a link to a directory ...
LEMMA LinkBegins == <<"/", "files", "?", "username", "=">> = <<"/", "files", "?">> \o <<"username", "=">>
<1> DEFINE a == <<"/", "files", "?">>
           b == <<"username", "=">>
           c == <<"/", "files", "?", "username", "=">>
           d == a \o b
<1>1. /\ IsText(a) /\ IsText(b) /\ Len(a) = 3 /\ Len(b) = 2
      /\ a[1] = "/" /\ a[2] = "files" /\ a[3] = "?" /\ b[1] = "username" /\ b[2] = "="
  BY Single
<1>2. /\ IsText(c) /\ Len(c) = 5
      /\ c[1] = "/" /\ c[2] = "files" /\ c[3] = "?" /\ c[4] = "username" /\ c[5] = "="
  BY FiveIs
<1> HIDE DEF a, b, c
<1>3. /\ IsText(d) /\ Len(d) = Len(a) + Len(b)
      /\ \A i \in 1..Len(a) : d[i] = a[i]
      /\ \A i \in 1..Len(b) : d[Len(a) + i] = b[i]
  <2>1. IsText(a) /\ IsText(b)
    BY <1>1
  <2> QED BY <2>1, Joined
<1> HIDE DEF d
<1>4. Len(d) = 5 /\ d[1] = "/" /\ d[2] = "files" /\ d[3] = "?" /\ d[4] = "username" /\ d[5] = "="
  <2>1. 1 \in 1..2 /\ 2 \in 1..2 /\ 3 + 1 = 4 /\ 3 + 2 = 5 /\ 1 \in 1..3 /\ 2 \in 1..3 /\ 3 \in 1..3
    OBVIOUS
  <2> QED BY <1>1, <1>3, <2>1
<1>5. \A i \in 1..5 : i = 1 \/ i = 2 \/ i = 3 \/ i = 4 \/ i = 5
  OBVIOUS
<1>6. \A i \in 1..Len(d) : d[i] = c[i]
  BY <1>2, <1>4, <1>5
<1>7. d = c
  <2>1. IsText(d) /\ IsText(c) /\ Len(d) = Len(c)
    BY <1>2, <1>3, <1>4
  <2> QED BY ONLY <1>6, <2>1, SameText
<1> QED BY <1>7 DEF a, b, c, d

\* ... is a path and a question mark.
LEMMA FilesBegins ==
  LET c == <<"/", "files", "?">> IN
  /\ IsText(c) /\ Len(c) = 3 /\ c[1] = "/" /\ c[2] = "files" /\ c[3] = "?" /\ c = <<"/", "files">> \o <<"?">>
  /\ Avoids(c, {SP, LF}) /\ \A q \in 1..2 : c[q] # "?"
<1> DEFINE c == <<"/", "files", "?">>
<1>1. IsText(c) /\ Len(c) = 3 /\ c[1] = "/" /\ c[2] = "files" /\ c[3] = "?" /\ \A q \in 1..3 : q = 1 \/ q = 2 \/ q = 3
  BY Single
<1>2. c = <<"/", "files">> \o <<"?">>
  BY TripleIs
<1> HIDE DEF c
<1>3. Avoids(c, {SP, LF})
  BY <1>1 DEF Avoids, SP, LF
<1>4. \A q \in 1..2 : q = 1 \/ q = 2
  OBVIOUS
<1>5. \A q \in 1..2 : c[q] # "?"
  BY <1>1, <1>4
<1> QED BY <1>1, <1>2, <1>3, <1>5 DEF c

\* The link to a directory is a path and a form of two fields.
LEMMA DirectoryLinkIs ==
  ASSUME NEW user, Name(user), NEW path, Name(path), NEW url, url = DirectoryLink(user, path)
  PROVE  \E body : /\ url = <<"/", "files", "?">> \o body /\ IsText(body) /\ Len(body) # 0 /\ Avoids(body, {SP, LF})
                   /\ ParseFormUrlEncoded(body)
                        = WithField(WithField(NoFields, <<"dir">>, path), <<"username">>, user)
<1> DEFINE c == <<"/", "files", "?">>
           a == <<"username", "=">>
           b == <<"&", "dir", "=">>
           d == <<"/", "files", "?", "username", "=">>
           e1 == UrlEncode(user)
           e2 == UrlEncode(path)
           p == b \o e2
           body == (a \o e1) \o p
<1>1. url = d \o e1 \o b \o e2 /\ d = c \o a
  BY LinkBegins DEF DirectoryLink
<1>2. IsText(user) /\ IsText(path) /\ Avoids(user, {LF}) /\ Avoids(path, {LF})
  BY DEF Name, Unescaped, Avoids
<1>3. Encodes(e1, user, " ") /\ Encodes(e2, path, " ")
  BY <1>2, UrlEncodeIs
<1>4. IsText(a) /\ Len(a) = 2 /\ a[1] = "username" /\ a[2] = "=" /\ (\A i \in 1..2 : i = 1 \/ i = 2)
  BY Single
<1>5. IsText(b) /\ Len(b) = 3 /\ b[1] = "&" /\ b[2] = "dir" /\ b[3] = "=" /\ (\A i \in 1..3 : i = 1 \/ i = 2 \/ i = 3)
  BY Single
<1>6. IsText(c)
  BY FilesBegins
<1> HIDE DEF a, b, c, d, e1, e2
<1>7. /\ IsText(e1) /\ UrlDecode(e1) = user /\ Avoids(e1, {"&"}) /\ Avoids(e1, {SP, LF})
      /\ IsText(e2) /\ UrlDecode(e2) = path /\ Avoids(e2, {"&"}) /\ Avoids(e2, {SP, LF})
  BY <1>2, <1>3, ValueEncoded DEF Avoids
<1>8. TwoFields(body, "username", e1, "dir", e2)
  BY <1>4, <1>5, <1>7, TwoFieldsMade
<1>9. FieldName("username") /\ FieldName("dir")
  BY DEF FieldName
<1>10. ParseFormUrlEncoded(body) = WithField(WithField(NoFields, <<"dir">>, path), <<"username">>, user)
  <2> HIDE DEF body
  <2> QED BY <1>7, <1>8, <1>9, TwoFieldsParsed
<1>11. IsText(body) /\ Len(body) # 0
  <2> HIDE DEF body
  <2> QED BY <1>8 DEF TwoFields, IsText
<1>12. IsText(a) /\ IsText(b) /\ IsText(e1) /\ IsText(e2) /\ IsText(p) /\ IsText(a \o e1) /\ IsText(c)
  BY <1>4, <1>5, <1>6, <1>7, Joined
<1>13. Avoids(a, {SP, LF}) /\ Avoids(b, {SP, LF})
  BY <1>4, <1>5 DEF Avoids, SP, LF
<1>14. Avoids(body, {SP, LF})
  <2>1. IsText(a) /\ IsText(e1) /\ Avoids(a, {SP, LF}) /\ Avoids(e1, {SP, LF})
    BY <1>7, <1>12, <1>13
  <2>2. Avoids(a \o e1, {SP, LF})
    BY <2>1, AvoidsJoined
  <2>3. IsText(b) /\ IsText(e2) /\ Avoids(b, {SP, LF}) /\ Avoids(e2, {SP, LF})
    BY <1>7, <1>12, <1>13
  <2>4. Avoids(p, {SP, LF})
    BY <2>3, AvoidsJoined
  <2> HIDE DEF p
  <2> DEFINE g == a \o e1
  <2>5. IsText(g) /\ IsText(p) /\ Avoids(g, {SP, LF}) /\ Avoids(p, {SP, LF})
    BY <1>12, <2>2, <2>4
  <2> HIDE DEF g
  <2>6. Avoids(g \o p, {SP, LF})
    BY <2>5, AvoidsJoined
  <2> QED BY <2>6 DEF g
<1>15. url = c \o body
  <2>1. c \o (a \o e1) = (c \o a) \o e1
    <3>1. IsText(c) /\ IsText(a) /\ IsText(e1)
      BY <1>12
    <3> QED BY ONLY <3>1, JoinedTwice
  <2> DEFINE g == a \o e1
             h == c \o g
  <2>2. h = d \o e1 /\ IsText(g)
    BY <1>1, <1>12, <2>1
  <2>3. c \o (g \o p) = h \o p
    <3> HIDE DEF g, p
    <3>1. IsText(c) /\ IsText(g) /\ IsText(p)
      BY <1>12, <2>2
    <3> QED BY <3>1, JoinedTwice
  <2>4. IsText(h)
    <3> HIDE DEF g
    <3>1. IsText(c) /\ IsText(g)
      BY <1>12, <2>2
    <3> QED BY <3>1, Joined
  <2>5. h \o (b \o e2) = (h \o b) \o e2
    <3> HIDE DEF h
    <3>1. IsText(h) /\ IsText(b) /\ IsText(e2)
      BY <1>12, <2>4
    <3> QED BY <3>1, JoinedTwice
  <2> HIDE DEF h
  <2> QED BY <1>1, <2>2, <2>3, <2>5
<1> HIDE DEF body
<1>16. url = c \o body /\ IsText(body) /\ Len(body) # 0 /\ Avoids(body, {SP, LF})
  BY <1>11, <1>14, <1>15
<1> QED BY <1>10, <1>16 DEF c

\* What a find returns.
LEMMA FindTextWithin ==
  ASSUME NEW s, IsText(s), NEW t, IsText(t), NEW from \in Nat \ {0}
  PROVE  \/ Find(s, t, from) = 0
         \/ /\ Find(s, t, from) \in Nat /\ from <= Find(s, t, from)
            /\ Find(s, t, from) + Len(t) - 1 <= Len(s) /\ At(s, Find(s, t, from), t)
            /\ \A q \in from..Find(s, t, from) - 1 : ~At(s, q, t)
<1> DEFINE hits == {i \in from..Len(s) + 1 - Len(t) : SubSeq(s, i, i + Len(t) - 1) = t}
           n == Len(s)
           l == Len(t)
<1>1. n \in Nat /\ l \in Nat
  BY DEF IsText
<1>2. Find(s, t, from) = IF hits = {} THEN 0 ELSE Min(hits)
  BY DEF Find
<1>3. /\ \A i \in hits : i \in Nat \ {0} /\ from <= i /\ i + l - 1 <= n /\ SubSeq(s, i, i + l - 1) = t
      /\ \A i \in Nat : from <= i /\ i + l - 1 <= n /\ SubSeq(s, i, i + l - 1) = t => i \in hits
  <2>1. \A i \in from..n + 1 - l : i \in Nat \ {0} /\ from <= i /\ i + l - 1 <= n
    BY <1>1
  <2>2. \A i \in Nat : from <= i /\ i + l - 1 <= n => i \in from..n + 1 - l
    BY <1>1
  <2> HIDE DEF n, l
  <2> QED BY <2>1, <2>2 DEF n, l
<1>4. \A i \in hits : At(s, i, t)
  <2> SUFFICES ASSUME NEW i \in hits PROVE At(s, i, t)
    OBVIOUS
  <2>1. i \in Nat \ {0} /\ i + l - 1 <= n /\ SubSeq(s, i, i + l - 1) = t
    BY <1>3
  <2> HIDE DEF hits
  <2> QED BY <2>1, PartIsAt
<1>5. \A i \in Nat : from <= i /\ At(s, i, t) => i \in hits
  <2> SUFFICES ASSUME NEW i \in Nat, from <= i, At(s, i, t) PROVE i \in hits
    OBVIOUS
  <2>1. i \in Nat \ {0} /\ i + l - 1 <= n
    BY DEF At
  <2>2. SubSeq(s, i, i + l - 1) = t
    BY <2>1, AtIsPart
  <2> HIDE DEF hits
  <2> QED BY <1>3, <2>1, <2>2
<1> HIDE DEF hits, n, l
<1>6. CASE hits # {}
  <2>1. Min(hits) \in hits /\ \A m \in hits : Min(hits) <= m
    <3>1. hits \subseteq Nat
      BY <1>3
    <3> QED BY <1>6, <3>1, MinIs
  <2>2. \A q \in from..Min(hits) - 1 : ~At(s, q, t)
    <3>1. \A q \in from..Min(hits) - 1 : q \in Nat /\ from <= q /\ ~(Min(hits) <= q)
      BY <1>3, <2>1
    <3> QED BY <1>5, <2>1, <3>1
  <2>3. Find(s, t, from) = Min(hits)
    BY <1>2, <1>6
  <2> QED BY <1>3, <1>4, <2>1, <2>2, <2>3 DEF n, l
<1> QED BY <1>2, <1>6

\* CRLF is nowhere in a text without CR.
LEMMA CRLFIs == IsText(CRLF) /\ Len(CRLF) = 2 /\ CRLF[1] = CR /\ CRLF[2] = LF
BY Single DEF CRLF, CR, LF

(***************************************************************************)
(* The headers of a part.                                                   *)
(***************************************************************************)

\* Where the header line that begins at pos ends.
LineEnd(text, pos) == IF Find(text, CRLF, pos) = 0 THEN Len(text) + 1 ELSE Find(text, CRLF, pos)

\* What the header line at pos adds to the later ones.
HeaderAt(text, pos, later) ==
  LET colon == Find(text, <<":">>, pos)
      key == [i \in 1..colon - pos |-> LowerWord(text[pos + i - 1])]
  IN  IF colon # 0 /\ colon < LineEnd(text, pos)
      THEN WithField(later, key, SubSeq(text, colon + 1, LineEnd(text, pos) - 1))
      ELSE later

\* The headers behind the line at pos, as the recursion has them.
LaterHeaders(text, pos, f) ==
  IF LineEnd(text, pos) + 2 > Len(text) THEN NoFields ELSE f[LineEnd(text, pos) + 2]

\* What PartHeaders returns satisfies the recursion it is defined by.
ParsesHeaders(text, f) ==
  /\ PartHeaders(text) = IF text = <<>> THEN NoFields ELSE f[1]
  /\ \A pos \in 1..Len(text) + 2 : f[pos] = HeaderAt(text, pos, LaterHeaders(text, pos, f))

\* The recursion of PartHeaders has a solution.
LEMMA HeadersRecursion ==
  ASSUME NEW text, IsText(text)
  PROVE  \E f : ParsesHeaders(text, f)
<1> DEFINE n == Len(text)
           D == 1..n + 2
           Key(x) == [i \in 1..x[1] - x[2] |-> LowerWord(text[x[2] + i - 1])]
           Part3(x) == SubSeq(text, x[1], x[2])
           K == {Key(x) : x \in Int \X Int}
           N == {Part3(x) : x \in Int \X Int}
           S == UNION {[J -> N] : J \in SUBSET K}
           rank == [i \in D |-> n + 2 - i]
           Value3(i, f) == HeaderAt(text, i, LaterHeaders(text, i, f))
           F == [x \in D \X [D -> S] |-> Value3(x[1], x[2])]
<1>1. n \in Nat /\ 1 \in D
  BY DEF IsText
<1>2. \A i \in D : /\ Find(text, <<":">>, i) \in Nat /\ LineEnd(text, i) \in Nat
                   /\ (LineEnd(text, i) + 2 > Len(text)
                         \/ (LineEnd(text, i) + 2 \in D /\ i < LineEnd(text, i) + 2))
  <2> SUFFICES ASSUME NEW i \in D
               PROVE  /\ Find(text, <<":">>, i) \in Nat /\ LineEnd(text, i) \in Nat
                      /\ (LineEnd(text, i) + 2 > Len(text)
                            \/ (LineEnd(text, i) + 2 \in D /\ i < LineEnd(text, i) + 2))
    OBVIOUS
  <2> DEFINE found == Find(text, CRLF, i)
             end == LineEnd(text, i)
             colon == Find(text, <<":">>, i)
  <2>1. i \in Nat \ {0}
    BY <1>1
  <2>2. found = 0 \/ (found \in Nat /\ i <= found)
    BY <2>1, CRLFIs, FindTextWithin
  <2>3. colon \in Nat
    BY <2>1, FindWithin
  <2>4. end = IF found = 0 THEN n + 1 ELSE found
    BY DEF LineEnd
  <2> HIDE DEF found, end, colon, n
  <2>5. end \in Nat /\ (end + 2 > n \/ (end + 2 \in D /\ i < end + 2))
    BY <1>1, <2>1, <2>2, <2>4
  <2> QED BY <2>3, <2>5 DEF end, colon, n
<1>3. NoFields \in S
  <2>1. NoFields \in [{} -> N] /\ {} \in SUBSET K
    BY DEF NoFields
  <2> HIDE DEF N, K
  <2> QED BY <2>1
<1>4. ASSUME NEW g \in S, NEW name \in K, NEW value \in N PROVE WithField(g, name, value) \in S
  <2> HIDE DEF N, K
  <2>1. PICK J \in SUBSET K : g \in [J -> N]
    OBVIOUS
  <2>2. WithField(g, name, value) \in [J \cup {name} -> N] /\ J \cup {name} \in SUBSET K
    BY <2>1 DEF WithField
  <2> HIDE DEF S
  <2> QED BY <2>2 DEF S
<1>5. ASSUME NEW a \in Int, NEW b \in Int PROVE Key(<<a, b>>) \in K /\ Part3(<<a, b>>) \in N
  <2>1. <<a, b>> \in Int \X Int
    OBVIOUS
  <2> HIDE DEF Key, Part3
  <2> QED BY <2>1
<1>6. rank \in [D -> 0..n + 2] /\ \A i, j \in D : i < j => rank[j] < rank[i]
  BY <1>1
<1> HIDE DEF N, K, S, n
<1>7. ASSUME NEW i \in D, NEW f \in [D -> S] PROVE Value3(i, f) \in S
  <2> DEFINE colon == Find(text, <<":">>, i)
             end == LineEnd(text, i)
             later == LaterHeaders(text, i, f)
             name == Key(<<colon, i>>)
             value == Part3(<<colon + 1, end - 1>>)
  <2>1. later \in S
    BY <1>2, <1>3 DEF LaterHeaders
  <2>2. i \in Int /\ colon \in Int /\ colon + 1 \in Int /\ end - 1 \in Int
    BY <1>1, <1>2 DEF n
  <2>3. name \in K /\ value \in N
    <3> HIDE DEF Key, Part3, colon, end
    <3> QED BY <1>5, <2>2
  <2>4. Value3(i, f) = WithField(later, name, value) \/ Value3(i, f) = later
    BY DEF HeaderAt
  <2> HIDE DEF later, name, value, Value3
  <2> QED BY <1>4, <2>1, <2>3, <2>4
<1>8. ASSUME NEW i \in D, NEW f \in [D -> S], NEW g \in [D -> S],
             \A j \in D : rank[j] < rank[i] => f[j] = g[j]
      PROVE  Value3(i, f) = Value3(i, g)
  <2>1. LaterHeaders(text, i, f) = LaterHeaders(text, i, g)
    BY <1>2, <1>6, <1>8 DEF LaterHeaders
  <2> QED BY <2>1
<1> HIDE DEF Value3, rank, D
<1>9. F \in [D \X [D -> S] -> S] /\ \A i \in D : \A f \in [D -> S] : F[<<i, f>>] = Value3(i, f)
  BY <1>7
<1> HIDE DEF F
<1>10. RespectsRank(D, S, rank, F)
  BY <1>8, <1>9 DEF RespectsRank
<1>11. PICK f : Solves(f, D, S, F)
  <2>1. S # {} /\ n + 2 \in Nat /\ rank \in [D -> 0..n + 2] /\ F \in [D \X [D -> S] -> S]
    BY <1>1, <1>3, <1>6, <1>9
  <2> QED BY <1>10, <2>1, RecursionExists
<1>12. f \in [D -> S] /\ \A i \in D : f[i] = Value3(i, f)
  BY <1>9, <1>11 DEF Solves
<1> DEFINE IsLines(g) ==
             g = [pos \in 1..Len(text) + 2 |->
                    LET found == Find(text, CRLF, pos)
                        lineEnd == IF found = 0 THEN Len(text) + 1 ELSE found
                        colon == Find(text, <<":">>, pos)
                        later == IF lineEnd + 2 > Len(text) THEN NoFields ELSE g[lineEnd + 2]
                        key == [i \in 1..colon - pos |-> LowerWord(text[pos + i - 1])]
                    IN  IF colon # 0 /\ colon < lineEnd
                        THEN WithField(later, key, SubSeq(text, colon + 1, lineEnd - 1))
                        ELSE later]
           lines == CHOOSE g : IsLines(g)
<1>13. \A g : IsLines(g) <=> g = [pos \in D |-> Value3(pos, g)]
  BY DEF Value3, D, n, HeaderAt, LaterHeaders, LineEnd
<1>14. IsLines(f)
  <2>1. f = [pos \in D |-> Value3(pos, f)]
    BY <1>12
  <2> HIDE DEF IsLines
  <2> QED BY <1>13, <2>1
<1>15. IsLines(lines)
  BY <1>14
<1>16. PartHeaders(text) = IF text = <<>> THEN NoFields ELSE lines[1]
  BY DEF PartHeaders
<1> HIDE DEF lines, IsLines
<1>17. \A i \in D : lines[i] = Value3(i, lines)
  BY <1>13, <1>15
<1> QED BY <1>16, <1>17 DEF ParsesHeaders, Value3, D, n

\* The headers the browser writes for a part.
DispositionLine(d) == <<"Content-Disposition", ":", FormData>> \o d

\* The marks of a part's headers differ from what stands between them.
LEMMA Marks ==
  /\ CR \notin {Quote, Semicolon, NameMark, FilenameMark, FormData, Separator, MultipartForm}
  /\ FormData \notin {NameMark, FilenameMark, Quote, "-"} /\ NameMark \notin {FilenameMark, Quote, "-"}
  /\ Quote \notin {FilenameMark, FormData, Separator, "file", "-"} /\ FilenameMark \notin {"file", Separator}
  /\ MultipartForm \notin {"boundary=", Semicolon} /\ Semicolon \notin {"XYZ", "-"} /\ NameMark \notin {"file", Separator}
BY Zenon DEF Quote, Semicolon, NameMark, FilenameMark, FormData, Separator, MultipartForm, CR

\* The line with the type of a file.
TypeLine == <<"Content-Type", ":", " ", "text/plain">>

\* The symbols of a file's type.
LEMMA FileTypeIs ==
  /\ IsText(TypeLine) /\ Len(TypeLine) = 4 /\ Avoids(TypeLine, {CR})
  /\ IsText(FileType) /\ Len(FileType) = 6 /\ FileType[1] = CR /\ FileType[2] = LF
  /\ \A i \in 2..6 : FileType[i] # CR
<1> DEFINE y == <<"Content-Type", ":", " ", "text/plain">>
<1>1. /\ IsText(y) /\ Len(y) = 4
      /\ y[1] = "Content-Type" /\ y[2] = ":" /\ y[3] = " " /\ y[4] = "text/plain"
  BY FourIs
<1>2. TypeLine = y
  BY DEF TypeLine
<1>3. "Content-Type" # CR /\ ":" # CR /\ " " # CR /\ "text/plain" # CR /\ LF # CR
  BY DEF CR, LF
<1> HIDE DEF y
<1>5. IsText(y) /\ Len(y) = 4 /\ Avoids(y, {CR})
  <2>1. \A i \in 1..4 : i = 1 \/ i = 2 \/ i = 3 \/ i = 4
    OBVIOUS
  <2> QED BY <1>1, <1>3, <2>1 DEF Avoids
<1> DEFINE t == CRLF \o y
<1>6. FileType = t
  BY DEF FileType, y
<1>7. /\ IsText(t) /\ Len(t) = Len(CRLF) + Len(y)
      /\ \A i \in 1..Len(CRLF) : t[i] = CRLF[i]
      /\ \A i \in 1..Len(y) : t[Len(CRLF) + i] = y[i]
  <2>1. IsText(CRLF) /\ IsText(y)
    BY <1>5, CRLFIs
  <2> QED BY <2>1, Joined
<1> HIDE DEF t
<1>8. Len(t) = 6 /\ t[1] = CR /\ t[2] = LF
  <2>1. 1 \in 1..Len(CRLF) /\ 2 \in 1..Len(CRLF)
    BY CRLFIs
  <2> QED BY <1>5, <1>7, <2>1, CRLFIs
<1>9. ASSUME NEW i \in 2..6 PROVE t[i] # CR
  <2>1. CASE i = 2
    BY <1>3, <1>8, <2>1
  <2>2. CASE i # 2
    <3> DEFINE j == i - 2
    <3>1. j \in 1..Len(y) /\ Len(CRLF) + j = i
      BY <1>5, <2>2, CRLFIs
    <3> HIDE DEF j
    <3>2. t[i] = y[j]
      BY <1>7, <3>1
    <3> QED BY <1>5, <3>1, <3>2 DEF Avoids
  <2> QED BY <2>1, <2>2
<1> QED BY <1>2, <1>5, <1>6, <1>7, <1>8, <1>9

\* The symbols of a Content-Disposition line.
LEMMA DispositionLineIs ==
  ASSUME NEW d, IsText(d), NEW t, t = DispositionLine(d)
  PROVE  /\ IsText(t) /\ Len(t) = Len(d) + 3 /\ Len(d) \in Nat
         /\ t[1] = "Content-Disposition" /\ t[2] = ":" /\ t[3] = FormData
         /\ (\A i \in 1..Len(d) : t[3 + i] = d[i])
         /\ Avoids(d, {CR}) => Avoids(t, {CR})
<1> DEFINE c == <<"Content-Disposition", ":", FormData>>
<1>1. /\ IsText(c) /\ Len(c) = 3 /\ c[1] = "Content-Disposition" /\ c[2] = ":" /\ c[3] = FormData
      /\ \A i \in 1..3 : i = 1 \/ i = 2 \/ i = 3
  BY Single
<1>2. t = c \o d
  BY DEF DispositionLine
<1> HIDE DEF c
<1>3. Avoids(c, {CR})
  <2>1. "Content-Disposition" # CR /\ ":" # CR /\ FormData # CR
    BY Marks DEF CR
  <2> QED BY <1>1, <2>1 DEF Avoids
<1>4. /\ IsText(c \o d) /\ Len(c \o d) = Len(c) + Len(d) /\ Len(d) \in Nat
      /\ \A i \in 1..Len(c) : (c \o d)[i] = c[i]
      /\ \A i \in 1..Len(d) : (c \o d)[Len(c) + i] = d[i]
  <2>1. IsText(c) /\ IsText(d)
    BY <1>1
  <2> QED BY <2>1, Joined
<1>5. ASSUME Avoids(d, {CR}) PROVE Avoids(c \o d, {CR})
  <2>1. IsText(c) /\ IsText(d) /\ Avoids(c, {CR}) /\ Avoids(d, {CR})
    BY <1>1, <1>3, <1>5
  <2> QED BY <2>1, AvoidsJoined
<1>6. /\ Len(c) + Len(d) = Len(d) + 3
      /\ 1 \in 1..Len(c) /\ 2 \in 1..Len(c) /\ 3 \in 1..Len(c)
  BY <1>1, <1>4
<1> QED BY <1>1, <1>2, <1>4, <1>5, <1>6

\* A text without CR has no line end.
LEMMA NoLineEnd ==
  ASSUME NEW t, IsText(t), Avoids(t, {CR}), NEW from \in Nat \ {0}
  PROVE  Find(t, CRLF, from) = 0
<1> SUFFICES ASSUME NEW q \in Nat, from <= q, At(t, q, CRLF) PROVE FALSE
  BY CRLFIs, FindNothing
<1>1. q + 2 - 1 <= Len(t) /\ t[q + 1 - 1] = CR
  <2>1. 1 \in 1..2
    OBVIOUS
  <2> QED BY <2>1, CRLFIs DEF At
<1>2. q + 1 - 1 = q /\ q \in 1..Len(t)
  BY <1>1 DEF IsText
<1> QED BY <1>1, <1>2 DEF Avoids

\* The first of a part's headers, whatever lines follow.
LEMMA FirstHeader ==
  ASSUME NEW d, IsText(d), NEW t, IsText(t), At(t, 1, DispositionLine(d)), LineEnd(t, 1) = Len(d) + 4
  PROVE  /\ <<"content-disposition">> \in DOMAIN PartHeaders(t)
         /\ PartHeaders(t)[<<"content-disposition">>] = <<FormData>> \o d
<1> DEFINE n == Len(d) + 3
           v == <<FormData>> \o d
           key == [i \in 1..2 - 1 |-> LowerWord(t[1 + i - 1])]
<1>1. /\ n \in Nat /\ n = Len(d) + 3 /\ n <= Len(t) /\ Len(t) \in Nat /\ Len(d) \in Nat
      /\ t[1] = "Content-Disposition" /\ t[2] = ":" /\ t[3] = FormData
      /\ \A i \in 1..Len(d) : t[3 + i] = d[i]
  <2> DEFINE l == DispositionLine(d)
  <2>1. /\ Len(l) = n /\ Len(d) \in Nat /\ l[1] = "Content-Disposition" /\ l[2] = ":" /\ l[3] = FormData
        /\ \A i \in 1..Len(d) : l[3 + i] = d[i]
    BY DispositionLineIs
  <2>2. At(t, 1, l) /\ Len(t) \in Nat
    BY DEF IsText
  <2> HIDE DEF l
  <2>3. /\ 1 + n - 1 <= Len(t) /\ \A i \in 1..n : t[1 + i - 1] = l[i]
    BY <2>1, <2>2 DEF At
  <2>4. /\ 1 \in 1..n /\ 2 \in 1..n /\ 3 \in 1..n /\ n \in Nat /\ n <= Len(t)
        /\ \A i \in 1..Len(d) : 3 + i \in 1..n
        /\ \A i \in 1..n : 1 + i - 1 = i
    BY <2>1, <2>2, <2>3
  <2>5. \A i \in 1..n : t[i] = l[i]
    BY <2>3, <2>4
  <2> HIDE DEF n
  <2>6. t[1] = l[1] /\ t[2] = l[2] /\ t[3] = l[3] /\ \A i \in 1..Len(d) : t[3 + i] = l[3 + i]
    BY <2>4, <2>5
  <2> QED BY <2>1, <2>2, <2>4, <2>6 DEF n
<1>2. PICK f : ParsesHeaders(t, f)
  BY <1>1, HeadersRecursion
<1>3. t # <<>>
  BY <1>1, Single
<1> DEFINE later == LaterHeaders(t, 1, f)
<1>4. PartHeaders(t) = f[1] /\ f[1] = HeaderAt(t, 1, later)
  <2>1. 1 \in 1..Len(t) + 2
    BY <1>1
  <2> QED BY <1>2, <1>3, <2>1 DEF ParsesHeaders
<1> HIDE DEF later
<1>5. LineEnd(t, 1) = n + 1
  BY <1>1
<1>7. Find(t, <<":">>, 1) = 2
  <2> DEFINE k == 2
  <2>1. \A q \in 1..k - 1 : q = 1
    OBVIOUS
  <2>2. k \in 1..Len(t) /\ t[k] = ":" /\ \A q \in 1..(k - 1) : t[q] # ":"
    BY <1>1, <2>1
  <2> HIDE DEF k
  <2>3. IsText(t) /\ 1 \in Nat \ {0}
    BY <1>1
  <2>4. Find(t, <<":">>, 1) = k
    BY ONLY <2>2, <2>3, FindSymbol
  <2> QED BY <2>4 DEF k
<1>8. key = <<"content-disposition">>
  <2> DEFINE w == <<"content-disposition">>
  <2>1. DOMAIN key = 1..1 /\ key = [i \in 1..1 |-> key[i]] /\ key[1] = LowerWord(t[1])
    OBVIOUS
  <2> HIDE DEF key
  <2>2. IsText(key) /\ Len(key) = 1
    BY <2>1, 1 \in Nat, TextOf
  <2>3. key[1] = "content-disposition"
    BY <1>1, <2>1, LowercaseAssumption DEF LowerWord
  <2>4. IsText(w) /\ Len(w) = 1 /\ w[1] = "content-disposition" /\ \A i \in 1..1 : i = 1
    BY Single
  <2> HIDE DEF w
  <2>5. key = w
    BY <2>2, <2>3, <2>4, SameText
  <2> QED BY <2>5 DEF w
<1>9. SubSeq(t, 3, n) = v
  <2> DEFINE a == <<FormData>>
  <2>1. IsText(a) /\ Len(a) = 1 /\ a[1] = FormData
    BY Single
  <2> HIDE DEF a
  <2>2. /\ IsText(a \o d) /\ Len(a \o d) = Len(a) + Len(d)
        /\ \A i \in 1..Len(a) : (a \o d)[i] = a[i]
        /\ \A i \in 1..Len(d) : (a \o d)[Len(a) + i] = d[i]
    <3>1. IsText(a) /\ IsText(d)
      BY <2>1
    <3> QED BY <3>1, Joined
  <2>3. v = a \o d
    BY DEF a
  <2> HIDE DEF v
  <2>4. IsText(v) /\ Len(v) = Len(d) + 1 /\ v[1] = FormData /\ \A i \in 1..Len(d) : v[1 + i] = d[i]
    <3>1. 1 \in 1..Len(a) /\ Len(a) + Len(d) = Len(d) + 1
      BY <1>1, <2>1
    <3> QED BY <2>1, <2>2, <2>3, <3>1
  <2>5. At(t, 3, v)
    <3>1. 3 + Len(v) - 1 <= Len(t)
      BY <1>1, <2>4
    <3>2. ASSUME NEW i \in 1..Len(v) PROVE t[3 + i - 1] = v[i]
      <4>1. CASE i = 1
        <5>1. 3 + i - 1 = 3
          BY <4>1
        <5> QED BY <1>1, <2>4, <4>1, <5>1
      <4>2. CASE i # 1
        <5> DEFINE j == i - 1
        <5>1. j \in 1..Len(d) /\ i = 1 + j /\ 3 + i - 1 = 3 + j
          BY <1>1, <2>4, <4>2
        <5> HIDE DEF j
        <5>2. t[3 + j] = d[j] /\ v[1 + j] = d[j]
          BY <1>1, <2>4, <5>1
        <5> QED BY <5>1, <5>2
      <4> QED BY <4>1, <4>2
    <3> QED BY <3>1, <3>2 DEF At
  <2>6. SubSeq(t, 3, 3 + Len(v) - 1) = v
    BY <1>1, <2>4, <2>5, 3 \in Nat \ {0}, AtIsPart
  <2>7. 3 + Len(v) - 1 = n
    BY <1>1, <2>4
  <2> QED BY <2>6, <2>7
<1>10. f[1] = WithField(later, key, v)
  <2>1. 2 # 0 /\ 2 < n + 1 /\ 2 + 1 = 3 /\ (n + 1) - 1 = n
    BY <1>1
  <2>2. f[1] = WithField(later, key, SubSeq(t, 2 + 1, (n + 1) - 1))
    <3> DEFINE colon == Find(t, <<":">>, 1)
               end == LineEnd(t, 1)
               K(c) == [i \in 1..c - 1 |-> LowerWord(t[1 + i - 1])]
    <3>1. f[1] = HeaderAt(t, 1, later) /\ colon = 2 /\ end = n + 1
      BY <1>4, <1>5, <1>7
    <3>2. HeaderAt(t, 1, later)
            = IF colon # 0 /\ colon < end
              THEN WithField(later, K(colon), SubSeq(t, colon + 1, end - 1))
              ELSE later
      BY DEF HeaderAt
    <3>3. key = K(2)
      OBVIOUS
    <3> HIDE DEF colon, end, n, key, K
    <3> DEFINE H(c, e) == WithField(later, K(c), SubSeq(t, c + 1, e - 1))
    <3>4. HeaderAt(t, 1, later) = H(colon, end)
      <4>1. colon # 0 /\ colon < end
        BY ONLY <2>1, <3>1
      <4> QED BY ONLY <3>2, <4>1
    <3>5. H(2, n + 1) = WithField(later, key, SubSeq(t, 2 + 1, (n + 1) - 1))
      <4>1. H(2, n + 1) = WithField(later, K(2), SubSeq(t, 2 + 1, (n + 1) - 1))
        BY ONLY TRUE
      <4> HIDE DEF H
      <4> QED BY ONLY <4>1, <3>3
    <3> HIDE DEF H
    <3> QED BY <3>1, <3>4, <3>5
  <2> HIDE DEF key, v
  <2> QED BY <1>9, <2>1, <2>2
<1> HIDE DEF key, v
<1>11. <<"content-disposition">> \in DOMAIN f[1] /\ f[1][<<"content-disposition">>] = v
  BY <1>8, <1>10 DEF WithField
<1> QED BY <1>4, <1>11 DEF v

\* The headers of a part with that line only,
LEMMA OneHeader ==
  ASSUME NEW d, IsText(d), Avoids(d, {CR}), NEW t, t = DispositionLine(d)
  PROVE  /\ <<"content-disposition">> \in DOMAIN PartHeaders(t)
         /\ PartHeaders(t)[<<"content-disposition">>] = <<FormData>> \o d
<1>1. IsText(t) /\ Len(t) = Len(d) + 3 /\ Len(d) \in Nat /\ Avoids(t, {CR})
  BY DispositionLineIs
<1>2. At(t, 1, DispositionLine(d))
  BY <1>1, AtItself
<1>3. LineEnd(t, 1) = Len(d) + 4
  <2>1. Find(t, CRLF, 1) = 0
    BY <1>1, 1 \in Nat \ {0}, NoLineEnd
  <2> QED BY <1>1, <2>1 DEF LineEnd
<1> QED BY <1>1, <1>2, <1>3, FirstHeader

\* The line with the type of the file behind it,
LEMMA TypedLine ==
  ASSUME NEW d, IsText(d), NEW t, t = DispositionLine(d \o FileType)
  PROVE  IsText(t) /\ t = DispositionLine(d) \o FileType
<1> DEFINE l == DispositionLine(d)
           c == <<"Content-Disposition", ":", FormData>>
<1>1. IsText(c) /\ IsText(d) /\ IsText(FileType) /\ IsText(l)
  BY Single, FileTypeIs, DispositionLineIs
<1>2. t = c \o (d \o FileType) /\ l = c \o d
  BY DEF DispositionLine
<1> HIDE DEF c, l
<1>3. t = l \o FileType
  BY ONLY <1>1, <1>2, JoinedTwice
<1>4. IsText(l \o FileType)
  <2>1. IsText(l) /\ IsText(FileType)
    BY <1>1
  <2> QED BY <2>1, Joined
<1> QED BY <1>3, <1>4 DEF l

\* and the headers of a part with both.
LEMMA TwoHeaders ==
  ASSUME NEW d, IsText(d), Avoids(d, {CR}), NEW t, t = DispositionLine(d \o FileType)
  PROVE  /\ <<"content-disposition">> \in DOMAIN PartHeaders(t)
         /\ PartHeaders(t)[<<"content-disposition">>] = <<FormData>> \o d
<1> DEFINE l == DispositionLine(d)
           m == Len(d)
<1>1. IsText(l) /\ Len(l) = m + 3 /\ m \in Nat /\ Avoids(l, {CR})
  BY DispositionLineIs
<1>2. IsText(t) /\ t = l \o FileType
  BY TypedLine
<1>3. At(t, 1, l) /\ At(t, 1 + Len(l), FileType)
  <2>1. IsText(t) /\ IsText(l) /\ IsText(FileType) /\ 1 \in Nat
    BY <1>1, <1>2, FileTypeIs
  <2> HIDE DEF l
  <2>2. At(t, 1, l \o FileType)
    BY <1>2, AtItself
  <2> QED BY ONLY <2>1, <2>2, AtJoined
<1> HIDE DEF l
<1>4. Find(t, CRLF, 1) = m + 4
  <2> DEFINE p == m + 4
  <2>1. p \in Nat /\ 1 <= p /\ 1 \in Nat \ {0} /\ p = 1 + Len(l) /\ 1 + Len(l) \in Nat
    BY <1>1
  <2>2. At(t, p, CRLF)
    <3>1. IsText(t) /\ IsText(CRLF) /\ IsText(TypeLine) /\ 1 + Len(l) \in Nat
      BY <1>2, <2>1, CRLFIs, FileTypeIs
    <3>2. At(t, 1 + Len(l), CRLF \o TypeLine)
      BY <1>3 DEF FileType, TypeLine
    <3>3. At(t, 1 + Len(l), CRLF)
      BY ONLY <3>1, <3>2, AtJoined
    <3> QED BY <2>1, <3>3
  <2>3. ASSUME NEW q \in 1..(p - 1), At(t, q, CRLF) PROVE FALSE
    <3>1. q \in 1..Len(l) /\ 1 + q - 1 = q /\ 1 \in 1..Len(CRLF) /\ q + 1 - 1 = q
      BY <1>1, <2>1, CRLFIs
    <3> HIDE DEF p
    <3>2. t[q] = l[q]
      BY <1>3, <3>1 DEF At
    <3>3. t[q] = CR
      BY <2>3, <3>1, CRLFIs DEF At
    <3> QED BY <1>1, <3>1, <3>2, <3>3 DEF Avoids
  <2>4. IsText(t) /\ IsText(CRLF)
    BY <1>2, CRLFIs
  <2> HIDE DEF p
  <2>5. Find(t, CRLF, 1) = p
    BY <2>1, <2>2, <2>3, <2>4, FindFirst
  <2> QED BY <2>5 DEF p
<1>5. LineEnd(t, 1) = m + 4
  <2>1. m + 4 # 0
    BY <1>1
  <2> QED BY <1>4, <2>1 DEF LineEnd
<1> QED BY <1>2, <1>3, <1>5, FirstHeader DEF l, m

\* A value in a disposition.
LEMMA DispositionValueIs ==
  ASSUME NEW h, IsText(h), NEW marks, NEW pos \in 1..Len(h), h[pos] \in marks,
         \A q \in 1..pos - 1 : h[q] \notin marks,
         NEW v, IsText(v), Avoids(v, {Quote}), At(h, pos + 1, v),
         pos + Len(v) + 1 <= Len(h), h[pos + Len(v) + 1] = Quote
  PROVE  DispositionValue(h, marks) = v
<1> DEFINE n == Len(v)
           end == pos + n + 1
<1>1. n \in Nat /\ Len(h) \in Nat /\ pos \in Nat \ {0}
  BY DEF IsText
<1> DEFINE hits == {i \in 1..Len(h) : h[i] \in marks}
<1>2. hits # {} /\ Min(hits) = pos
  <2>1. hits \subseteq Nat /\ pos \in hits
    BY <1>1
  <2>2. \A q \in hits : q \in Nat /\ q \in 1..Len(h) /\ h[q] \in marks
    BY <1>1
  <2>3. \A q \in hits : ~(q < pos)
    <3>1. \A q \in Nat : q \in 1..Len(h) /\ q < pos => q \in 1..pos - 1
      BY <1>1
    <3> HIDE DEF hits
    <3> QED BY <2>2, <3>1
  <2> HIDE DEF hits
  <2>4. Min(hits) \in hits /\ \A m \in hits : Min(hits) <= m
    BY <2>1, MinIs
  <2>5. Min(hits) \in Nat /\ pos \in Nat /\ Min(hits) <= pos /\ ~(Min(hits) < pos)
    BY <1>1, <2>1, <2>3, <2>4
  <2> QED BY <2>1, <2>5
<1>3. Find(h, <<Quote>>, pos + 1) = end
  <2>1. pos + 1 \in Nat \ {0} /\ end \in pos + 1..Len(h) /\ h[end] = Quote
    BY <1>1
  <2>2. ASSUME NEW q \in pos + 1..end - 1 PROVE h[q] # Quote
    <3> DEFINE i == q - pos
    <3>1. i \in 1..n /\ pos + 1 + i - 1 = q
      BY <1>1
    <3> HIDE DEF i
    <3>2. h[pos + 1 + i - 1] = v[i] /\ v[i] # Quote
      BY <3>1 DEF At, Avoids
    <3> QED BY <3>1, <3>2
  <2> HIDE DEF end
  <2>3. IsText(h)
    OBVIOUS
  <2> QED BY ONLY <2>1, <2>2, <2>3, FindSymbol
<1>4. SubSeq(h, pos + 1, end - 1) = v
  <2>1. pos + 1 \in Nat \ {0} /\ pos + 1 + n - 1 = end - 1
    BY <1>1
  <2>2. SubSeq(h, pos + 1, pos + 1 + n - 1) = v
    BY <2>1, AtIsPart
  <2> HIDE DEF end
  <2> QED BY <2>1, <2>2
<1>5. end # 0
  BY <1>1
<1>6. DispositionValue(h, marks)
        = IF hits = {} THEN <<>> ELSE IF Find(h, <<Quote>>, Min(hits) + 1) = 0 THEN <<>>
          ELSE SubSeq(h, Min(hits) + 1, Find(h, <<Quote>>, Min(hits) + 1) - 1)
  BY DEF DispositionValue
<1> HIDE DEF end, hits
<1> QED BY <1>2, <1>3, <1>4, <1>5, <1>6

\* Marks that are not in a header have no value.
LEMMA NoDispositionValue ==
  ASSUME NEW h, IsText(h), NEW marks, Avoids(h, marks)
  PROVE  DispositionValue(h, marks) = <<>>
<1>1. {i \in 1..Len(h) : h[i] \in marks} = {}
  BY DEF Avoids
<1> QED BY <1>1 DEF DispositionValue

\* The header of a field's part, and of a file's.
FieldHeader(name) == <<NameMark>> \o name \o <<Quote>>

\* What stands before the name of the file ...
FileMarks == <<NameMark, "file", Quote, Separator, FilenameMark>>

\* ... in the header of its part.
FileHeader(name) == FileMarks \o name \o <<Quote>>

\* The symbols of a field's header,
LEMMA FieldHeaderIs ==
  ASSUME NEW name, IsText(name), NEW d, d = FieldHeader(name)
  PROVE  /\ IsText(d) /\ Len(d) = Len(name) + 2 /\ Len(name) \in Nat
         /\ d[1] = NameMark /\ (\A i \in 1..Len(name) : d[1 + i] = name[i]) /\ d[Len(name) + 2] = Quote
<1> DEFINE a == <<NameMark>>
           z == <<Quote>>
           b == a \o name
<1>1. /\ IsText(a) /\ Len(a) = 1 /\ a[1] = NameMark
      /\ IsText(z) /\ Len(z) = 1 /\ z[1] = Quote
  BY Single
<1>2. d = b \o z
  BY DEF FieldHeader
<1> HIDE DEF a, z
<1>3. /\ IsText(b) /\ Len(b) = Len(a) + Len(name) /\ Len(name) \in Nat
      /\ \A i \in 1..Len(a) : b[i] = a[i]
      /\ \A i \in 1..Len(name) : b[Len(a) + i] = name[i]
  <2>1. IsText(a) /\ IsText(name)
    BY <1>1
  <2> QED BY <2>1, Joined
<1> HIDE DEF b
<1>4. /\ IsText(b \o z) /\ Len(b \o z) = Len(b) + Len(z)
      /\ \A i \in 1..Len(b) : (b \o z)[i] = b[i]
      /\ \A i \in 1..Len(z) : (b \o z)[Len(b) + i] = z[i]
  <2>1. IsText(b) /\ IsText(z)
    BY <1>1, <1>3
  <2> QED BY <2>1, Joined
<1>5. /\ Len(b) + Len(z) = Len(name) + 2 /\ Len(b) + 1 = Len(name) + 2
      /\ 1 \in 1..Len(a) /\ 1 \in 1..Len(b) /\ 1 \in 1..Len(z)
      /\ \A i \in 1..Len(name) : 1 + i \in 1..Len(b) /\ Len(a) + i = 1 + i
  BY <1>1, <1>3
<1>6. d[1] = NameMark
  BY <1>1, <1>2, <1>3, <1>4, <1>5
<1>7. d[Len(name) + 2] = Quote
  BY <1>1, <1>2, <1>4, <1>5
<1>8. ASSUME NEW i \in 1..Len(name) PROVE d[1 + i] = name[i]
  BY <1>2, <1>3, <1>4, <1>5
<1> QED BY <1>2, <1>3, <1>4, <1>5, <1>6, <1>7, <1>8

\* A header's value behind the blank of its line.
LEMMA FormDataIs ==
  ASSUME NEW d, IsText(d), NEW h, h = <<FormData>> \o d
  PROVE  /\ IsText(h) /\ Len(h) = Len(d) + 1 /\ Len(d) \in Nat
         /\ h[1] = FormData /\ \A i \in 1..Len(d) : h[1 + i] = d[i]
<1> DEFINE a == <<FormData>>
<1>1. IsText(a) /\ Len(a) = 1 /\ a[1] = FormData
  BY Single
<1>2. h = a \o d
  OBVIOUS
<1> HIDE DEF a
<1>3. /\ IsText(a \o d) /\ Len(a \o d) = Len(a) + Len(d) /\ Len(d) \in Nat
      /\ \A i \in 1..Len(a) : (a \o d)[i] = a[i]
      /\ \A i \in 1..Len(d) : (a \o d)[Len(a) + i] = d[i]
  <2>1. IsText(a) /\ IsText(d)
    BY <1>1
  <2> QED BY <2>1, Joined
<1>4. 1 \in 1..Len(a) /\ Len(a) + Len(d) = Len(d) + 1
  BY <1>1, <1>3
<1>5. ASSUME NEW i \in 1..Len(d) PROVE h[1 + i] = d[i]
  BY <1>1, <1>2, <1>3
<1>6. h[1] = FormData
  BY <1>1, <1>2, <1>3, <1>4
<1>7. IsText(h) /\ Len(h) = Len(d) + 1
  BY <1>2, <1>3, <1>4
<1> QED BY <1>3, <1>5, <1>6, <1>7

\* the values in it,
LEMMA FieldDisposition ==
  ASSUME NEW name, IsText(name), Avoids(name, {Quote, FilenameMark, CR}), NEW d, d = FieldHeader(name),
         NEW h, h = <<FormData>> \o d
  PROVE  /\ IsText(d) /\ Avoids(d, {CR})
         /\ DispositionValue(h, NameMarks) = name /\ DispositionValue(h, {FilenameMark}) = <<>>
<1> DEFINE n == Len(name)
<1>1. /\ IsText(d) /\ Len(d) = n + 2 /\ n \in Nat
      /\ d[1] = NameMark /\ (\A i \in 1..n : d[1 + i] = name[i]) /\ d[n + 2] = Quote
  BY FieldHeaderIs
<1>2. /\ IsText(h) /\ Len(h) = Len(d) + 1 /\ h[1] = FormData /\ \A i \in 1..Len(d) : h[1 + i] = d[i]
  BY <1>1, FormDataIs
<1>3. \A i \in 1..n : name[i] \notin {Quote, FilenameMark, CR}
  BY DEF Avoids
<1>4. \A p \in 1..Len(d) : p = 1 \/ p = n + 2 \/ (p - 1 \in 1..n /\ p = 1 + (p - 1))
  BY <1>1
<1>5. ASSUME NEW p \in 1..Len(d) PROVE d[p] \notin {FilenameMark, CR}
  <2>1. NameMark \notin {FilenameMark, CR} /\ Quote \notin {FilenameMark, CR}
    BY Marks
  <2> DEFINE i == p - 1
  <2>2. p = 1 \/ p = n + 2 \/ (i \in 1..n /\ p = 1 + i)
    BY <1>4
  <2> HIDE DEF i, n
  <2> QED BY <1>1, <1>3, <2>1, <2>2
<1>6. Avoids(d, {CR})
  BY <1>5 DEF Avoids
<1>7. ASSUME NEW p \in 1..Len(h) PROVE h[p] # FilenameMark
  <2>1. FormData # FilenameMark
    BY Marks
  <2> DEFINE i == p - 1
  <2>2. p = 1 \/ (i \in 1..Len(d) /\ p = 1 + i)
    BY <1>1, <1>2
  <2> HIDE DEF i, n
  <2> QED BY <1>2, <1>5, <2>1, <2>2
<1>8. DispositionValue(h, {FilenameMark}) = <<>>
  <2>1. Avoids(h, {FilenameMark}) /\ IsText(h)
    BY <1>2, <1>7 DEF Avoids
  <2> QED BY ONLY <2>1, NoDispositionValue
<1>9. DispositionValue(h, NameMarks) = name
  <2> DEFINE pos == 2
  <2>1. /\ pos \in 1..Len(h) /\ h[pos] \in NameMarks /\ \A q \in 1..pos - 1 : h[q] \notin NameMarks
    <3>1. FormData \notin NameMarks /\ NameMark \in NameMarks
      BY Marks DEF NameMarks
    <3>2. 1 \in 1..Len(d) /\ 1 + 1 = 2 /\ 2 \in 1..Len(h) /\ \A q \in 1..2 - 1 : q = 1
      BY <1>1, <1>2
    <3>3. h[2] = d[1]
      BY <1>2, <3>2
    <3> HIDE DEF n
    <3> QED BY <1>1, <1>2, <3>1, <3>2, <3>3
  <2>2. Avoids(name, {Quote})
    BY <1>3 DEF Avoids
  <2>3. At(h, pos + 1, name)
    <3>1. pos + 1 + n - 1 <= Len(h)
      BY <1>1, <1>2
    <3>2. ASSUME NEW i \in 1..n PROVE h[pos + 1 + i - 1] = name[i]
      <4>1. 1 + i \in 1..Len(d) /\ pos + 1 + i - 1 = 1 + (1 + i)
        BY <1>1
      <4>2. h[1 + (1 + i)] = d[1 + i] /\ d[1 + i] = name[i]
        BY <1>1, <1>2, <4>1
      <4> QED BY ONLY <4>1, <4>2
    <3> QED BY <3>1, <3>2 DEF At
  <2>4. pos + Len(name) + 1 <= Len(h) /\ h[pos + Len(name) + 1] = Quote
    <3>1. n + 2 \in 1..Len(d) /\ pos + Len(name) + 1 = 1 + (n + 2) /\ pos + Len(name) + 1 <= Len(h)
      BY <1>1, <1>2
    <3>2. h[1 + (n + 2)] = d[n + 2]
      BY <1>2, <3>1
    <3> HIDE DEF pos, n
    <3> QED BY <1>1, <3>1, <3>2
  <2>5. IsText(h) /\ IsText(name)
    BY <1>2
  <2> HIDE DEF pos
  <2> QED BY ONLY <2>1, <2>2, <2>3, <2>4, <2>5, DispositionValueIs
<1> QED BY <1>1, <1>6, <1>8, <1>9

\* the symbols of the file's header
LEMMA FileHeaderIs ==
  ASSUME NEW name, IsText(name), NEW d, d = FileHeader(name)
  PROVE  /\ IsText(d) /\ Len(d) = Len(name) + 6 /\ Len(name) \in Nat
         /\ d[1] = NameMark /\ d[2] = "file" /\ d[3] = Quote /\ d[4] = Separator /\ d[5] = FilenameMark
         /\ (\A i \in 1..Len(name) : d[5 + i] = name[i]) /\ d[Len(name) + 6] = Quote
<1> DEFINE a == FileMarks
           z == <<Quote>>
           b == a \o name
<1>1. /\ IsText(a) /\ Len(a) = 5 /\ a[1] = NameMark /\ a[2] = "file" /\ a[3] = Quote
      /\ a[4] = Separator /\ a[5] = FilenameMark
  BY FiveIs DEF FileMarks
<1>2. IsText(z) /\ Len(z) = 1 /\ z[1] = Quote
  BY Single
<1>3. d = b \o z
  BY DEF FileHeader
<1> HIDE DEF a, z
<1>4. /\ IsText(b) /\ Len(b) = Len(a) + Len(name) /\ Len(name) \in Nat
      /\ \A i \in 1..Len(a) : b[i] = a[i]
      /\ \A i \in 1..Len(name) : b[Len(a) + i] = name[i]
  <2>1. IsText(a) /\ IsText(name)
    BY <1>1
  <2> QED BY <2>1, Joined
<1> HIDE DEF b
<1>5. /\ IsText(b \o z) /\ Len(b \o z) = Len(b) + Len(z)
      /\ \A i \in 1..Len(b) : (b \o z)[i] = b[i]
      /\ \A i \in 1..Len(z) : (b \o z)[Len(b) + i] = z[i]
  <2>1. IsText(b) /\ IsText(z)
    BY <1>2, <1>4
  <2> QED BY <2>1, Joined
<1>6. /\ Len(b) + Len(z) = Len(name) + 6 /\ Len(b) + 1 = Len(name) + 6 /\ 1 \in 1..Len(z)
      /\ \A i \in 1..5 : i \in 1..Len(a) /\ i \in 1..Len(b)
      /\ \A i \in 1..Len(name) : 5 + i \in 1..Len(b) /\ Len(a) + i = 5 + i
  BY <1>1, <1>2, <1>4
<1>7. \A i \in 1..5 : d[i] = a[i]
  BY <1>3, <1>4, <1>5, <1>6
<1>8. 1 \in 1..5 /\ 2 \in 1..5 /\ 3 \in 1..5 /\ 4 \in 1..5 /\ 5 \in 1..5
  OBVIOUS
<1>9. d[Len(name) + 6] = Quote
  BY <1>2, <1>3, <1>5, <1>6
<1>10. ASSUME NEW i \in 1..Len(name) PROVE d[5 + i] = name[i]
  BY <1>3, <1>4, <1>5, <1>6
<1>11. IsText(d) /\ Len(d) = Len(name) + 6 /\ Len(name) \in Nat
  BY <1>3, <1>4, <1>5, <1>6
<1>12. /\ d[1] = NameMark /\ d[2] = "file" /\ d[3] = Quote /\ d[4] = Separator /\ d[5] = FilenameMark
  BY <1>1, <1>7, <1>8
<1> QED BY <1>9, <1>10, <1>11, <1>12

\* and the values in that one.
LEMMA FileDisposition ==
  ASSUME NEW name, IsText(name), Avoids(name, {Quote, CR}), NEW d, d = FileHeader(name),
         NEW h, h = <<FormData>> \o d
  PROVE  /\ IsText(d) /\ Avoids(d, {CR})
         /\ DispositionValue(h, NameMarks) = <<"file">> /\ DispositionValue(h, {FilenameMark}) = name
<1> DEFINE n == Len(name)
<1>1. /\ IsText(d) /\ Len(d) = n + 6 /\ n \in Nat
      /\ d[1] = NameMark /\ d[2] = "file" /\ d[3] = Quote /\ d[4] = Separator /\ d[5] = FilenameMark
      /\ (\A i \in 1..n : d[5 + i] = name[i]) /\ d[n + 6] = Quote
  BY FileHeaderIs
<1>2. /\ IsText(h) /\ Len(h) = Len(d) + 1 /\ h[1] = FormData /\ \A i \in 1..Len(d) : h[1 + i] = d[i]
  BY <1>1, FormDataIs
<1>3. \A i \in 1..n : name[i] \notin {Quote, CR}
  BY DEF Avoids
<1>4. \A p \in 1..Len(d) : \/ p = 1 \/ p = 2 \/ p = 3 \/ p = 4 \/ p = 5 \/ p = n + 6
                           \/ (p - 5 \in 1..n /\ p = 5 + (p - 5))
  BY <1>1
<1>5. ASSUME NEW p \in 1..Len(d) PROVE d[p] # CR
  <2>1. NameMark # CR /\ Quote # CR /\ Separator # CR /\ FilenameMark # CR /\ "file" # CR
    BY Marks DEF CR
  <2> DEFINE i == p - 5
  <2>2. p = 1 \/ p = 2 \/ p = 3 \/ p = 4 \/ p = 5 \/ p = n + 6 \/ (i \in 1..n /\ p = 5 + i)
    BY <1>4
  <2> HIDE DEF i, n
  <2> QED BY <1>1, <1>3, <2>1, <2>2
<1>6. Avoids(d, {CR})
  BY <1>5 DEF Avoids
<1>7. /\ h[1] = FormData /\ h[2] = NameMark /\ h[3] = "file" /\ h[4] = Quote /\ h[5] = Separator
      /\ h[6] = FilenameMark /\ (\A i \in 1..n : h[6 + i] = name[i]) /\ h[n + 7] = Quote
  <2>1. /\ 1 \in 1..Len(d) /\ 2 \in 1..Len(d) /\ 3 \in 1..Len(d) /\ 4 \in 1..Len(d) /\ 5 \in 1..Len(d)
        /\ n + 6 \in 1..Len(d) /\ n + 7 = 1 + (n + 6)
        /\ 2 = 1 + 1 /\ 3 = 1 + 2 /\ 4 = 1 + 3 /\ 5 = 1 + 4 /\ 6 = 1 + 5
    BY <1>1
  <2>2. /\ h[1 + 1] = d[1] /\ h[1 + 2] = d[2] /\ h[1 + 3] = d[3] /\ h[1 + 4] = d[4] /\ h[1 + 5] = d[5]
        /\ h[1 + (n + 6)] = d[n + 6]
    BY <1>2, <2>1
  <2>3. ASSUME NEW i \in 1..n PROVE h[6 + i] = name[i]
    <3>1. 5 + i \in 1..Len(d) /\ 6 + i = 1 + (5 + i)
      BY <1>1
    <3>2. h[1 + (5 + i)] = d[5 + i] /\ d[5 + i] = name[i]
      BY <1>1, <1>2, <3>1
    <3> QED BY ONLY <3>1, <3>2
  <2>4. h[n + 7] = Quote
    BY <1>1, <2>1, <2>2
  <2>5. h[2] = NameMark /\ h[3] = "file" /\ h[4] = Quote /\ h[5] = Separator /\ h[6] = FilenameMark
    BY <1>1, <2>1, <2>2
  <2> QED BY <1>2, <2>3, <2>4, <2>5
<1>8. Len(h) = n + 7
  BY <1>1, <1>2
<1>9. DispositionValue(h, NameMarks) = <<"file">>
  <2> DEFINE pos == 2
             v == <<"file">>
  <2>1. IsText(v) /\ Len(v) = 1 /\ v[1] = "file" /\ "file" # Quote /\ \A i \in 1..1 : i = 1
    BY Single, Marks
  <2>2. /\ pos \in 1..Len(h) /\ h[pos] \in NameMarks /\ \A q \in 1..pos - 1 : h[q] \notin NameMarks
    <3>1. FormData \notin NameMarks /\ NameMark \in NameMarks
      BY Marks DEF NameMarks
    <3>2. 2 \in 1..Len(h) /\ \A q \in 1..2 - 1 : q = 1
      BY <1>1, <1>8
    <3> HIDE DEF n
    <3> QED BY <1>7, <3>1, <3>2
  <2> HIDE DEF v
  <2>3. Avoids(v, {Quote})
    BY <2>1 DEF Avoids
  <2>4. At(h, pos + 1, v)
    <3>1. pos + 1 + Len(v) - 1 <= Len(h) /\ pos + 1 + 1 - 1 = 3
      BY <1>1, <1>8, <2>1
    <3> QED BY <1>7, <2>1, <3>1 DEF At
  <2>5. pos + Len(v) + 1 <= Len(h) /\ h[pos + Len(v) + 1] = Quote
    <3>1. pos + Len(v) + 1 = 4 /\ pos + Len(v) + 1 <= Len(h)
      BY <1>1, <1>8, <2>1
    <3> QED BY <1>7, <3>1
  <2>6. IsText(h) /\ IsText(v)
    BY <1>2, <2>1
  <2> HIDE DEF pos
  <2>7. DispositionValue(h, NameMarks) = v
    BY ONLY <2>2, <2>3, <2>4, <2>5, <2>6, DispositionValueIs
  <2> QED BY <2>7 DEF v
<1>10. DispositionValue(h, {FilenameMark}) = name
  <2> DEFINE pos == 6
  <2>1. /\ pos \in 1..Len(h) /\ h[pos] \in {FilenameMark} /\ \A q \in 1..pos - 1 : h[q] \notin {FilenameMark}
    <3>1. /\ FormData # FilenameMark /\ NameMark # FilenameMark /\ "file" # FilenameMark
          /\ Quote # FilenameMark /\ Separator # FilenameMark
      BY Marks
    <3>2. 6 \in 1..Len(h) /\ \A q \in 1..6 - 1 : q = 1 \/ q = 2 \/ q = 3 \/ q = 4 \/ q = 5
      BY <1>1, <1>8
    <3> HIDE DEF n
    <3> QED BY <1>7, <3>1, <3>2
  <2>2. Avoids(name, {Quote})
    BY <1>3 DEF Avoids
  <2>3. At(h, pos + 1, name)
    <3>1. pos + 1 + n - 1 <= Len(h)
      BY <1>1, <1>8
    <3>2. ASSUME NEW i \in 1..n PROVE h[pos + 1 + i - 1] = name[i]
      <4>1. pos + 1 + i - 1 = 6 + i
        BY <1>1
      <4> HIDE DEF pos
      <4> QED BY <1>7, <4>1
    <3> QED BY <3>1, <3>2 DEF At
  <2>4. pos + Len(name) + 1 <= Len(h) /\ h[pos + Len(name) + 1] = Quote
    <3>1. pos + Len(name) + 1 = n + 7 /\ pos + Len(name) + 1 <= Len(h)
      BY <1>1, <1>8
    <3> HIDE DEF pos, n
    <3> QED BY <1>7, <3>1
  <2>5. IsText(h) /\ IsText(name)
    BY <1>2
  <2> HIDE DEF pos
  <2> QED BY ONLY <2>1, <2>2, <2>3, <2>4, <2>5, DispositionValueIs
<1> QED BY <1>1, <1>6, <1>9, <1>10

\* The form of the upload, and its delimiter.
UploadType == <<MultipartForm, "boundary=", "XYZ">>

\* The delimiter of the form's parts ...
Delimiter == <<"-", "-", "XYZ">>

\* ... is made of the boundary that the request's type names.
LEMMA BoundaryIs == Boundary(UploadType) = <<"XYZ">>
<1> DEFINE t == UploadType
           x == <<"XYZ">>
           rest == From(t, 2 + 1)
<1>1. IsText(t) /\ Len(t) = 3 /\ t[1] = MultipartForm /\ t[2] = "boundary=" /\ t[3] = "XYZ"
  BY Single DEF UploadType
<1>2. IsText(x) /\ Len(x) = 1 /\ x[1] = "XYZ" /\ \A i \in 1..1 : i = 1
  BY Single
<1> HIDE DEF t, x
<1>3. Find(t, <<"boundary=">>, 1) = 2
  <2> DEFINE k == 2
  <2>1. MultipartForm # "boundary=" /\ (\A q \in 1..k - 1 : q = 1)
    BY Marks
  <2>2. k \in 1..Len(t) /\ t[k] = "boundary=" /\ \A q \in 1..(k - 1) : t[q] # "boundary="
    BY <1>1, <2>1
  <2> HIDE DEF k
  <2>3. IsText(t) /\ 1 \in Nat \ {0}
    BY <1>1
  <2>4. Find(t, <<"boundary=">>, 1) = k
    BY ONLY <2>2, <2>3, FindSymbol
  <2> QED BY <2>4 DEF k
<1>4. rest = x
  <2>1. At(t, 3, x)
    BY <1>1, <1>2 DEF At
  <2>2. SubSeq(t, 3, 3 + Len(x) - 1) = x
    BY <1>1, <1>2, <2>1, 3 \in Nat \ {0}, AtIsPart
  <2>3. 3 + Len(x) - 1 = 3 /\ 2 + 1 = 3 /\ Len(t) = 3
    BY <1>1, <1>2
  <2> QED BY <2>2, <2>3 DEF From
<1> HIDE DEF rest
<1>5. Find(x, <<Semicolon>>, 1) = 0
  <2>1. \A q \in 1..Len(x) : x[q] # Semicolon
    BY <1>2, Marks
  <2>2. IsText(x) /\ 1 \in Nat \ {0}
    BY <1>2
  <2> QED BY ONLY <2>1, <2>2, FindSymbol
<1>6. Before(rest, Find(rest, <<Semicolon>>, 1)) = x
  BY <1>4, <1>5 DEF Before
<1>7. Trim(x) = x
  <2> DEFINE inked == {i \in 1..Len(x) : x[i] \notin Blank}
  <2>1. inked = {1}
    <3>1. "XYZ" \notin Blank
      BY DEF Blank
    <3> QED BY <1>2, <3>1
  <2>2. Min({1}) = 1 /\ Max({1}) = 1
    BY DEF Min, Max
  <2>3. At(x, 1, x)
    BY <1>2, AtItself
  <2>4. SubSeq(x, 1, 1 + Len(x) - 1) = x
    BY <1>2, <2>3, 1 \in Nat \ {0}, AtIsPart
  <2>5. 1 + Len(x) - 1 = 1
    BY <1>2
  <2>6. Trim(x) = IF inked = {} THEN <<>> ELSE SubSeq(x, Min(inked), Max(inked))
    BY DEF Trim
  <2> HIDE DEF inked
  <2> QED BY <2>1, <2>2, <2>4, <2>5, <2>6
<1>8. Unquoted(x) = x
  <2>1. ~(Len(x) > 2)
    BY <1>2
  <2> QED BY <2>1 DEF Unquoted
<1>9. Boundary(t) = Unquoted(Trim(Before(rest, Find(rest, <<Semicolon>>, 1))))
  <2>1. 2 # 0
    OBVIOUS
  <2> QED BY <1>3, <2>1 DEF Boundary, rest
<1> QED BY <1>6, <1>7, <1>8, <1>9 DEF t, x

\* The symbols of the delimiter.
LEMMA DelimiterIs ==
  /\ IsText(Delimiter) /\ Len(Delimiter) = 3
  /\ Delimiter[1] = "-" /\ Delimiter[2] = "-" /\ Delimiter[3] = "XYZ"
  /\ <<"-", "-">> \o <<"XYZ">> = Delimiter
BY Single, TripleIs DEF Delimiter

(***************************************************************************)
(* The parts of a body.                                                     *)
(***************************************************************************)

\* The end of the delimiter that is found from pos on,
PartLine(body, delim, pos) == Find(body, delim, pos) + Len(delim)

\* the end of the headers behind it,
HeaderEnd(body, delim, pos) == Find(body, CRLF \o CRLF, PartLine(body, delim, pos) + 2)

\* those headers,
PartHead(body, delim, pos) ==
  PartHeaders(SubSeq(body, PartLine(body, delim, pos) + 2, HeaderEnd(body, delim, pos) - 1))

\* the line end before the next delimiter,
NextPart(body, delim, pos) == ContentEnd(body, delim, HeaderEnd(body, delim, pos) + 4)

\* and the part between them.
PartFoundAt(body, delim, pos) ==
  [name |-> DispositionValue(PartHead(body, delim, pos)[<<"content-disposition">>], NameMarks),
   filename |-> DispositionValue(PartHead(body, delim, pos)[<<"content-disposition">>], {FilenameMark}),
   content |-> SubSeq(body, HeaderEnd(body, delim, pos) + 4, NextPart(body, delim, pos) - 1)]

\* The delimiter found from pos on is the last one.
LastAt(body, delim, pos) ==
  SubSeq(body, PartLine(body, delim, pos), PartLine(body, delim, pos) + 1) = <<"-", "-">>

\* What makes ParseMultipart give up behind that delimiter.
BadAt(body, delim, pos) ==
  \/ SubSeq(body, PartLine(body, delim, pos), PartLine(body, delim, pos) + 1) # CRLF
  \/ HeaderEnd(body, delim, pos) = 0
  \/ <<"content-disposition">> \notin DOMAIN PartHead(body, delim, pos)
  \/ PartFoundAt(body, delim, pos).name = <<>> \/ NextPart(body, delim, pos) = 0

\* What ParseMultipart makes of the last delimiter.
NoMore == [ok |-> TRUE, parts |-> <<>>]

\* A part before the ones of r.
WithPart(r, part) == [r EXCEPT !.parts = <<part>> \o @]

\* What ParseMultipart makes of the body from pos on, if f is what it makes of the rest.
PartsAt(body, delim, pos, f) ==
  IF Find(body, delim, pos) = 0 THEN Failed
  ELSE IF LastAt(body, delim, pos) THEN NoMore
  ELSE IF BadAt(body, delim, pos) THEN Failed
  ELSE WithPart(f[NextPart(body, delim, pos) + 2], PartFoundAt(body, delim, pos))

\* What ParseMultipart returns satisfies the recursion it is defined by.
ParsesParts(body, f) ==
  /\ ParseMultipart(UploadType, body) = f[1]
  /\ \A pos \in 1..Len(body) : f[pos] = PartsAt(body, Delimiter, pos, f)

\* The parse goes on behind pos, and within the body.
LEMMA NextPartIs ==
  ASSUME NEW body, IsText(body), NEW pos \in Nat \ {0}, Find(body, Delimiter, pos) # 0,
         ~BadAt(body, Delimiter, pos)
  PROVE  NextPart(body, Delimiter, pos) + 2 \in Nat /\ pos < NextPart(body, Delimiter, pos) + 2
         /\ NextPart(body, Delimiter, pos) + 2 <= Len(body)
<1> DEFINE p == Find(body, Delimiter, pos)
           line == PartLine(body, Delimiter, pos)
           end == HeaderEnd(body, Delimiter, pos)
           next == NextPart(body, Delimiter, pos)
           n == Len(body)
<1>1. p \in Nat /\ pos <= p /\ line = p + 3 /\ line + 2 \in Nat \ {0} /\ n \in Nat
  <2>1. p \in Nat /\ pos <= p
    BY DelimiterIs, FindTextWithin
  <2>2. line = p + 3
    BY DelimiterIs DEF PartLine
  <2> QED BY <2>1, <2>2 DEF IsText
<1>2. IsText(CRLF \o CRLF)
  <2>1. IsText(CRLF)
    BY CRLFIs
  <2> QED BY <2>1, Joined
<1>3. end \in Nat /\ line + 2 <= end
  <2>1. end # 0
    BY DEF BadAt
  <2> QED BY <1>1, <1>2, <2>1, FindTextWithin DEF HeaderEnd
<1>4. IsText(CRLF \o Delimiter) /\ Len(CRLF \o Delimiter) = 5
  <2>1. IsText(CRLF) /\ IsText(Delimiter)
    BY CRLFIs, DelimiterIs
  <2>2. IsText(CRLF \o Delimiter) /\ Len(CRLF \o Delimiter) = Len(CRLF) + Len(Delimiter)
    BY <2>1, Joined
  <2> QED BY <2>2, CRLFIs, DelimiterIs
<1>5. next \in Nat /\ end + 4 <= next /\ next + 5 - 1 <= n
  <2>1. next # 0
    BY DEF BadAt
  <2>2. end + 4 \in Nat \ {0}
    BY <1>3
  <2> HIDE DEF end
  <2>3. next = Find(body, CRLF \o Delimiter, end + 4)
    BY DEF NextPart, ContentEnd, end
  <2> HIDE DEF next
  <2> QED BY <1>4, <2>1, <2>2, <2>3, FindTextWithin
<1> HIDE DEF p, line, end, next, n
<1>6. next + 2 \in Nat /\ pos < next + 2 /\ next + 2 <= n
  BY <1>1, <1>3, <1>5
<1> QED BY <1>6 DEF next, n

\* The recursion of ParseMultipart has a solution.
LEMMA PartsRecursion ==
  ASSUME NEW body, IsText(body), body # <<>>
  PROVE  \E f : ParsesParts(body, f)
<1> DEFINE n == Len(body)
           D == 1..n
           P == {PartFoundAt(body, Delimiter, i) : i \in D}
           S == [ok : BOOLEAN, parts : Seq(P)]
           rank == [i \in D |-> n - i]
           Value3(i, f) == PartsAt(body, Delimiter, i, f)
           F == [x \in D \X [D -> S] |-> Value3(x[1], x[2])]
<1>1. n \in Nat /\ 1 \in D
  <2>1. n \in Nat
    BY DEF IsText
  <2>2. n # 0
    BY Single, SameText, <2>1
  <2> QED BY <2>1, <2>2
<1>2. ASSUME NEW i \in D, Find(body, Delimiter, i) # 0, ~BadAt(body, Delimiter, i)
      PROVE  NextPart(body, Delimiter, i) + 2 \in D /\ i < NextPart(body, Delimiter, i) + 2
  <2>1. i \in Nat \ {0}
    BY <1>1
  <2>2. /\ NextPart(body, Delimiter, i) + 2 \in Nat /\ i < NextPart(body, Delimiter, i) + 2
        /\ NextPart(body, Delimiter, i) + 2 <= Len(body)
    BY ONLY <1>2, <2>1, NextPartIs, IsText(body)
  <2> DEFINE m == NextPart(body, Delimiter, i) + 2
  <2> HIDE DEF m
  <2>3. m \in Nat /\ i < m /\ m <= n
    BY <2>2 DEF m
  <2> HIDE DEF n
  <2>4. m \in D
    BY <1>1, <2>1, <2>3
  <2> QED BY <2>3, <2>4 DEF m
<1>3. Failed \in S /\ NoMore \in S
  BY DEF Failed, NoMore
<1>4. ASSUME NEW r \in S, NEW p \in P PROVE WithPart(r, p) \in S
  <2> HIDE DEF P
  <2>1. <<p>> \o r.parts \in Seq(P)
    OBVIOUS
  <2> QED BY <2>1 DEF WithPart
<1>5. rank \in [D -> 0..n] /\ \A i, j \in D : i < j => rank[j] < rank[i]
  BY <1>1
<1>6. \A i \in D : PartFoundAt(body, Delimiter, i) \in P
  OBVIOUS
<1> HIDE DEF P, S, n
<1>7. ASSUME NEW i \in D, NEW f \in [D -> S] PROVE Value3(i, f) \in S
  <2> DEFINE next == NextPart(body, Delimiter, i) + 2
             part == PartFoundAt(body, Delimiter, i)
  <2>1. \/ Value3(i, f) \in {Failed, NoMore}
        \/ /\ Find(body, Delimiter, i) # 0 /\ ~BadAt(body, Delimiter, i)
           /\ Value3(i, f) = WithPart(f[next], part)
    BY DEF PartsAt
  <2> HIDE DEF Value3
  <2>2. CASE Value3(i, f) \in {Failed, NoMore}
    BY <1>3, <2>2
  <2>3. CASE /\ Find(body, Delimiter, i) # 0 /\ ~BadAt(body, Delimiter, i)
             /\ Value3(i, f) = WithPart(f[next], part)
    <3>1. next \in D /\ part \in P
      BY <1>2, <1>6, <2>3
    <3> HIDE DEF next, part, D
    <3>2. f[next] \in S
      BY <3>1
    <3> QED BY <1>4, <2>3, <3>1, <3>2
  <2> QED BY <2>1, <2>2, <2>3
<1>8. ASSUME NEW i \in D, NEW f \in [D -> S], NEW g \in [D -> S],
             \A j \in D : rank[j] < rank[i] => f[j] = g[j]
      PROVE  Value3(i, f) = Value3(i, g)
  <2> DEFINE next == NextPart(body, Delimiter, i) + 2
  <2>1. ASSUME Find(body, Delimiter, i) # 0, ~BadAt(body, Delimiter, i) PROVE f[next] = g[next]
    <3>1. next \in D /\ i < next
      BY <1>2, <2>1
    <3> HIDE DEF next, D
    <3> QED BY <1>5, <1>8, <3>1
  <2> HIDE DEF next
  <2>2. \A h : Value3(i, h) = IF Find(body, Delimiter, i) = 0 THEN Failed
                              ELSE IF LastAt(body, Delimiter, i) THEN NoMore
                              ELSE IF BadAt(body, Delimiter, i) THEN Failed
                              ELSE WithPart(h[next], PartFoundAt(body, Delimiter, i))
    BY DEF PartsAt, next
  <2> HIDE DEF Value3
  <2> QED BY <2>1, <2>2
<1> HIDE DEF Value3, rank, D
<1>9. F \in [D \X [D -> S] -> S] /\ \A i \in D : \A f \in [D -> S] : F[<<i, f>>] = Value3(i, f)
  BY <1>7
<1> HIDE DEF F
<1>10. RespectsRank(D, S, rank, F)
  BY <1>8, <1>9 DEF RespectsRank
<1>11. PICK f : Solves(f, D, S, F)
  <2>1. S # {} /\ n \in Nat /\ rank \in [D -> 0..n] /\ F \in [D \X [D -> S] -> S]
    BY <1>1, <1>3, <1>5, <1>9
  <2> QED BY <1>10, <2>1, RecursionExists
<1>12. f \in [D -> S] /\ \A i \in D : f[i] = Value3(i, f)
  BY <1>9, <1>11 DEF Solves
<1> DEFINE delim == <<"-", "-">> \o Boundary(UploadType)
           Value2(i, g) == PartsAt(body, delim, i, g)
           IsRest(g) ==
             g = [pos \in 1..Len(body) |->
        LET line == Find(body, delim, pos) + Len(delim)
            headerEnd == Find(body, CRLF \o CRLF, line + 2)
            headers == PartHeaders(SubSeq(body, line + 2, headerEnd - 1))
            disposition == headers[<<"content-disposition">>]
            next == ContentEnd(body, delim, headerEnd + 4)
            part == [name |-> DispositionValue(disposition, NameMarks),
                     filename |-> DispositionValue(disposition, {FilenameMark}),
                     content |-> SubSeq(body, headerEnd + 4, next - 1)]
        IN  IF Find(body, delim, pos) = 0 THEN Failed
            ELSE IF SubSeq(body, line, line + 1) = <<"-", "-">> THEN [ok |-> TRUE, parts |-> <<>>]
            ELSE IF \/ SubSeq(body, line, line + 1) # CRLF
                    \/ headerEnd = 0
                    \/ <<"content-disposition">> \notin DOMAIN headers
                    \/ part.name = <<>> \/ next = 0
            THEN Failed
            ELSE [g[next + 2] EXCEPT !.parts = <<part>> \o @]]
           rest == CHOOSE g : IsRest(g)
<1>13. ParseMultipart(UploadType, body)
         = IF Boundary(UploadType) = <<>> \/ body = <<>> THEN Failed ELSE rest[1]
  BY DEF ParseMultipart
<1>14. \A g : IsRest(g) <=> g = [pos \in D |-> Value2(pos, g)]
  BY DEF Value2, D, n, PartsAt, PartFoundAt, PartHead, PartLine, HeaderEnd, NextPart, LastAt, BadAt, NoMore, WithPart
<1>15. delim = Delimiter /\ Boundary(UploadType) # <<>>
  BY BoundaryIs, DelimiterIs, Single
<1> HIDE DEF delim, IsRest
<1>16. ASSUME NEW i, NEW g PROVE Value2(i, g) = Value3(i, g)
  BY <1>15 DEF Value2, Value3
<1> HIDE DEF Value2
<1>17. IsRest(f)
  <2>1. f = [pos \in D |-> Value2(pos, f)]
    BY <1>12, <1>16
  <2> QED BY <1>14, <2>1
<1>18. IsRest(rest)
  BY <1>17
<1> HIDE DEF rest
<1>19. \A i \in D : rest[i] = Value3(i, rest)
  <2>1. rest = [pos \in D |-> Value2(pos, rest)]
    BY <1>14, <1>18
  <2>2. \A i \in D : rest[i] = Value2(i, rest)
    BY <2>1
  <2> QED BY <1>16, <2>2
<1> QED BY <1>13, <1>15, <1>19 DEF ParsesParts, Value3, D, n

\* A part with the header d and the content c is in the body at pos, and the
\* delimiter behind it is the first one there.
PartLaid(body, pos, d, c) ==
  /\ At(body, pos, Delimiter) /\ At(body, pos + 3, CRLF)
  /\ At(body, pos + 5, DispositionLine(d)) /\ At(body, pos + Len(d) + 8, CRLF \o CRLF)
  /\ At(body, pos + Len(d) + 12, c) /\ At(body, pos + Len(d) + Len(c) + 12, CRLF \o Delimiter)
  /\ \A q \in pos + Len(d) + 12..pos + Len(d) + Len(c) + 11 : ~At(body, q, CRLF \o Delimiter)

\* The end of the headers.
LEMMA LineEndIs ==
  IsText(CRLF \o CRLF) /\ Len(CRLF \o CRLF) = 4 /\ (CRLF \o CRLF)[1] = CR /\ (CRLF \o CRLF)[3] = CR
<1>1. IsText(CRLF) /\ IsText(CRLF)
  BY CRLFIs
<1>2. /\ IsText(CRLF \o CRLF) /\ Len(CRLF \o CRLF) = Len(CRLF) + Len(CRLF)
      /\ \A i \in 1..Len(CRLF) : (CRLF \o CRLF)[i] = CRLF[i]
      /\ \A i \in 1..Len(CRLF) : (CRLF \o CRLF)[Len(CRLF) + i] = CRLF[i]
  BY <1>1, Joined
<1>3. 1 \in 1..Len(CRLF) /\ Len(CRLF) + Len(CRLF) = 4 /\ Len(CRLF) + 1 = 3
  BY CRLFIs
<1> QED BY <1>2, <1>3, CRLFIs

\* What ends a part's content.
LEMMA PartEndIs ==
  IsText(CRLF \o Delimiter) /\ Len(CRLF \o Delimiter) = 5 /\ (CRLF \o Delimiter)[1] = CR
<1>1. IsText(CRLF) /\ IsText(Delimiter)
  BY CRLFIs, DelimiterIs
<1>2. /\ IsText(CRLF \o Delimiter) /\ Len(CRLF \o Delimiter) = Len(CRLF) + Len(Delimiter)
      /\ \A i \in 1..Len(CRLF) : (CRLF \o Delimiter)[i] = CRLF[i]
  BY <1>1, Joined
<1>3. 1 \in 1..Len(CRLF) /\ Len(CRLF) + Len(Delimiter) = 5
  BY CRLFIs, DelimiterIs
<1> QED BY <1>2, <1>3, CRLFIs

\* A delimiter at pos is the one that is found.
LEMMA LineAt ==
  ASSUME NEW body, IsText(body), NEW pos \in Nat \ {0}, At(body, pos, Delimiter)
  PROVE  Find(body, Delimiter, pos) = pos /\ PartLine(body, Delimiter, pos) = pos + 3
<1>1. Find(body, Delimiter, pos) = pos
  <2>1. \A q \in pos..(pos - 1) : ~At(body, q, Delimiter)
    OBVIOUS
  <2> QED BY <2>1, DelimiterIs, FindFirst
<1> QED BY <1>1, DelimiterIs DEF PartLine

\* Behind the last delimiter nothing is parsed.
LEMMA LastParsed ==
  ASSUME NEW body, IsText(body), NEW f, ParsesParts(body, f), NEW pos \in Nat \ {0},
         At(body, pos, Delimiter), At(body, pos + 3, <<"-", "-">>)
  PROVE  f[pos] = NoMore
<1> DEFINE t == <<"-", "-">>
<1>1. Find(body, Delimiter, pos) = pos /\ PartLine(body, Delimiter, pos) = pos + 3
  BY LineAt
<1>2. IsText(t) /\ Len(t) = 2
  BY Single
<1>3. At(body, pos + 3, t)
  OBVIOUS
<1> HIDE DEF t
<1>4. SubSeq(body, pos + 3, pos + 3 + Len(t) - 1) = t
  BY <1>2, <1>3, pos + 3 \in Nat \ {0}, AtIsPart
<1>5. pos + 3 + Len(t) - 1 = pos + 3 + 1 /\ pos # 0
  BY <1>2
<1>6. LastAt(body, Delimiter, pos)
  BY <1>1, <1>4, <1>5 DEF LastAt, t
<1>7. pos \in 1..Len(body)
  BY DelimiterIs DEF At, IsText
<1>8. f[pos] = PartsAt(body, Delimiter, pos, f)
  BY <1>7 DEF ParsesParts
<1> QED BY <1>1, <1>5, <1>6, <1>8 DEF PartsAt

\* A line in which no CR is followed by another CR in the place of CRLF CRLF's.
NoEmptyLine(l) == \A i \in 1..Len(l) : l[i] = CR => i + 2 \in 1..Len(l) /\ l[i + 2] # CR

\* The headers of a part are read as those of a field or a file.
PartHeader(d, name, filename) ==
  /\ IsText(d) /\ name # <<>> /\ NoEmptyLine(DispositionLine(d))
  /\ <<"content-disposition">> \in DOMAIN PartHeaders(DispositionLine(d))
  /\ name = DispositionValue(PartHeaders(DispositionLine(d))[<<"content-disposition">>], NameMarks)
  /\ filename = DispositionValue(PartHeaders(DispositionLine(d))[<<"content-disposition">>], {FilenameMark})

\* What a header's values are.
Disposition(d, name, filename) ==
  /\ IsText(d) /\ Avoids(d, {CR}) /\ name # <<>>
  /\ name = DispositionValue(<<FormData>> \o d, NameMarks)
  /\ filename = DispositionValue(<<FormData>> \o d, {FilenameMark})

\* A part with its disposition only,
LEMMA FieldRead ==
  ASSUME NEW d, NEW name, NEW filename, Disposition(d, name, filename)
  PROVE  PartHeader(d, name, filename)
<1> DEFINE l == DispositionLine(d)
<1>1. IsText(d) /\ Avoids(d, {CR})
  BY DEF Disposition
<1>2. IsText(l) /\ Avoids(l, {CR})
  BY <1>1, DispositionLineIs
<1>3. /\ <<"content-disposition">> \in DOMAIN PartHeaders(l)
      /\ PartHeaders(l)[<<"content-disposition">>] = <<FormData>> \o d
  BY <1>1, OneHeader
<1> HIDE DEF l
<1>4. NoEmptyLine(l)
  BY <1>2 DEF Avoids, NoEmptyLine
<1> QED BY <1>1, <1>3, <1>4 DEF Disposition, PartHeader, l

\* and one with the type of its file.
LEMMA FileRead ==
  ASSUME NEW d, NEW name, NEW filename, Disposition(d, name, filename)
  PROVE  PartHeader(d \o FileType, name, filename)
<1> DEFINE l == DispositionLine(d)
           t == DispositionLine(d \o FileType)
           m == Len(l)
<1>1. IsText(d) /\ Avoids(d, {CR})
  BY DEF Disposition
<1>2. IsText(l) /\ Avoids(l, {CR}) /\ m \in Nat
  BY <1>1, DispositionLineIs DEF IsText
<1>3. IsText(t) /\ t = l \o FileType
  BY <1>1, TypedLine
<1>4. /\ <<"content-disposition">> \in DOMAIN PartHeaders(t)
      /\ PartHeaders(t)[<<"content-disposition">>] = <<FormData>> \o d
  BY <1>1, TwoHeaders
<1>5. IsText(d \o FileType)
  <2>1. IsText(d) /\ IsText(FileType)
    BY <1>1, FileTypeIs
  <2> QED BY <2>1, Joined
<1> HIDE DEF l, t
<1>6. Len(t) = m + 6 /\ (\A i \in 1..m : t[i] = l[i]) /\ \A i \in 1..6 : t[m + i] = FileType[i]
  <2>1. IsText(l) /\ IsText(FileType) /\ Len(FileType) = 6
    BY <1>2, FileTypeIs
  <2>2. /\ Len(l \o FileType) = Len(l) + Len(FileType)
        /\ \A i \in 1..Len(l) : (l \o FileType)[i] = l[i]
        /\ \A i \in 1..Len(FileType) : (l \o FileType)[Len(l) + i] = FileType[i]
    <3>1. IsText(l) /\ IsText(FileType)
      BY <2>1
    <3> QED BY <3>1, Joined
  <2> QED BY <1>3, <2>1, <2>2
<1>7. NoEmptyLine(t)
  <2>1. ASSUME NEW i \in 1..Len(t), t[i] = CR PROVE i + 2 \in 1..Len(t) /\ t[i + 2] # CR
    <3>1. CASE i \in 1..m
      BY <1>2, <1>6, <2>1, <3>1 DEF Avoids
    <3>2. CASE i = m + 1
      <4>1. 3 \in 1..6 /\ 3 \in 2..6 /\ i + 2 = m + 3 /\ i + 2 \in 1..Len(t)
        BY <1>2, <1>6, <3>2
      <4> HIDE DEF m
      <4>2. t[m + 3] # CR
        BY <1>6, <4>1, FileTypeIs
      <4> QED BY <4>1, <4>2
    <3>3. CASE i \notin 1..m /\ i # m + 1
      <4> DEFINE j == i - m
      <4>1. j \in 2..6 /\ j \in 1..6 /\ m + j = i
        BY <1>2, <1>6, <3>3
      <4> HIDE DEF j, m
      <4>2. t[i] # CR
        BY <1>6, <4>1, FileTypeIs
      <4> QED BY <2>1, <4>2
    <3> QED BY <3>1, <3>2, <3>3
  <2> QED BY <2>1 DEF NoEmptyLine
<1>8. name # <<>>
  BY DEF Disposition
<1>9. /\ name = DispositionValue(PartHeaders(t)[<<"content-disposition">>], NameMarks)
      /\ filename = DispositionValue(PartHeaders(t)[<<"content-disposition">>], {FilenameMark})
  BY <1>4 DEF Disposition
<1> QED BY <1>4, <1>5, <1>7, <1>8, <1>9 DEF PartHeader, t

\* A laid part in the course of parsing.
PartRead(body, f, pos, d, c, name, filename) ==
  /\ IsText(body) /\ ParsesParts(body, f) /\ pos \in Nat \ {0}
  /\ PartHeader(d, name, filename) /\ IsText(c) /\ PartLaid(body, pos, d, c)

\* A part that is in the body as PartRead says is parsed, and the rest follows.
LEMMA PartParsed ==
  ASSUME NEW body, NEW f, NEW pos, NEW d, NEW c, NEW name, NEW filename,
         PartRead(body, f, pos, d, c, name, filename)
  PROVE  f[pos] = WithPart(f[pos + Len(d) + Len(c) + 14],
                           [name |-> name, filename |-> filename, content |-> c])
<1> USE DEF PartRead
<1> DEFINE n == Len(d)
           m == Len(c)
           l == DispositionLine(d)
           line == PartLine(body, Delimiter, pos)
           end == HeaderEnd(body, Delimiter, pos)
           next == NextPart(body, Delimiter, pos)
<1>1. n \in Nat /\ m \in Nat /\ Len(body) \in Nat /\ IsText(d)
  BY DEF IsText, PartHeader
<1>2. /\ At(body, pos, Delimiter) /\ At(body, pos + 3, CRLF)
      /\ At(body, pos + 5, l) /\ At(body, pos + n + 8, CRLF \o CRLF)
      /\ At(body, pos + n + 12, c) /\ At(body, pos + n + m + 12, CRLF \o Delimiter)
      /\ \A q \in pos + n + 12..pos + n + m + 11 : ~At(body, q, CRLF \o Delimiter)
  BY DEF PartLaid
<1>3. Find(body, Delimiter, pos) = pos /\ line = pos + 3
  BY <1>2, LineAt
<1>4. IsText(l) /\ Len(l) = n + 3 /\ NoEmptyLine(l)
  BY <1>1, DispositionLineIs DEF PartHeader
<1>5a. /\ name # <<>> /\ <<"content-disposition">> \in DOMAIN PartHeaders(l)
       /\ name = DispositionValue(PartHeaders(l)[<<"content-disposition">>], NameMarks)
       /\ filename = DispositionValue(PartHeaders(l)[<<"content-disposition">>], {FilenameMark})
  BY DEF PartHeader
<1>5b. IsText(body) /\ ParsesParts(body, f) /\ pos \in Nat \ {0} /\ IsText(c)
  OBVIOUS
<1> HIDE DEF PartRead
<1> USE <1>5b
<1> HIDE DEF l, line
<1>5. end = pos + n + 8
  <2> DEFINE p == pos + n + 8
             z == CRLF \o CRLF
  <2>1. IsText(z) /\ Len(z) = 4 /\ z[1] = CR /\ z[3] = CR
    BY LineEndIs
  <2> HIDE DEF z
  <2>2. p \in Nat /\ pos + 5 \in Nat \ {0} /\ pos + 5 <= p /\ line + 2 = pos + 5
    BY <1>1, <1>3
  <2>3. ASSUME NEW q \in pos + 5..(p - 1), At(body, q, z) PROVE FALSE
    <3> DEFINE i == q - (pos + 4)
    <3>1. /\ i \in 1..Len(l) /\ pos + 5 + i - 1 = q /\ pos + 5 + (i + 2) - 1 = q + 3 - 1
          /\ 1 \in 1..Len(z) /\ 3 \in 1..Len(z) /\ q + 1 - 1 = q
      BY <1>1, <1>4, <2>1
    <3> HIDE DEF i, p
    <3>2. body[q] = l[i] /\ (i + 2 \in 1..Len(l) => body[q + 3 - 1] = l[i + 2])
      BY <1>2, <3>1 DEF At
    <3>3. body[q] = z[1] /\ body[q + 3 - 1] = z[3]
      BY <2>3, <3>1 DEF At
    <3> QED BY <1>4, <2>1, <3>1, <3>2, <3>3 DEF NoEmptyLine
  <2>4. At(body, p, z)
    BY <1>2 DEF z
  <2> HIDE DEF p
  <2>5. Find(body, z, pos + 5) = p
    BY <2>1, <2>2, <2>3, <2>4, FindFirst
  <2> QED BY <2>2, <2>5 DEF HeaderEnd, z, p, line
<1> HIDE DEF end
<1>6. next = pos + n + m + 12
  <2> DEFINE p == pos + n + m + 12
             z == CRLF \o Delimiter
  <2>1. IsText(z)
    BY PartEndIs
  <2>2. /\ p \in Nat /\ pos + n + 12 \in Nat \ {0} /\ pos + n + 12 <= p /\ end + 4 = pos + n + 12
        /\ p - 1 = pos + n + m + 11
    BY <1>1, <1>5
  <2>3. At(body, p, z) /\ \A q \in pos + n + 12..(p - 1) : ~At(body, q, z)
    BY <1>2, <2>2
  <2> HIDE DEF p, z
  <2>4. Find(body, z, pos + n + 12) = p
    BY <2>1, <2>2, <2>3, FindFirst
  <2> QED BY <2>2, <2>4 DEF NextPart, ContentEnd, z, p, end
<1>7. SubSeq(body, line, line + 1) = CRLF /\ CRLF # <<"-", "-">>
  <2>1. SubSeq(body, pos + 3, pos + 3 + Len(CRLF) - 1) = CRLF
    BY <1>2, CRLFIs, pos + 3 \in Nat \ {0}, AtIsPart
  <2>2. pos + 3 + Len(CRLF) - 1 = line + 1
    BY <1>3, CRLFIs
  <2>3. CRLF # <<"-", "-">>
    <3>1. CR # "-"
      BY DEF CR
    <3>2. <<"-", "-">>[1] = "-"
      BY Single
    <3> QED BY <3>1, <3>2, CRLFIs
  <2> QED BY <1>3, <2>1, <2>2, <2>3
<1>8. SubSeq(body, line + 2, end - 1) = l
  <2>1. SubSeq(body, pos + 5, pos + 5 + Len(l) - 1) = l
    BY <1>2, <1>4, pos + 5 \in Nat \ {0}, AtIsPart
  <2>2. pos + 5 + Len(l) - 1 = end - 1 /\ line + 2 = pos + 5
    BY <1>1, <1>3, <1>4, <1>5
  <2> QED BY <2>1, <2>2
<1>9. SubSeq(body, end + 4, next - 1) = c
  <2>1. SubSeq(body, pos + n + 12, pos + n + 12 + Len(c) - 1) = c
    BY <1>1, <1>2, pos + n + 12 \in Nat \ {0}, AtIsPart
  <2>2. pos + n + 12 + Len(c) - 1 = next - 1 /\ end + 4 = pos + n + 12
    BY <1>1, <1>5, <1>6
  <2> HIDE DEF next
  <2> QED BY <2>1, <2>2
<1> HIDE DEF next, n, m
<1>10. PartHead(body, Delimiter, pos) = PartHeaders(l)
  BY <1>8 DEF PartHead, line, end
<1>11. PartFoundAt(body, Delimiter, pos) = [name |-> name, filename |-> filename, content |-> c]
  BY <1>5a, <1>9, <1>10 DEF PartFoundAt, end, next
<1>12. end # 0 /\ next # 0 /\ pos # 0 /\ next + 2 = pos + n + m + 14
  BY <1>1, <1>5, <1>6
<1>13. ~BadAt(body, Delimiter, pos)
  <2>1. PartFoundAt(body, Delimiter, pos).name # <<>>
    BY <1>5a, <1>11
  <2>2. <<"content-disposition">> \in DOMAIN PartHead(body, Delimiter, pos)
    BY <1>5a, <1>10
  <2> QED BY <1>7, <1>12, <2>1, <2>2 DEF BadAt, line, end, next
<1>14. ~LastAt(body, Delimiter, pos)
  BY <1>7 DEF LastAt, line
<1>15. pos \in 1..Len(body)
  BY <1>1, <1>2, DelimiterIs DEF At
<1>16. f[pos] = PartsAt(body, Delimiter, pos, f)
  BY <1>15 DEF ParsesParts
<1>17. f[pos] = WithPart(f[next + 2], PartFoundAt(body, Delimiter, pos))
  BY <1>3, <1>12, <1>13, <1>14, <1>16 DEF PartsAt, next
<1> QED BY <1>11, <1>12, <1>17 DEF n, m

\* A part with the header d and the content c is in the body at pos.
PartPlaced(body, pos, d, c) ==
  /\ At(body, pos, Delimiter) /\ At(body, pos + 3, CRLF)
  /\ At(body, pos + 5, DispositionLine(d)) /\ At(body, pos + Len(d) + 8, CRLF \o CRLF)
  /\ At(body, pos + Len(d) + 12, c) /\ At(body, pos + Len(d) + Len(c) + 12, CRLF)

\* The delimiter is not in a content, not even with the end behind it.
Enclosed(c) == \A i \in 1..Len(c) : ~At(c \o (CRLF \o Delimiter), i, CRLF \o Delimiter)

\* The length of a part, and what a body that holds it looks like.
LEMMA PartIs ==
  ASSUME NEW d, IsText(d), NEW c, IsText(c), NEW t, t = Part(d, c)
  PROVE  /\ IsText(t) /\ Len(t) = Len(d) + Len(c) + 14 /\ Len(d) \in Nat /\ Len(c) \in Nat
         /\ \A body, pos : IsText(body) /\ pos \in Nat /\ At(body, pos, t) => PartPlaced(body, pos, d, c)
<1> DEFINE D == Delimiter
           E == CRLF
           H == <<"Content-Disposition", ":", FormData>>
           t1 == D \o E
           t2 == t1 \o H
           t3 == t2 \o d
           t4 == t3 \o E
           t5 == t4 \o E
           t6 == t5 \o c
           n == Len(d)
           m == Len(c)
<1>1. t = t6 \o E
  BY DEF Part, Delimiter
<1>2. DispositionLine(d) = H \o d
  BY DEF DispositionLine
<1>3. n \in Nat /\ m \in Nat /\ IsText(H) /\ Len(H) = 3 /\ IsText(D) /\ Len(D) = 3 /\ IsText(E) /\ Len(E) = 2
  BY Single, DelimiterIs, CRLFIs DEF IsText
<1> HIDE DEF D, E, H
<1> HIDE DEF t1
<1>4. IsText(t1) /\ Len(t1) = Len(D) + Len(E)
  <2>1. IsText(D) /\ IsText(E)
    BY <1>3
  <2> QED BY <2>1, Joined DEF t1
<1> HIDE DEF t2
<1>5. IsText(t2) /\ Len(t2) = Len(t1) + Len(H)
  <2>1. IsText(t1) /\ IsText(H)
    BY <1>3, <1>4
  <2> QED BY <2>1, Joined DEF t2
<1> HIDE DEF t3
<1>6. IsText(t3) /\ Len(t3) = Len(t2) + Len(d)
  <2>1. IsText(t2) /\ IsText(d)
    BY <1>5
  <2> QED BY <2>1, Joined DEF t3
<1> HIDE DEF t4
<1>7. IsText(t4) /\ Len(t4) = Len(t3) + Len(E)
  <2>1. IsText(t3) /\ IsText(E)
    BY <1>3, <1>6
  <2> QED BY <2>1, Joined DEF t4
<1> HIDE DEF t5
<1>8. IsText(t5) /\ Len(t5) = Len(t4) + Len(E)
  <2>1. IsText(t4) /\ IsText(E)
    BY <1>3, <1>7
  <2> QED BY <2>1, Joined DEF t5
<1> HIDE DEF t6
<1>9. IsText(t6) /\ Len(t6) = Len(t5) + Len(c)
  <2>1. IsText(t5) /\ IsText(c)
    BY <1>8
  <2> QED BY <2>1, Joined DEF t6
<1>10. IsText(t) /\ Len(t) = Len(t6) + Len(E)
  <2>1. IsText(t6) /\ IsText(E)
    BY <1>3, <1>9
  <2> QED BY <1>1, <2>1, Joined
<1>11. /\ Len(t1) = 5 /\ Len(t2) = 8 /\ Len(t3) = n + 8 /\ Len(t4) = n + 10 /\ Len(t5) = n + 12
       /\ Len(t6) = n + m + 12 /\ Len(t) = n + m + 14
  BY <1>3, <1>4, <1>5, <1>6, <1>7, <1>8, <1>9, <1>10
<1>12. ASSUME NEW body, IsText(body), NEW pos \in Nat, At(body, pos, t)
       PROVE  PartPlaced(body, pos, d, c)
  <2>1. At(body, pos, t6) /\ At(body, pos + Len(t6), E)
    <3>1. IsText(body) /\ IsText(t6) /\ IsText(E) /\ pos \in Nat
      BY <1>3, <1>9, <1>12
    <3>2. At(body, pos, t6 \o E)
      BY <1>1, <1>12
    <3> QED BY ONLY <3>1, <3>2, AtJoined
  <2>2. At(body, pos, t5) /\ At(body, pos + Len(t5), c)
    <3>1. IsText(body) /\ IsText(t5) /\ IsText(c) /\ pos \in Nat
      BY <1>8, <1>12
    <3>2. At(body, pos, t5 \o c)
      BY <2>1 DEF t6
    <3> QED BY ONLY <3>1, <3>2, AtJoined
  <2>3. At(body, pos, t4) /\ At(body, pos + Len(t4), E)
    <3>1. IsText(body) /\ IsText(t4) /\ IsText(E) /\ pos \in Nat
      BY <1>3, <1>7, <1>12
    <3>2. At(body, pos, t4 \o E)
      BY <2>2 DEF t5
    <3> QED BY ONLY <3>1, <3>2, AtJoined
  <2>4. At(body, pos, t3) /\ At(body, pos + Len(t3), E)
    <3>1. IsText(body) /\ IsText(t3) /\ IsText(E) /\ pos \in Nat
      BY <1>3, <1>6, <1>12
    <3>2. At(body, pos, t3 \o E)
      BY <2>3 DEF t4
    <3> QED BY ONLY <3>1, <3>2, AtJoined
  <2>5. At(body, pos, t2) /\ At(body, pos + Len(t2), d)
    <3>1. IsText(body) /\ IsText(t2) /\ IsText(d) /\ pos \in Nat
      BY <1>5, <1>12
    <3>2. At(body, pos, t2 \o d)
      BY <2>4 DEF t3
    <3> QED BY ONLY <3>1, <3>2, AtJoined
  <2>6. At(body, pos, t1) /\ At(body, pos + Len(t1), H)
    <3>1. IsText(body) /\ IsText(t1) /\ IsText(H) /\ pos \in Nat
      BY <1>3, <1>4, <1>12
    <3>2. At(body, pos, t1 \o H)
      BY <2>5 DEF t2
    <3> QED BY ONLY <3>1, <3>2, AtJoined
  <2>7. At(body, pos, D) /\ At(body, pos + Len(D), E)
    <3>1. IsText(body) /\ IsText(D) /\ IsText(E) /\ pos \in Nat
      BY <1>3, <1>12
    <3>2. At(body, pos, D \o E)
      BY <2>6 DEF t1
    <3> QED BY ONLY <3>1, <3>2, AtJoined
  <2> HIDE DEF n, m
  <2>8. /\ pos + Len(D) = pos + 3 /\ pos + Len(t1) = pos + 5 /\ pos + Len(t2) = (pos + 5) + Len(H)
        /\ pos + Len(t3) = pos + n + 8 /\ pos + Len(t4) = (pos + n + 8) + Len(E)
        /\ pos + Len(t5) = pos + n + 12 /\ pos + Len(t6) = pos + n + m + 12
        /\ pos + 5 \in Nat /\ pos + n + 8 \in Nat
    BY <1>3, <1>11
  <2>9. At(body, pos + 5, H \o d)
    <3> DEFINE p == pos + 5
    <3>1. IsText(body) /\ IsText(H) /\ IsText(d) /\ p \in Nat
      BY <1>3, <1>12
    <3>2. At(body, p, H) /\ At(body, p + Len(H), d)
      BY <2>5, <2>6, <2>8
    <3> HIDE DEF p
    <3>3. At(body, p, H \o d)
      BY ONLY <3>1, <3>2, AtJoined
    <3> QED BY <3>3 DEF p
  <2>10. At(body, pos + n + 8, E \o E)
    <3> DEFINE p == pos + n + 8
    <3>1. IsText(body) /\ IsText(E) /\ IsText(E) /\ p \in Nat
      BY <1>3, <1>12, <2>8
    <3>2. At(body, p, E) /\ At(body, p + Len(E), E)
      BY <2>3, <2>4, <2>8
    <3> HIDE DEF p
    <3>3. At(body, p, E \o E)
      BY ONLY <3>1, <3>2, AtJoined
    <3> QED BY <3>3 DEF p
  <2>11. At(body, pos + 3, E) /\ At(body, pos + n + 12, c) /\ At(body, pos + n + m + 12, E)
    BY <2>1, <2>2, <2>7, <2>8
  <2> QED BY <1>2, <2>7, <2>9, <2>10, <2>11 DEF PartPlaced, D, E, n, m
<1> QED BY <1>3, <1>10, <1>11, <1>12

\* A placed part before a delimiter is laid.
LEMMA PartLaidOut ==
  ASSUME NEW body, IsText(body), NEW pos \in Nat \ {0}, NEW d, IsText(d), NEW c, IsText(c), Enclosed(c),
         PartPlaced(body, pos, d, c), At(body, pos + Len(d) + Len(c) + 14, Delimiter)
  PROVE  PartLaid(body, pos, d, c)
<1> DEFINE n == Len(d)
           m == Len(c)
           z == CRLF \o Delimiter
           s == pos + n + 12
<1>1. n \in Nat /\ m \in Nat /\ s \in Nat /\ s + m \in Nat
  BY DEF IsText
<1>2. IsText(z) /\ Len(z) = 5
  BY PartEndIs
<1>3. At(body, s, c) /\ At(body, s + m, CRLF)
  <2>1. s + m = pos + n + m + 12
    BY <1>1
  <2> QED BY <2>1 DEF PartPlaced
<1>4. At(body, s + m, z)
  <2> DEFINE p == s + m
  <2>1. IsText(body) /\ IsText(CRLF) /\ IsText(Delimiter) /\ p \in Nat
    BY <1>1, CRLFIs, DelimiterIs
  <2>2. p + Len(CRLF) = pos + n + m + 14
    BY <1>1, CRLFIs
  <2>3. At(body, p, CRLF) /\ At(body, p + Len(CRLF), Delimiter)
    BY <1>3, <2>2
  <2> HIDE DEF p
  <2>4. At(body, p, CRLF \o Delimiter)
    BY ONLY <2>1, <2>3, AtJoined
  <2> QED BY <2>4 DEF p
<1> DEFINE w == c \o z
<1>5. Enclosed(c) <=> \A i \in 1..m : ~At(w, i, z)
  BY DEF Enclosed
<1> HIDE DEF z
<1>6. At(body, s, w)
  <2>1. IsText(body) /\ IsText(c) /\ IsText(z) /\ s \in Nat
    BY <1>1, <1>2
  <2>2. At(body, s, c) /\ At(body, s + Len(c), z)
    BY <1>3, <1>4
  <2> HIDE DEF s
  <2> QED BY ONLY <2>1, <2>2, AtJoined DEF w
<1>7. IsText(w) /\ Len(w) = m + 5
  <2>1. IsText(c) /\ IsText(z)
    BY <1>2
  <2>2. IsText(w) /\ Len(w) = Len(c) + Len(z)
    BY <2>1, Joined
  <2> QED BY <1>2, <2>2
<1> HIDE DEF w
<1>8. ASSUME NEW q \in s..pos + n + m + 11, At(body, q, z) PROVE FALSE
  <2> DEFINE i == q - (pos + n + 11)
  <2>1. i \in 1..m /\ i + 5 - 1 <= m + 5 /\ i \in Nat \ {0} /\ q \in Nat
    BY <1>1
  <2>2. \A k \in 1..5 : i + k - 1 \in 1..m + 5 /\ s + (i + k - 1) - 1 = q + k - 1
    BY <1>1, <2>1
  <2> HIDE DEF i, s, n, m
  <2>3. ASSUME NEW k \in 1..5 PROVE w[i + k - 1] = z[k]
    <3> DEFINE j == i + k - 1
    <3>1. j \in 1..Len(w) /\ s + j - 1 = q + k - 1
      BY <1>7, <2>2
    <3> HIDE DEF j
    <3>2. body[s + j - 1] = w[j] /\ body[q + k - 1] = z[k]
      BY <1>2, <1>6, <1>8, <3>1 DEF At
    <3> QED BY <3>1, <3>2 DEF j
  <2>4. At(w, i, z)
    BY <1>2, <1>7, <2>1, <2>3 DEF At
  <2> QED BY <1>5, <2>1, <2>4
<1>9. At(body, pos + n + m + 12, z)
  <2>1. s + m = pos + n + m + 12
    BY <1>1
  <2> QED BY <1>4, <2>1
<1> QED BY <1>8, <1>9 DEF PartLaid, PartPlaced, z

(***************************************************************************)
(* The form of the upload.                                                 *)
(***************************************************************************)

\* The names of the fields are no marks.
LEMMA FieldNames == \A x \in {"username", "directory", "file"} : x \notin {Quote, FilenameMark, CR}
BY Zenon DEF Quote, FilenameMark, CR

\* A text without CR does not hold the delimiter.
LEMMA NameEnclosed ==
  ASSUME NEW c, IsText(c), Avoids(c, {CR})
  PROVE  Enclosed(c)
<1> DEFINE z == CRLF \o Delimiter
<1>1. IsText(z) /\ Len(z) = 5 /\ z[1] = CR
  BY PartEndIs
<1>2. ASSUME NEW i \in 1..Len(c), At(c \o z, i, z) PROVE FALSE
  <2> HIDE DEF z
  <2>1. \A k \in 1..Len(c) : (c \o z)[k] = c[k]
    <3>1. IsText(c) /\ IsText(z)
      BY <1>1
    <3> QED BY <3>1, Joined
  <2>2. 1 \in 1..Len(z) /\ i + 1 - 1 = i
    BY <1>1 DEF IsText
  <2>3. (c \o z)[i] = z[1]
    BY <1>2, <2>2 DEF At
  <2> QED BY <1>1, <2>1, <2>3 DEF Avoids
<1> QED BY <1>2 DEF Enclosed

\* What ends the body.
LEMMA TailIs ==
  ASSUME NEW t, t = <<"-", "-", "XYZ", "-", "-">> \o CRLF
  PROVE  /\ IsText(t) /\ Len(t) = 7
         /\ \A body, pos : IsText(body) /\ pos \in Nat /\ At(body, pos, t)
                             => At(body, pos, Delimiter) /\ At(body, pos + 3, <<"-", "-">>)
<1> DEFINE five == <<"-", "-", "XYZ", "-", "-">>
<1>3. /\ IsText(five) /\ Len(five) = 5
      /\ five[1] = "-" /\ five[2] = "-" /\ five[3] = "XYZ" /\ five[4] = "-" /\ five[5] = "-"
  BY FiveIs
<1>4. t = five \o CRLF
  OBVIOUS
<1> HIDE DEF five
<1>5. IsText(t) /\ Len(t) = 7 /\ \A i \in 1..Len(five) : t[i] = five[i]
  <2>1. IsText(five) /\ IsText(CRLF) /\ Len(five) + Len(CRLF) = 7
    BY <1>3, CRLFIs
  <2>2. /\ IsText(five \o CRLF) /\ Len(five \o CRLF) = Len(five) + Len(CRLF)
        /\ \A i \in 1..Len(five) : (five \o CRLF)[i] = five[i]
    BY <2>1, Joined
  <2> QED BY <1>4, <2>1, <2>2
<1>1. IsText(t) /\ Len(t) = 7 /\ t[1] = "-" /\ t[2] = "-" /\ t[3] = "XYZ" /\ t[4] = "-" /\ t[5] = "-"
  BY <1>3, <1>5
<1>2. ASSUME NEW body, IsText(body), NEW pos \in Nat, At(body, pos, t)
      PROVE  At(body, pos, Delimiter) /\ At(body, pos + 3, <<"-", "-">>)
  <2> DEFINE u == <<"-", "-">>
  <2>1. IsText(u) /\ Len(u) = 2 /\ u[1] = "-" /\ u[2] = "-" /\ \A i \in 1..2 : i = 1 \/ i = 2
    BY Single
  <2> HIDE DEF u
  <2>2. /\ pos + 7 - 1 <= Len(body)
        /\ body[pos + 1 - 1] = "-" /\ body[pos + 2 - 1] = "-" /\ body[pos + 3 - 1] = "XYZ"
        /\ body[pos + 4 - 1] = "-" /\ body[pos + 5 - 1] = "-"
    <3>1. 1 \in 1..7 /\ 2 \in 1..7 /\ 3 \in 1..7 /\ 4 \in 1..7 /\ 5 \in 1..7
      OBVIOUS
    <3>2. pos + 7 - 1 <= Len(body) /\ \A i \in 1..7 : body[pos + i - 1] = t[i]
      BY <1>1, <1>2 DEF At
    <3> QED BY <1>1, <3>1, <3>2
  <2>3. At(body, pos, Delimiter)
    <3>1. \A i \in 1..3 : i = 1 \/ i = 2 \/ i = 3
      OBVIOUS
    <3>2. pos + 3 - 1 <= Len(body)
      <4>1. pos + 7 - 1 <= Len(body) /\ Len(body) \in Nat
        BY <1>2, <2>2 DEF IsText
      <4> QED BY <4>1
    <3> QED BY <2>2, <3>1, <3>2, DelimiterIs DEF At
  <2>4. At(body, pos + 3, u)
    <3>1. /\ pos + 3 + 1 - 1 = pos + 4 - 1 /\ pos + 3 + 2 - 1 = pos + 5 - 1
          /\ pos + 3 + 2 - 1 <= Len(body)
      BY <1>2, <2>2 DEF IsText
    <3> QED BY <2>1, <2>2, <3>1 DEF At
  <2> QED BY <2>3, <2>4 DEF u
<1> QED BY <1>1, <1>2

\* The header of a field of the upload's form.
LEMMA FieldPart ==
  ASSUME NEW x \in {"username", "directory"}, NEW d, d = FieldHeader(<<x>>)
  PROVE  Disposition(d, <<x>>, <<>>) /\ IsText(d)
<1> DEFINE n == <<x>>
<1>1. IsText(n) /\ Avoids(n, {Quote, FilenameMark, CR})
  <2>1. x \notin {Quote, FilenameMark, CR}
    BY FieldNames
  <2> QED BY <2>1, Single, AvoidsSymbol
<1>2. d = FieldHeader(n)
  OBVIOUS
<1> HIDE DEF n
<1>3. /\ IsText(d) /\ Avoids(d, {CR}) /\ DispositionValue(<<FormData>> \o d, NameMarks) = n
      /\ DispositionValue(<<FormData>> \o d, {FilenameMark}) = <<>>
  BY <1>1, <1>2, FieldDisposition
<1>4. n # <<>>
  BY Single DEF n
<1> QED BY <1>3, <1>4 DEF n, Disposition

\* The headers of its file.
LEMMA FilePart ==
  ASSUME NEW name, IsText(name), Avoids(name, {Quote, CR}), NEW d, d = FileHeader(name) \o FileType
  PROVE  PartHeader(d, <<"file">>, name)
<1> DEFINE e == FileHeader(name)
           n == <<"file">>
<1>1. n # <<>>
  BY Single
<1>2. /\ IsText(e) /\ Avoids(e, {CR})
      /\ DispositionValue(<<FormData>> \o e, NameMarks) = n
      /\ DispositionValue(<<FormData>> \o e, {FilenameMark}) = name
  BY FileDisposition
<1> HIDE DEF e, n
<1>3. Disposition(e, n, name)
  BY <1>1, <1>2 DEF Disposition
<1>4. PartHeader(e \o FileType, n, name)
  BY <1>3, FileRead
<1> QED BY <1>4 DEF e, n

\* The parts a body of three is parsed into.
ThreeParts(parts, x1, c1, x2, c2, name, content) ==
  /\ Len(parts) = 3 /\ DOMAIN parts = 1..3
  /\ parts[1] = [name |-> <<x1>>, filename |-> <<>>, content |-> c1]
  /\ parts[2] = [name |-> <<x2>>, filename |-> <<>>, content |-> c2]
  /\ parts[3] = [name |-> <<"file">>, filename |-> name, content |-> content]

\* Three parts, one before the other.
LEMMA PartsOf ==
  ASSUME NEW r1, NEW r2, NEW r3, NEW p1, NEW p2, NEW p3,
         r1 = WithPart(r2, p1), r2 = WithPart(r3, p2), r3 = WithPart(NoMore, p3)
  PROVE  Len(r1.parts) = 3 /\ DOMAIN r1.parts = 1..3 /\ r1.parts[1] = p1 /\ r1.parts[2] = p2 /\ r1.parts[3] = p3
<1>1. ASSUME NEW r, "parts" \in DOMAIN r, NEW p
      PROVE  "parts" \in DOMAIN WithPart(r, p) /\ WithPart(r, p).parts = <<p>> \o r.parts
  BY <1>1 DEF WithPart
<1>2. <<p3>> \o <<>> = <<p3>>
  <2> DEFINE z == <<p3>>
  <2>1. IsText(z)
    BY Single
  <2> HIDE DEF z
  <2>2. z \o <<>> = z
    BY <2>1, JoinedEmpty
  <2> QED BY <2>2 DEF z
<1>3. "parts" \in DOMAIN NoMore /\ NoMore.parts = <<>>
  BY DEF NoMore
<1>4. "parts" \in DOMAIN r3 /\ r3.parts = <<p3>>
  BY <1>1, <1>2, <1>3
<1>5a. "parts" \in DOMAIN r2 /\ r2.parts = <<p2>> \o <<p3>>
  BY <1>1, <1>4
<1>5b. r1.parts = <<p1>> \o (<<p2>> \o <<p3>>)
  BY <1>1, <1>5a
<1> DEFINE a == <<p1>>
           b == <<p2, p3>>
<1>5. r1.parts = a \o b
  BY <1>5b, PairIs
<1>6. IsText(a) /\ Len(a) = 1 /\ a[1] = p1 /\ IsText(b) /\ Len(b) = 2 /\ b[1] = p2 /\ b[2] = p3
  BY Single
<1> HIDE DEF a, b
<1>7. /\ IsText(a \o b) /\ Len(a \o b) = Len(a) + Len(b)
      /\ \A i \in 1..Len(a) : (a \o b)[i] = a[i]
      /\ \A i \in 1..Len(b) : (a \o b)[Len(a) + i] = b[i]
  <2>1. IsText(a) /\ IsText(b)
    BY <1>6
  <2> QED BY <2>1, Joined
<1>8. /\ Len(a) + Len(b) = 3 /\ 1 \in 1..Len(a) /\ 1 \in 1..Len(b) /\ 2 \in 1..Len(b)
      /\ Len(a) + 1 = 2 /\ Len(a) + 2 = 3
  BY <1>6
<1> DEFINE t == r1.parts
<1>9. IsText(t) /\ Len(t) = 3 /\ t[1] = p1 /\ t[2] = p2 /\ t[3] = p3
  BY <1>5, <1>6, <1>7, <1>8
<1> HIDE DEF t
<1>10. DOMAIN t = 1..3
  BY <1>9 DEF IsText
<1> QED BY <1>9, <1>10 DEF t

\* The body of the upload's form.
LEMMA ThreePartsParsed ==
  ASSUME NEW x1 \in {"username", "directory"}, NEW x2 \in {"username", "directory"},
         NEW c1, IsText(c1), Enclosed(c1), NEW c2, IsText(c2), Enclosed(c2),
         NEW name, IsText(name), Avoids(name, {Quote, CR}), NEW content, IsText(content), Enclosed(content),
         NEW body, body = (Part(FieldHeader(<<x1>>), c1) \o Part(FieldHeader(<<x2>>), c2))
                            \o Part(FileHeader(name) \o FileType, content)
                            \o (<<"-", "-", "XYZ", "-", "-">> \o CRLF)
  PROVE  /\ IsText(body) /\ Len(body) # 0
         /\ ThreeParts(ParseMultipart(UploadType, body).parts, x1, c1, x2, c2, name, content)
<1> DEFINE d1 == FieldHeader(<<x1>>)
           d2 == FieldHeader(<<x2>>)
           d3 == FileHeader(name) \o FileType
           p1 == Part(d1, c1)
           p2 == Part(d2, c2)
           p3 == Part(d3, content)
           t == <<"-", "-", "XYZ", "-", "-">> \o CRLF
           b2 == p1 \o p2
           b3 == b2 \o p3
           s2 == 1 + Len(d1) + Len(c1) + 14
           s3 == s2 + Len(d2) + Len(c2) + 14
           s4 == s3 + Len(d3) + Len(content) + 14
           q1 == [name |-> <<x1>>, filename |-> <<>>, content |-> c1]
           q2 == [name |-> <<x2>>, filename |-> <<>>, content |-> c2]
           q3 == [name |-> <<"file">>, filename |-> name, content |-> content]
<1>1. body = b3 \o t
  OBVIOUS
<1>2. IsText(d1) /\ PartHeader(d1, <<x1>>, <<>>)
  BY FieldPart, FieldRead
<1>3. IsText(d2) /\ PartHeader(d2, <<x2>>, <<>>)
  BY FieldPart, FieldRead
<1>4. IsText(d3) /\ PartHeader(d3, <<"file">>, name)
  BY FilePart DEF PartHeader
<1> HIDE DEF d1, d2, d3
<1>5. /\ IsText(p1) /\ Len(p1) = Len(d1) + Len(c1) + 14 /\ Len(d1) \in Nat /\ Len(c1) \in Nat
      /\ \A s, pos : IsText(s) /\ pos \in Nat /\ At(s, pos, p1) => PartPlaced(s, pos, d1, c1)
  BY <1>2, PartIs
<1>6. /\ IsText(p2) /\ Len(p2) = Len(d2) + Len(c2) + 14 /\ Len(d2) \in Nat /\ Len(c2) \in Nat
      /\ \A s, pos : IsText(s) /\ pos \in Nat /\ At(s, pos, p2) => PartPlaced(s, pos, d2, c2)
  BY <1>3, PartIs
<1>7. /\ IsText(p3) /\ Len(p3) = Len(d3) + Len(content) + 14 /\ Len(d3) \in Nat /\ Len(content) \in Nat
      /\ \A s, pos : IsText(s) /\ pos \in Nat /\ At(s, pos, p3) => PartPlaced(s, pos, d3, content)
  BY <1>4, PartIs
<1>8. /\ IsText(t) /\ Len(t) = 7
      /\ \A s, pos : IsText(s) /\ pos \in Nat /\ At(s, pos, t) => At(s, pos, Delimiter) /\ At(s, pos + 3, <<"-", "-">>)
  BY TailIs
<1> HIDE DEF p1, p2, p3, t
<1>9. IsText(b2) /\ Len(b2) = Len(p1) + Len(p2)
  <2>1. IsText(p1) /\ IsText(p2)
    BY <1>5, <1>6
  <2> QED BY <2>1, Joined
<1> HIDE DEF b2
<1>10. IsText(b3) /\ Len(b3) = Len(b2) + Len(p3)
  <2>1. IsText(b2) /\ IsText(p3)
    BY <1>7, <1>9
  <2> QED BY <2>1, Joined
<1> HIDE DEF b3
<1>11. IsText(body) /\ Len(body) = Len(b3) + Len(t)
  <2>1. IsText(b3) /\ IsText(t)
    BY <1>8, <1>10
  <2>2. IsText(b3 \o t) /\ Len(b3 \o t) = Len(b3) + Len(t)
    BY <2>1, Joined
  <2> QED BY ONLY <1>1, <2>2
<1>12. At(body, 1, b3) /\ At(body, 1 + Len(b3), t)
  <2>1. IsText(body) /\ IsText(b3) /\ IsText(t) /\ 1 \in Nat
    BY <1>8, <1>10, <1>11
  <2>2. At(body, 1, body)
    BY <1>11, AtItself
  <2>3. At(body, 1, b3 \o t)
    BY ONLY <1>1, <2>2
  <2> QED BY ONLY <2>1, <2>3, AtJoined
<1>13. At(body, 1, b2) /\ At(body, 1 + Len(b2), p3)
  <2>1. IsText(body) /\ IsText(b2) /\ IsText(p3) /\ 1 \in Nat
    BY <1>7, <1>9, <1>11
  <2>2. At(body, 1, b2 \o p3)
    BY <1>12 DEF b3
  <2> QED BY ONLY <2>1, <2>2, AtJoined
<1>14. At(body, 1, p1) /\ At(body, 1 + Len(p1), p2)
  <2>1. IsText(body) /\ IsText(p1) /\ IsText(p2) /\ 1 \in Nat
    BY <1>5, <1>6, <1>11
  <2>2. At(body, 1, p1 \o p2)
    BY <1>13 DEF b2
  <2> QED BY ONLY <2>1, <2>2, AtJoined
<1>15. /\ s2 \in Nat \ {0} /\ s3 \in Nat \ {0} /\ s4 \in Nat \ {0}
       /\ 1 + Len(p1) = s2 /\ 1 + Len(b2) = s3 /\ 1 + Len(b3) = s4 /\ Len(body) # 0
  <2> DEFINE y1 == Len(d1)
             y2 == Len(d2)
             y3 == Len(d3)
             z1 == Len(c1)
             z2 == Len(c2)
             z3 == Len(content)
             k1 == Len(p1)
             k2 == Len(b2)
             k3 == Len(b3)
             k4 == Len(body)
  <2>1. /\ y1 \in Nat /\ y2 \in Nat /\ y3 \in Nat /\ z1 \in Nat /\ z2 \in Nat /\ z3 \in Nat
        /\ k1 = y1 + z1 + 14 /\ k2 = k1 + (y2 + z2 + 14) /\ k3 = k2 + (y3 + z3 + 14) /\ k4 = k3 + 7
        /\ s2 = 1 + y1 + z1 + 14 /\ s3 = s2 + y2 + z2 + 14 /\ s4 = s3 + y3 + z3 + 14
    BY <1>5, <1>6, <1>7, <1>8, <1>9, <1>10, <1>11
  <2> HIDE DEF y1, y2, y3, z1, z2, z3, k1, k2, k3, k4, s2, s3, s4
  <2>2. /\ s2 \in Nat \ {0} /\ s3 \in Nat \ {0} /\ s4 \in Nat \ {0}
        /\ 1 + k1 = s2 /\ 1 + k2 = s3 /\ 1 + k3 = s4 /\ k4 # 0
    BY ONLY <2>1
  <2> QED BY <2>2 DEF k1, k2, k3, k4
<1> HIDE DEF s2, s3, s4
<1>16. PartPlaced(body, 1, d1, c1) /\ PartPlaced(body, s2, d2, c2) /\ PartPlaced(body, s3, d3, content)
  <2>1. IsText(body) /\ At(body, 1, p1) /\ At(body, s2, p2) /\ At(body, s3, p3) /\ 1 \in Nat
    BY <1>11, <1>13, <1>14, <1>15
  <2> QED BY <1>5, <1>6, <1>7, <1>15, <2>1
<1>17. At(body, s4, Delimiter) /\ At(body, s4 + 3, <<"-", "-">>)
  <2>1. IsText(body) /\ s4 \in Nat /\ At(body, s4, t)
    BY <1>11, <1>12, <1>15
  <2> QED BY ONLY <2>1, <1>8
<1>18. At(body, s2, Delimiter) /\ At(body, s3, Delimiter)
  BY <1>16 DEF PartPlaced
<1>19. PICK f : ParsesParts(body, f)
  <2>1. body # <<>>
    BY <1>15, Single
  <2> QED BY <1>11, <2>1, PartsRecursion
<1>20. f[1] = WithPart(f[s2], q1)
  <2> DEFINE n == <<x1>>
             e == <<>>
  <2>1. PartHeader(d1, n, e)
    BY <1>2
  <2> HIDE DEF n, e
  <2>2. 1 + Len(d1) + Len(c1) + 14 = s2 /\ 1 \in Nat \ {0}
    BY DEF s2
  <2>3. PartLaid(body, 1, d1, c1)
    <3>1. At(body, 1 + Len(d1) + Len(c1) + 14, Delimiter)
      BY <1>18, <2>2
    <3> QED BY <1>2, <1>11, <1>16, <2>2, <3>1, PartLaidOut
  <2>5. q1 = [name |-> n, filename |-> e, content |-> c1]
    BY DEF n, e
  <2> HIDE DEF q1
  <2>4. f[1] = WithPart(f[s2], q1)
    <3>1. /\ IsText(body) /\ ParsesParts(body, f) /\ 1 \in Nat \ {0} /\ IsText(c1)
          /\ PartLaid(body, 1, d1, c1)
      BY <1>2, <1>11, <1>15, <1>19, <2>2, <2>3
    <3>2. PartRead(body, f, 1, d1, c1, n, e)
      BY <2>1, <3>1 DEF PartRead
    <3>3. f[1] = WithPart(f[1 + Len(d1) + Len(c1) + 14], [name |-> n, filename |-> e, content |-> c1])
      BY ONLY <3>2, PartParsed
    <3> QED BY <2>2, <2>5, <3>3
  <2> QED BY <2>4
<1>21. f[s2] = WithPart(f[s3], q2)
  <2> DEFINE n == <<x2>>
             e == <<>>
  <2>1. PartHeader(d2, n, e)
    BY <1>3
  <2> HIDE DEF n, e
  <2>2. s3 = s2 + Len(d2) + Len(c2) + 14 /\ s2 \in Nat \ {0}
    BY <1>15 DEF s3
  <2>3. PartLaid(body, s2, d2, c2)
    <3>1. At(body, s2 + Len(d2) + Len(c2) + 14, Delimiter)
      BY <1>18, <2>2
    <3> QED BY <1>3, <1>11, <1>15, <1>16, <3>1, PartLaidOut
  <2>5. q2 = [name |-> n, filename |-> e, content |-> c2]
    BY DEF n, e
  <2> HIDE DEF q2
  <2>4. f[s2] = WithPart(f[s3], q2)
    <3>1. /\ IsText(body) /\ ParsesParts(body, f) /\ s2 \in Nat \ {0} /\ IsText(c2)
          /\ PartLaid(body, s2, d2, c2)
      BY <1>3, <1>11, <1>15, <1>19, <2>3
    <3>2. PartRead(body, f, s2, d2, c2, n, e)
      BY <2>1, <3>1 DEF PartRead
    <3>3. f[s2] = WithPart(f[s2 + Len(d2) + Len(c2) + 14], [name |-> n, filename |-> e, content |-> c2])
      BY ONLY <3>2, PartParsed
    <3> QED BY <2>2, <2>5, <3>3
  <2> QED BY <2>4
<1>22. f[s3] = WithPart(f[s4], q3)
  <2> DEFINE n == <<"file">>
  <2>1. PartHeader(d3, n, name)
    BY <1>4
  <2> HIDE DEF n
  <2>2. s4 = s3 + Len(d3) + Len(content) + 14 /\ s3 \in Nat \ {0}
    BY <1>15 DEF s4
  <2>3. PartLaid(body, s3, d3, content)
    <3>1. At(body, s3 + Len(d3) + Len(content) + 14, Delimiter)
      BY <1>17, <2>2
    <3> QED BY <1>4, <1>11, <1>15, <1>16, <3>1, PartLaidOut
  <2>5. q3 = [name |-> n, filename |-> name, content |-> content]
    BY DEF n
  <2> HIDE DEF q3
  <2>4. f[s3] = WithPart(f[s4], q3)
    <3>1. /\ IsText(body) /\ ParsesParts(body, f) /\ s3 \in Nat \ {0} /\ IsText(content)
          /\ PartLaid(body, s3, d3, content)
      BY <1>4, <1>11, <1>15, <1>19, <2>3
    <3>2. PartRead(body, f, s3, d3, content, n, name)
      BY <2>1, <3>1 DEF PartRead
    <3>3. f[s3] = WithPart(f[s3 + Len(d3) + Len(content) + 14], [name |-> n, filename |-> name, content |-> content])
      BY ONLY <3>2, PartParsed
    <3> QED BY <2>2, <2>5, <3>3
  <2> QED BY <2>4
<1>23. f[s4] = NoMore
  BY <1>11, <1>15, <1>17, <1>19, LastParsed
<1>24. ParseMultipart(UploadType, body) = f[1]
  BY <1>19 DEF ParsesParts
<1> DEFINE r == ParseMultipart(UploadType, body)
<1> HIDE DEF q1, q2, q3, r
<1>25. Len(r.parts) = 3 /\ DOMAIN r.parts = 1..3 /\ r.parts[1] = q1 /\ r.parts[2] = q2 /\ r.parts[3] = q3
  <2>1. r = WithPart(f[s2], q1) /\ f[s2] = WithPart(f[s3], q2) /\ f[s3] = WithPart(NoMore, q3)
    BY <1>20, <1>21, <1>22, <1>23, <1>24 DEF r
  <2> QED BY ONLY <2>1, PartsOf
<1> QED BY <1>11, <1>15, <1>25 DEF ThreeParts, q1, q2, q3, r

\* The maximum of one number.
LEMMA MaxIs == \A x \in Int : Max({x}) = x
BY DEF Max

\* What the form's three parts are taken for.
LEMMA UploadedIs ==
  ASSUME NEW parts, NEW c1, NEW c2, NEW name, name # <<>>, NEW content,
         ThreeParts(parts, "username", c1, "directory", c2, name, content)
  PROVE  Uploaded(parts) = [fields |-> WithField(WithField(NoFields, <<"directory">>, c2), <<"username">>, c1),
                            file |-> [name |-> name, content |-> content]]
<1> DEFINE named(x) == {i \in DOMAIN parts : parts[i].name = x}
           files == {i \in named(<<"file">>) : IsFile(parts[i])}
           names == {parts[i].name : i \in DOMAIN parts} \ {<<"file">>}
           fields == [x \in names |-> parts[Max(named(x))].content]
           meant == WithField(WithField(NoFields, <<"directory">>, c2), <<"username">>, c1)
<1>1. /\ DOMAIN parts = 1..3 /\ (\A i \in 1..3 : i = 1 \/ i = 2 \/ i = 3)
      /\ 1 \in 1..3 /\ 2 \in 1..3 /\ 3 \in 1..3
  BY DEF ThreeParts
<1>2. /\ parts[1].name = <<"username">> /\ parts[1].content = c1
      /\ parts[2].name = <<"directory">> /\ parts[2].content = c2
      /\ parts[3].name = <<"file">> /\ parts[3].content = content /\ parts[3].filename = name
  BY DEF ThreeParts
<1>3. /\ <<"username">> # <<"directory">> /\ <<"username">> # <<"file">> /\ <<"directory">> # <<"file">>
  BY SameWord
<1>4. named(<<"username">>) = {1} /\ named(<<"directory">>) = {2} /\ named(<<"file">>) = {3}
  BY <1>1, <1>2, <1>3
<1>5. names = {<<"username">>, <<"directory">>}
  BY <1>1, <1>2, <1>3
<1>6. files = {3}
  BY <1>2, <1>4 DEF IsFile
<1>7. Uploaded(parts) = [fields |-> fields,
                         file |-> IF files = {} THEN NoFile
                                  ELSE [name |-> parts[Max(files)].filename, content |-> parts[Max(files)].content]]
  BY DEF Uploaded
<1>8. DOMAIN fields = names /\ \A x \in names : fields[x] = parts[Max(named(x))].content
  OBVIOUS
<1>9. fields = [x \in names |-> fields[x]]
  BY DEF fields
<1> HIDE DEF named, files, names, fields
<1>10. fields[<<"username">>] = c1 /\ fields[<<"directory">>] = c2
  <2>1. Max({1}) = 1 /\ Max({2}) = 2
    BY MaxIs
  <2> QED BY <1>2, <1>4, <1>5, <1>8, <2>1
<1>11. /\ DOMAIN meant = {<<"username">>, <<"directory">>} /\ meant = [x \in DOMAIN meant |-> meant[x]]
       /\ meant[<<"username">>] = c1 /\ meant[<<"directory">>] = c2
  <2> DEFINE inner == WithField(NoFields, <<"directory">>, c2)
  <2>1. DOMAIN inner = {<<"directory">>} /\ inner[<<"directory">>] = c2
    BY DEF WithField, NoFields
  <2> HIDE DEF inner
  <2>2. meant = WithField(inner, <<"username">>, c1)
    BY DEF inner
  <2> HIDE DEF meant
  <2> QED BY <1>3, <2>1, <2>2 DEF WithField
<1> HIDE DEF meant
<1>12. fields = meant
  BY <1>5, <1>8, <1>9, <1>10, <1>11
<1>13. files # {} /\ parts[Max(files)].filename = name /\ parts[Max(files)].content = content
  <2>1. Max({3}) = 3
    BY MaxIs
  <2> QED BY <1>2, <1>6, <2>1
<1> QED BY <1>7, <1>12, <1>13 DEF meant

\* The files a browser uploads: a name, without what ends it in the header, and
\* a content in which the delimiter is not.
FileText(file) ==
  /\ file = [name |-> file.name, content |-> file.content]
  /\ IsText(file.name) /\ file.name # <<>> /\ Avoids(file.name, {Quote, CR})
  /\ IsText(file.content) /\ Enclosed(file.content)

(***************************************************************************)
(* The theorems.                                                           *)
(***************************************************************************)

\* What UrlEncode writes, and what a browser writes for the value of a form, is
\* decoded by UrlDecode to the text it was made of, whatever that is; and the
\* browser reads from a page the value that HtmlEscape was given
\* (HttpServer.cpp, the helpers of its first part).
THEOREM UrlEncodeTheorem ==
  ASSUME NEW t, IsText(t)
  PROVE  /\ UrlDecode(UrlEncode(t)) = t /\ UrlDecode(FormEncode(t)) = t
         /\ Unescaped(t) => Unescape(HtmlEscape(t)) = t
<1>1. Coded(UrlEncode(t), t, " ") /\ Coded(FormEncode(t), t, " ")
  BY UrlEncodeIs, FormEncodeIs DEF Encodes
<1>2. UrlDecode(UrlEncode(t)) = t /\ UrlDecode(FormEncode(t)) = t
  BY <1>1, CodedIs DEF UrlDecode
<1> QED BY <1>2, HtmlEscapeIs, UnescapeIs

\* The parts of an upload's body are those the browser wrote: the two fields of the
\* form and the file, with its name and its whole content, whatever bytes they
\* have, if the file's name does not end its header early and its content does
\* not hold the delimiter (MultipartParser.cpp, HttpServer.cpp's upload).
THEOREM MultipartTheorem ==
  ASSUME NEW user, Name(user), NEW dir, Name(dir), NEW file, FileText(file),
         NEW body, body = Multipart(UploadFormFields(user, dir), file)
  PROVE  /\ IsText(body) /\ Len(body) # 0
         /\ Uploaded(ParseMultipart(UploadType, body).parts)
              = [fields |-> WithField(WithField(NoFields, <<"directory">>, dir), <<"username">>, user),
                 file |-> file]
<1> DEFINE f1 == [name |-> <<"username">>, value |-> HtmlEscape(user)]
           f2 == [name |-> <<"directory">>, value |-> HtmlEscape(dir)]
           fs == <<f1, f2>>
           x1 == "username"
           x2 == "directory"
           p1 == Part(FieldHeader(<<x1>>), user)
           p2 == Part(FieldHeader(<<x2>>), dir)
           p3 == Part(FileHeader(file.name) \o FileType, file.content)
           t == <<"-", "-", "XYZ", "-", "-">> \o CRLF
           s == [i \in 1..Len(fs) |-> Part(<<NameMark>> \o fs[i].name \o <<Quote>>, Unescape(fs[i].value))]
<1>1. fs = UploadFormFields(user, dir) /\ Len(fs) = 2 /\ fs[1] = f1 /\ fs[2] = f2
  BY Single DEF UploadFormFields
<1>2. body = FlattenSeq(s) \o p3 \o t
  BY <1>1 DEF Multipart, FileHeader, FileMarks
<1>3. /\ Unescaped(user) /\ Unescaped(dir) /\ IsText(user) /\ IsText(dir)
      /\ Avoids(user, {CR}) /\ Avoids(dir, {CR})
  BY DEF Name, Unescaped, Avoids
<1>4. Unescape(f1.value) = user /\ Unescape(f2.value) = dir
  BY <1>3, HtmlEscapeIs, UnescapeIs
<1>5. s[1] = p1 /\ s[2] = p2 /\ DOMAIN s = 1..2 /\ s = [i \in 1..2 |-> s[i]]
  <2>1. /\ fs[1].name = <<x1>> /\ fs[2].name = <<x2>> /\ Unescape(fs[1].value) = user
        /\ Unescape(fs[2].value) = dir
    BY <1>1, <1>4
  <2>2. Len(fs) = 2 /\ 1 \in 1..2 /\ 2 \in 1..2
    BY <1>1
  <2> HIDE DEF fs
  <2>3. DOMAIN s = 1..2 /\ s = [i \in 1..2 |-> s[i]]
    BY <2>2
  <2>4. s[1] = Part(<<NameMark>> \o fs[1].name \o <<Quote>>, Unescape(fs[1].value))
    BY <2>2
  <2>5. s[2] = Part(<<NameMark>> \o fs[2].name \o <<Quote>>, Unescape(fs[2].value))
    BY <2>2
  <2> HIDE DEF s, x1, x2
  <2>6. s[1] = Part(FieldHeader(<<x1>>), user) /\ s[2] = Part(FieldHeader(<<x2>>), dir)
    BY <2>1, <2>4, <2>5 DEF FieldHeader
  <2> QED BY <2>3, <2>6
<1> HIDE DEF s, fs, f1, f2
<1>6. Len(s) = 2
  BY <1>5, 2 \in Nat, TextOf
<1>7. IsText(p1) /\ IsText(p2)
  <2>1. IsText(FieldHeader(<<x1>>)) /\ IsText(FieldHeader(<<x2>>))
    BY FieldPart
  <2> QED BY <1>3, <2>1, PartIs
<1> HIDE DEF p1, p2
<1>8. body = (p1 \o p2) \o p3 \o t
  <2>1. FlattenSeq(s) = p1 \o p2
    BY <1>5, <1>6, <1>7, FlattenTwo
  <2> QED BY <1>2, <2>1
<1>9. Enclosed(user) /\ Enclosed(dir)
  BY <1>3, NameEnclosed
<1>10. x1 \in {"username", "directory"} /\ x2 \in {"username", "directory"}
  OBVIOUS
<1> DEFINE name == file.name
           content == file.content
<1>11. IsText(name) /\ Avoids(name, {Quote, CR}) /\ IsText(content) /\ Enclosed(content) /\ name # <<>>
  BY DEF FileText
<1>12. file = [name |-> name, content |-> content]
  BY DEF FileText
<1>13. body = (Part(FieldHeader(<<x1>>), user) \o Part(FieldHeader(<<x2>>), dir))
                \o Part(FileHeader(name) \o FileType, content) \o (<<"-", "-", "XYZ", "-", "-">> \o CRLF)
  BY <1>8 DEF p1, p2, p3, t
<1> HIDE DEF x1, x2, name, content
<1>14. /\ IsText(body) /\ Len(body) # 0
       /\ ThreeParts(ParseMultipart(UploadType, body).parts, x1, user, x2, dir, name, content)
  BY ONLY <1>3, <1>9, <1>10, <1>11, <1>13, ThreePartsParsed
<1>15. Uploaded(ParseMultipart(UploadType, body).parts)
         = [fields |-> WithField(WithField(NoFields, <<"directory">>, dir), <<"username">>, user),
            file |-> [name |-> name, content |-> content]]
  BY <1>11, <1>14, UploadedIs DEF x1, x2
<1> QED BY <1>12, <1>14, <1>15
==============================================================================
