--------------------------- MODULE SequenceLemmas ---------------------------
(***************************************************************************)
(* Least elements and induction, for sets instead of predicates, and what  *)
(* FlattenSeq computes.                                                    *)
(***************************************************************************)
EXTENDS SequencesExt, Integers, SequenceTheorems, WellFoundedInduction, TLAPS

\* A set of natural numbers that is not empty has a least element.
LEMMA Least ==
  ASSUME NEW S \in SUBSET Nat, S # {}
  PROVE  \E n \in S : \A m \in S : n <= m
<1>. DEFINE R == OpToRel(<, Nat)
<1>1. IsWellFoundedOn(R, Nat)
  BY NatLessThanWellFounded, Zenon
<1>2. \A x, y \in Nat : x < y => <<x, y>> \in R
  BY DEF OpToRel
<1>. HIDE DEF R
<1>3. PICK x \in S : \A y \in S : ~(<<y, x>> \in R)
  BY <1>1, WFMin, Zenon
<1>4. \A y \in S : ~(y < x)
  BY <1>2, <1>3
<1>. QED  BY <1>4

\* Induction: a set with zero and the successor of each number in it has them all.
LEMMA Induction ==
  ASSUME NEW S, 0 \in S, \A n \in Nat : n \in S => n + 1 \in S
  PROVE  Nat \subseteq S
<1>. SUFFICES ASSUME Nat \ S # {} PROVE FALSE
  OBVIOUS
<1>1. PICK n \in Nat \ S : \A m \in Nat \ S : n <= m
  BY Least
<1>2. n # 0 /\ n - 1 \in Nat
  BY <1>1
<1>3. n - 1 \in S
  BY <1>1, <1>2
<1>. QED  BY <1>1, <1>2, <1>3

\* Induction from above: a set that has a number if it has the greater ones up to n.
LEMMA DownInduction ==
  ASSUME NEW n \in Nat, NEW P, \A i \in 1 .. n : (\A j \in i + 1 .. n : j \in P) => i \in P
  PROVE  \A i \in 1 .. n : i \in P
<1>. DEFINE D == {d \in Nat : d < n /\ n - d \notin P}
<1>1. SUFFICES ASSUME NEW i \in 1 .. n, i \notin P PROVE FALSE
  OBVIOUS
<1>2. D \in SUBSET Nat /\ n - i \in D
  <2>1. n - i \in Nat /\ n - i < n /\ n - (n - i) = i
    OBVIOUS
  <2>. QED  BY <1>1, <2>1
<1>3. PICK d \in D : \A x \in D : d <= x
  <2>. HIDE DEF D
  <2>. QED  BY <1>2, Least
<1>. DEFINE m == n - d
<1>4. m \in 1 .. n /\ m \notin P
  OBVIOUS
<1>5. ASSUME NEW j \in m + 1 .. n, j \notin P PROVE FALSE
  <2>1. n - j \in Nat /\ n - j < n /\ n - (n - j) = j /\ ~(d <= n - j)
    OBVIOUS
  <2>. QED  BY <1>3, <1>5, <2>1
<1>. QED  BY <1>4, <1>5

\* g leads from each value in S to a value in S, in each of n steps.
LeadsOn(g, n, S) == \A i \in 1 .. n : \A x \in S : g[<<i, x>>] \in S

\* f begins with b and goes on as g leads.
GoesOn(f, b, g, n, S) ==
  f \in [0 .. n -> S] /\ f[0] = b /\ \A i \in 1 .. n : f[i] = g[<<i, f[i - 1]>>]

\* A function defined step by step.
LEMMA StepByStep ==
  ASSUME NEW S, NEW b \in S, NEW n \in Nat, NEW g, LeadsOn(g, n, S)
  PROVE  \E f : GoesOn(f, b, g, n, S)
<1>. DEFINE Upto(k, f) == f \in [0 .. k -> S] /\ f[0] = b /\ \A i \in 1 .. k : f[i] = g[<<i, f[i - 1]>>]
            P == {k \in Nat : k <= n => \E f : Upto(k, f)}
<1>1. 0 \in P
  <2>1. Upto(0, [i \in 0 .. 0 |-> b])
    OBVIOUS
  <2>. HIDE DEF Upto
  <2>. QED  BY <2>1
<1>2. ASSUME NEW k \in Nat, k + 1 <= n, NEW f, Upto(k, f) PROVE \E h : Upto(k + 1, h)
  <2>. DEFINE m == k + 1
              y == g[<<m, f[k]>>]
              h == [i \in 0 .. m |-> IF i = m THEN y ELSE f[i]]
  <2>1. m \in 1 .. n /\ k \in 0 .. k /\ m - 1 = k /\ 0 \in 0 .. k /\ k # m
        /\ \A i \in 0 .. m : i = m \/ i \in 0 .. k
    BY <1>2
  <2>2. f[k] \in S /\ y \in S
    BY <1>2, <2>1 DEF LeadsOn
  <2>. HIDE DEF y
  <2>3. /\ h \in [0 .. m -> S] /\ h[m] = y
        /\ \A i \in 0 .. k : h[i] = f[i]
    BY <1>2, <2>1, <2>2
  <2>4. ASSUME NEW i \in 1 .. m PROVE h[i] = g[<<i, h[i - 1]>>]
    <3>1. CASE i = m
      BY <2>1, <2>3, <3>1 DEF y
    <3>2. CASE i # m
      <4>1. i \in 1 .. k /\ i \in 0 .. k /\ i - 1 \in 0 .. k
        BY <3>2
      <4>. HIDE DEF h
      <4>. QED  BY <1>2, <2>3, <4>1
    <3>. QED  BY <3>1, <3>2
  <2>5. h[0] = b
    BY <1>2, <2>1, <2>3
  <2>. HIDE DEF h
  <2>6. Upto(m, h)
    BY <2>3, <2>4, <2>5
  <2>. HIDE DEF Upto
  <2>. QED  BY <2>6 DEF m
<1>. HIDE DEF Upto
<1>3. ASSUME NEW k \in Nat, k \in P PROVE k + 1 \in P
  BY <1>2, <1>3
<1>. HIDE DEF P
<1>4. n \in P
  BY <1>1, <1>3, Induction
<1>5. \E f : Upto(n, f)
  BY <1>4 DEF P
<1>. QED  BY <1>5 DEF Upto, GoesOn

-----------------------------------------------------------------------------
\* Concatenation, for steps in which it is no matter what it does.
Cat(s, t) == s \o t

\* What concatenation does when it does matter.
LEMMA CatFacts ==
  ASSUME NEW S
  PROVE  /\ \A s, t \in Seq(S) : Cat(s, t) \in Seq(S) /\ Len(Cat(s, t)) = Len(s) + Len(t)
         /\ \A s \in Seq(S) : Cat(s, <<>>) = s /\ Cat(<<>>, s) = s
         /\ \A s, t, u \in Seq(S) : Cat(s, Cat(t, u)) = Cat(Cat(s, t), u)
         /\ \A s, t \in Seq(S) : \A i \in 1 .. Len(s) + Len(t) :
              Cat(s, t)[i] = IF i <= Len(s) THEN s[i] ELSE t[i - Len(s)]
<1>1. \A s, t \in Seq(S) : Cat(s, t) \in Seq(S) /\ Len(Cat(s, t)) = Len(s) + Len(t)
  BY ConcatProperties DEF Cat
<1>2. \A s \in Seq(S) : Cat(s, <<>>) = s /\ Cat(<<>>, s) = s
  BY ConcatEmptySeq DEF Cat
<1>3. ASSUME NEW s \in Seq(S), NEW t \in Seq(S), NEW u \in Seq(S)
      PROVE  Cat(s, Cat(t, u)) = Cat(Cat(s, t), u)
  <2>1. (s \o t) \o u = s \o (t \o u)
    BY ConcatAssociative
  <2>. QED  BY <2>1, Zenon DEF Cat
<1>4. ASSUME NEW s \in Seq(S), NEW t \in Seq(S), NEW i \in 1 .. Len(s) + Len(t)
      PROVE  Cat(s, t)[i] = IF i <= Len(s) THEN s[i] ELSE t[i - Len(s)]
  BY ConcatProperties DEF Cat
<1>. QED  BY <1>1, <1>2, <1>3, <1>4

\* The same by the lengths of the two.
LEMMA CatAt ==
  ASSUME NEW S, NEW s \in Seq(S), NEW t \in Seq(S),
         NEW a \in Nat, Len(s) = a, NEW b \in Nat, Len(t) = b
  PROVE  /\ Cat(s, t) \in Seq(S) /\ Len(Cat(s, t)) = a + b
         /\ \A i \in 1 .. a : Cat(s, t)[i] = s[i]
         /\ \A i \in 1 .. b : Cat(s, t)[a + i] = t[i]
<1>1. /\ Cat(s, t) \in Seq(S) /\ Len(Cat(s, t)) = a + b
      /\ \A i \in 1 .. a + b : Cat(s, t)[i] = IF i <= a THEN s[i] ELSE t[i - a]
  <2>1. Cat(s, t) \in Seq(S) /\ Len(Cat(s, t)) = a + b
    BY CatFacts
  <2>2. \A i \in 1 .. Len(s) + Len(t) : Cat(s, t)[i] = IF i <= Len(s) THEN s[i] ELSE t[i - Len(s)]
    BY Zenon, CatFacts
  <2>. QED  BY <2>1, <2>2
<1>2. ASSUME NEW i \in 1 .. a PROVE Cat(s, t)[i] = s[i]
  <2>1. i \in 1 .. a + b /\ i <= a
    OBVIOUS
  <2>. QED  BY <1>1, <2>1
<1>3. ASSUME NEW i \in 1 .. b PROVE Cat(s, t)[a + i] = t[i]
  <2>1. a + i \in 1 .. a + b /\ ~(a + i <= a) /\ (a + i) - a = i
    OBVIOUS
  <2>. QED  BY <1>1, <2>1
<1>. QED  BY <1>1, <1>2, <1>3

\* One element in front of a sequence.
LEMMA OneInFront ==
  ASSUME NEW S, NEW x \in S, NEW s \in Seq(S), NEW n \in Nat, Len(s) = n
  PROVE  /\ Cat(<<x>>, s) \in Seq(S) /\ Len(Cat(<<x>>, s)) = n + 1
         /\ Cat(<<x>>, s)[1] = x /\ \A k \in 1 .. n : Cat(<<x>>, s)[k + 1] = s[k]
<1>. DEFINE o == <<x>>
<1>1. o \in Seq(S) /\ Len(o) = 1 /\ o[1] = x /\ n \in Nat
  OBVIOUS
<1>2. \A u, v \in Seq(S) : /\ Cat(u, v) \in Seq(S) /\ Len(Cat(u, v)) = Len(u) + Len(v)
                           /\ \A i \in 1 .. Len(u) + Len(v) :
                                Cat(u, v)[i] = IF i <= Len(u) THEN u[i] ELSE v[i - Len(u)]
  BY CatFacts
<1>3. /\ Cat(o, s) \in Seq(S) /\ Len(Cat(o, s)) = 1 + n
      /\ \A i \in 1 .. 1 + n : Cat(o, s)[i] = IF i <= 1 THEN o[i] ELSE s[i - 1]
  BY <1>1, <1>2
<1>. HIDE DEF o
<1>4. Cat(o, s)[1] = x
  BY <1>1, <1>3
<1>5. ASSUME NEW k \in 1 .. n PROVE Cat(o, s)[k + 1] = s[k]
  <2>1. k + 1 \in 1 .. 1 + n /\ ~(k + 1 <= 1) /\ (k + 1) - 1 = k
    BY <1>1
  <2>. QED  BY <1>3, <2>1
<1>6. Len(Cat(o, s)) = n + 1
  BY <1>1, <1>3
<1>. QED  BY <1>3, <1>4, <1>5, <1>6 DEF o

\* One element behind a sequence.
LEMMA OneBehind ==
  ASSUME NEW S, NEW x \in S, NEW s \in Seq(S), NEW n \in Nat, Len(s) = n
  PROVE  /\ Cat(s, <<x>>) \in Seq(S) /\ Len(Cat(s, <<x>>)) = n + 1
         /\ Cat(s, <<x>>)[n + 1] = x /\ \A k \in 1 .. n : Cat(s, <<x>>)[k] = s[k]
<1>. DEFINE o == <<x>>
<1>1. o \in Seq(S) /\ Len(o) = 1 /\ o[1] = x /\ n \in Nat
  OBVIOUS
<1>2. \A u, v \in Seq(S) : /\ Cat(u, v) \in Seq(S) /\ Len(Cat(u, v)) = Len(u) + Len(v)
                           /\ \A i \in 1 .. Len(u) + Len(v) :
                                Cat(u, v)[i] = IF i <= Len(u) THEN u[i] ELSE v[i - Len(u)]
  BY CatFacts
<1>3. /\ Cat(s, o) \in Seq(S) /\ Len(Cat(s, o)) = n + 1
      /\ \A i \in 1 .. n + 1 : Cat(s, o)[i] = IF i <= n THEN s[i] ELSE o[i - n]
  BY <1>1, <1>2
<1>. HIDE DEF o
<1>4. Cat(s, o)[n + 1] = x
  <2>1. n + 1 \in 1 .. n + 1 /\ ~(n + 1 <= n) /\ (n + 1) - n = 1
    BY <1>1
  <2>. QED  BY <1>1, <1>3, <2>1
<1>5. \A k \in 1 .. n : Cat(s, o)[k] = s[k]
  BY <1>1, <1>3
<1>. QED  BY <1>3, <1>4, <1>5 DEF o

\* One element more is one behind the others.
LEMMA AppendIs ==
  ASSUME NEW S, NEW s \in Seq(S), NEW x \in S
  PROVE  Append(s, x) = Cat(s, <<x>>) /\ Append(s, x) \in Seq(S)
<1>. DEFINE n == Len(s)
            u == Append(s, x)
            v == Cat(s, <<x>>)
<1>1. n \in Nat /\ Len(s) = n
  OBVIOUS
<1>2. /\ u \in Seq(S) /\ Len(u) = n + 1 /\ u[n + 1] = x
      /\ \A k \in 1 .. n : u[k] = s[k]
  OBVIOUS
<1>. HIDE DEF n, u
<1>3. /\ v \in Seq(S) /\ Len(v) = n + 1 /\ v[n + 1] = x
      /\ \A k \in 1 .. n : v[k] = s[k]
  BY <1>1, OneBehind
<1>. HIDE DEF v
<1>4. \A k \in 1 .. n + 1 : u[k] = v[k]
  <2>1. \A k \in 1 .. n + 1 : k = n + 1 \/ k \in 1 .. n
    BY <1>1
  <2>. QED  BY <1>2, <1>3, <2>1
<1>5. u = [k \in 1 .. n + 1 |-> u[k]] /\ v = [k \in 1 .. n + 1 |-> v[k]]
  BY <1>1, <1>2, <1>3
<1>6. u = v
  BY <1>4, <1>5
<1>. QED  BY <1>2, <1>6 DEF u, v

\* F[i] is the concatenation of the first i sequences of ss, for i up to n.
IsFlattening(F, n, ss, S) ==
  /\ F \in [1 .. n -> Seq(S)]
  /\ n > 0 => F[1] = ss[1]
  /\ \A i \in 1 .. n - 1 : F[i + 1] = Cat(F[i], ss[i + 1])

\* There is such a function.
LEMMA FlatteningExists ==
  ASSUME NEW S, NEW ss \in Seq(Seq(S)), NEW n \in Nat, n <= Len(ss)
  PROVE  \E F : IsFlattening(F, n, ss, S)
<1>. DEFINE Upto(k) == \E F : IsFlattening(F, k, ss, S)
            P == {k \in Nat : k <= Len(ss) => Upto(k)}
<1>1. Upto(0)
  <2>1. IsFlattening([i \in 1 .. 0 |-> <<>>], 0, ss, S)
    BY DEF IsFlattening
  <2>. QED  BY <2>1
<1>2. ASSUME NEW k \in Nat, Upto(k), k + 1 <= Len(ss) PROVE Upto(k + 1)
  <2>1. PICK F : IsFlattening(F, k, ss, S)
    BY <1>2
  <2>. DEFINE last == IF k = 0 THEN ss[1] ELSE Cat(F[k], ss[k + 1])
              G == [i \in 1 .. k + 1 |-> IF i = k + 1 THEN last ELSE F[i]]
  <2>2. last \in Seq(S)
    <3>1. ss[1] \in Seq(S) /\ ss[k + 1] \in Seq(S) /\ (k # 0 => F[k] \in Seq(S))
      BY <1>2, <2>1 DEF IsFlattening
    <3>. QED  BY <3>1, ConcatProperties DEF Cat
  <2>. HIDE DEF last
  <2>3. G[k + 1] = last /\ \A i \in 1 .. k : G[i] = F[i]
    BY <1>2
  <2>4. G \in [1 .. k + 1 -> Seq(S)]
    BY <2>1, <2>2 DEF IsFlattening
  <2>5. G[1] = ss[1]
    BY <2>1, <2>3 DEF last, IsFlattening
  <2>6. ASSUME NEW i \in 1 .. k PROVE G[i + 1] = Cat(G[i], ss[i + 1])
    <3>1. CASE i = k
      BY <2>3, <3>1 DEF last
    <3>2. CASE i # k
      <4>1. i \in 1 .. k - 1 /\ i + 1 \in 1 .. k
        BY <3>2
      <4>. QED  BY <2>1, <2>3, <4>1 DEF IsFlattening
    <3>. QED  BY <3>1, <3>2
  <2>7. IsFlattening(G, k + 1, ss, S)
    <3>1. (k + 1) - 1 = k /\ k + 1 > 0
      OBVIOUS
    <3>. QED  BY <2>4, <2>5, <2>6, <3>1 DEF IsFlattening
  <2>. QED  BY <2>7
<1>. HIDE DEF Upto
<1>3. 0 \in P /\ \A k \in Nat : k \in P => k + 1 \in P
  BY <1>1, <1>2
<1>. HIDE DEF P
<1>4. n \in P
  BY <1>3, Induction
<1>. QED  BY <1>4 DEF P, Upto

\* FlattenSeq returns the last value of one.
LEMMA FlattenSeqIsFlattening ==
  ASSUME NEW S, NEW ss \in Seq(Seq(S)), ss # <<>>
  PROVE  \E F : IsFlattening(F, Len(ss), ss, S) /\ FlattenSeq(ss) = F[Len(ss)]
<1>. DEFINE C == CHOOSE F : F = [i \in 1 .. Len(ss) |-> IF i = 1 THEN ss[i] ELSE Cat(F[i - 1], ss[i])]
<1>1. C = [i \in 1 .. Len(ss) |-> IF i = 1 THEN ss[i] ELSE Cat(C[i - 1], ss[i])]
  <2>1. PICK F : IsFlattening(F, Len(ss), ss, S)
    BY FlatteningExists
  <2>2. ASSUME NEW i \in 1 .. Len(ss) PROVE F[i] = IF i = 1 THEN ss[i] ELSE Cat(F[i - 1], ss[i])
    <3>1. CASE i = 1
      BY <2>1, <3>1 DEF IsFlattening
    <3>2. CASE i # 1
      <4>1. i - 1 \in 1 .. Len(ss) - 1 /\ (i - 1) + 1 = i
        BY <3>2
      <4>. QED  BY <2>1, <3>2, <4>1 DEF IsFlattening
    <3>. QED  BY <3>1, <3>2
  <2>3. F = [i \in 1 .. Len(ss) |-> IF i = 1 THEN ss[i] ELSE Cat(F[i - 1], ss[i])]
    BY <2>1, <2>2 DEF IsFlattening
  <2>. QED  BY <2>3
<1>2. FlattenSeq(ss) = C[Len(ss)]
  BY DEF FlattenSeq, Cat
<1>. HIDE DEF C
<1>. DEFINE P == {n \in Nat : n + 1 <= Len(ss) => C[n + 1] \in Seq(S)}
<1>3. 0 \in P
  BY <1>1
<1>4. ASSUME NEW n \in Nat, n \in P PROVE n + 1 \in P
  <2>. SUFFICES ASSUME n + 2 <= Len(ss) PROVE C[n + 2] \in Seq(S)
    OBVIOUS
  <2>1. n + 2 \in 1 .. Len(ss) /\ n + 2 # 1 /\ (n + 2) - 1 = n + 1
    OBVIOUS
  <2>2. C[n + 2] = Cat(C[n + 1], ss[n + 2])
    BY <1>1, <2>1
  <2>3. C[n + 1] \in Seq(S) /\ ss[n + 2] \in Seq(S)
    BY <1>4, <2>1
  <2>. QED  BY <2>2, <2>3, ConcatProperties DEF Cat
<1>. HIDE DEF P
<1>5. \A n \in Nat : n \in P
  BY <1>3, <1>4, Induction
<1>6. ASSUME NEW i \in 1 .. Len(ss) PROVE C[i] \in Seq(S)
  <2>1. i - 1 \in Nat /\ i - 1 \in P
    BY <1>5
  <2>. QED  BY <2>1 DEF P
<1>7. C[1] = ss[1]
  <2>1. 1 \in 1 .. Len(ss)
    OBVIOUS
  <2>. QED  BY <1>1, <2>1
<1>8. ASSUME NEW i \in 1 .. Len(ss) - 1 PROVE C[i + 1] = Cat(C[i], ss[i + 1])
  <2>1. i + 1 \in 1 .. Len(ss) /\ i + 1 # 1 /\ (i + 1) - 1 = i
    OBVIOUS
  <2>. QED  BY <1>1, <2>1
<1>9. IsFlattening(C, Len(ss), ss, S)
  BY <1>1, <1>6, <1>7, <1>8 DEF IsFlattening
<1>. QED  BY <1>2, <1>9

-----------------------------------------------------------------------------
(***************************************************************************)
(* FlattenSeq, from the front: what it is of the first n sequences of ss.  *)
(***************************************************************************)
First(ss, n) == [i \in 1 .. n |-> ss[i]]
Flat(ss, n)  == FlattenSeq(First(ss, n))

\* A part of a sequence is a sequence.
LEMMA FirstType ==
  ASSUME NEW S, NEW ss \in Seq(S), NEW n \in 0 .. Len(ss)
  PROVE  /\ First(ss, n) \in Seq(S) /\ Len(First(ss, n)) = n
         /\ \A i \in 1 .. n : First(ss, n)[i] = ss[i]
         /\ First(ss, 0) = <<>> /\ First(ss, Len(ss)) = ss
<1>1. \A i \in 1 .. n : ss[i] \in S
  OBVIOUS
<1>2. First(ss, n) \in Seq(S) /\ Len(First(ss, n)) = n
  BY <1>1 DEF First
<1>3. First(ss, 0) = <<>>
  BY DEF First
<1>4. First(ss, Len(ss)) = ss
  BY DEF First
<1>. QED  BY <1>2, <1>3, <1>4 DEF First

\* Flattenings of the same sequence agree as far as they go.
LEMMA FlatteningsAgree ==
  ASSUME NEW S, NEW ss, NEW n \in Nat, NEW m \in Nat, n <= m,
         NEW F, IsFlattening(F, n, ss, S), NEW G, IsFlattening(G, m, ss, S)
  PROVE  \A i \in 1 .. n : F[i] = G[i]
<1>. DEFINE P == {k \in Nat : k + 1 <= n => F[k + 1] = G[k + 1]}
<1>1. 0 \in P
  BY DEF IsFlattening
<1>2. ASSUME NEW k \in Nat, k \in P PROVE k + 1 \in P
  <2>. SUFFICES ASSUME k + 2 <= n PROVE F[k + 2] = G[k + 2]
    OBVIOUS
  <2>1. k + 1 \in 1 .. n - 1 /\ k + 1 \in 1 .. m - 1 /\ (k + 1) + 1 = k + 2 /\ k + 2 \in 1 .. n
    OBVIOUS
  <2>2. F[k + 2] = Cat(F[k + 1], ss[k + 2])
    BY <2>1 DEF IsFlattening
  <2>3. G[k + 2] = Cat(G[k + 1], ss[k + 2])
    BY <2>1 DEF IsFlattening
  <2>. QED  BY <1>2, <2>1, <2>2, <2>3
<1>. HIDE DEF P
<1>3. \A k \in Nat : k \in P
  BY <1>1, <1>2, Induction
<1>4. ASSUME NEW i \in 1 .. n PROVE F[i] = G[i]
  <2>1. i - 1 \in Nat /\ i - 1 \in P
    BY <1>3
  <2>. QED  BY <2>1 DEF P
<1>. QED  BY <1>4

\* FlattenSeq of no sequence, and of one sequence more.
LEMMA FlatSteps ==
  ASSUME NEW S, NEW ss \in Seq(Seq(S))
  PROVE  /\ Flat(ss, 0) = <<>>
         /\ \A n \in 0 .. Len(ss) : Flat(ss, n) \in Seq(S)
         /\ \A n \in 1 .. Len(ss) : Flat(ss, n) = Cat(Flat(ss, n - 1), ss[n])
         /\ Flat(ss, Len(ss)) = FlattenSeq(ss)
<1>1. Flat(ss, 0) = <<>>
  BY FirstType DEF Flat, FlattenSeq
<1>2. ASSUME NEW n \in 1 .. Len(ss)
      PROVE  \E F : IsFlattening(F, n, ss, S) /\ Flat(ss, n) = F[n]
  <2>1. /\ First(ss, n) \in Seq(Seq(S)) /\ Len(First(ss, n)) = n
        /\ \A i \in 1 .. n : First(ss, n)[i] = ss[i]
    BY FirstType
  <2>2. First(ss, n) # <<>>
    BY <2>1
  <2>3. PICK F : IsFlattening(F, n, First(ss, n), S) /\ FlattenSeq(First(ss, n)) = F[n]
    BY <2>1, <2>2, FlattenSeqIsFlattening
  <2>4. IsFlattening(F, n, ss, S)
    <3>1. \A i \in 1 .. n - 1 : i + 1 \in 1 .. n
      OBVIOUS
    <3>. QED  BY SMTT(30), <2>1, <2>3, <3>1 DEF IsFlattening
  <2>. QED  BY <2>3, <2>4 DEF Flat
<1>3. ASSUME NEW n \in 0 .. Len(ss) PROVE Flat(ss, n) \in Seq(S)
  <2>1. CASE n = 0
    BY <1>1, <2>1, EmptySeq
  <2>2. CASE n # 0
    <3>1. n \in 1 .. Len(ss) /\ n \in 1 .. n
      BY <2>2
    <3>2. PICK F : IsFlattening(F, n, ss, S) /\ Flat(ss, n) = F[n]
      BY <1>2, <3>1
    <3>. QED  BY <3>1, <3>2 DEF IsFlattening
  <2>. QED  BY <2>1, <2>2
<1>4. ASSUME NEW n \in 1 .. Len(ss) PROVE Flat(ss, n) = Cat(Flat(ss, n - 1), ss[n])
  <2>1. PICK F : IsFlattening(F, n, ss, S) /\ Flat(ss, n) = F[n]
    BY <1>2
  <2>2. CASE n = 1
    <3>1. Flat(ss, n) = ss[1] /\ ss[1] \in Seq(S)
      BY <2>1, <2>2 DEF IsFlattening
    <3>2. Cat(<<>>, ss[1]) = ss[1]
      BY <3>1, ConcatEmptySeq DEF Cat
    <3>. QED  BY <1>1, <2>2, <3>1, <3>2
  <2>3. CASE n # 1
    <3>. DEFINE m == n - 1
    <3>1. m \in 1 .. Len(ss) /\ m \in Nat /\ m \in 1 .. m /\ m <= n /\ n \in Nat
          /\ m \in 1 .. n - 1 /\ m + 1 = n
      BY <2>3
    <3>. HIDE DEF m
    <3>2. PICK G : IsFlattening(G, m, ss, S) /\ Flat(ss, m) = G[m]
      BY <1>2, <3>1
    <3>3. G[m] = F[m]
      BY <2>1, <3>1, <3>2, FlatteningsAgree
    <3>4. F[n] = Cat(F[m], ss[n])
      BY <2>1, <3>1 DEF IsFlattening
    <3>5. Flat(ss, n) = Cat(Flat(ss, m), ss[n])
      BY <2>1, <3>2, <3>3, <3>4
    <3>. QED  BY <3>5 DEF m
  <2>. QED  BY <2>2, <2>3
<1>5. Flat(ss, Len(ss)) = FlattenSeq(ss)
  BY FirstType DEF Flat
<1>. QED  BY <1>1, <1>3, <1>4, <1>5

\* What one has of Flat in every step, one has of FlattenSeq.
LEMMA FlattenSeqType ==
  ASSUME NEW S, NEW ss \in Seq(Seq(S))
  PROVE  FlattenSeq(ss) \in Seq(S)
<1>1. Len(ss) \in 0 .. Len(ss)
  BY LenProperties
<1>. QED  BY <1>1, FlatSteps

\* It depends on the first n sequences alone.
LEMMA FlatAgree ==
  ASSUME NEW ss, NEW tt, NEW n \in Nat, \A i \in 1 .. n : ss[i] = tt[i]
  PROVE  Flat(ss, n) = Flat(tt, n)
<1>1. First(ss, n) = First(tt, n)
  BY DEF First
<1>. QED  BY <1>1 DEF Flat

\* Empty sequences add nothing.
LEMMA FlatEmpty ==
  ASSUME NEW S, NEW ss \in Seq(Seq(S)), NEW a \in 0 .. Len(ss), NEW b \in a .. Len(ss),
         \A i \in a + 1 .. b : ss[i] = <<>>
  PROVE  Flat(ss, b) = Flat(ss, a)
<1>. DEFINE P == {n \in Nat : a + n <= b => Flat(ss, a + n) = Flat(ss, a)}
<1>1. 0 \in P
  BY LenProperties
<1>2. ASSUME NEW n \in Nat, n \in P PROVE n + 1 \in P
  <2>. SUFFICES ASSUME a + (n + 1) <= b PROVE Flat(ss, a + (n + 1)) = Flat(ss, a)
    OBVIOUS
  <2>. DEFINE k == a + (n + 1)
              m == a + n
  <2>1. k \in 1 .. Len(ss) /\ k \in a + 1 .. b /\ k - 1 = m /\ m \in 0 .. Len(ss) /\ m <= b
    BY LenProperties
  <2>2. Flat(ss, m) = Flat(ss, a)
    BY <1>2, <2>1
  <2>. HIDE DEF k, m
  <2>3. ss[k] = <<>> /\ Flat(ss, k) = Cat(Flat(ss, m), ss[k]) /\ Flat(ss, m) \in Seq(S)
    BY <2>1, FlatSteps
  <2>4. Cat(Flat(ss, m), <<>>) = Flat(ss, m)
    BY <2>3, ConcatEmptySeq DEF Cat
  <2>5. Flat(ss, k) = Flat(ss, a)
    BY <2>2, <2>3, <2>4
  <2>. QED  BY <2>5 DEF k
<1>. HIDE DEF P
<1>3. \A n \in Nat : n \in P
  BY <1>1, <1>2, Induction
<1>. DEFINE d == b - a
<1>4. d \in Nat /\ a + d = b
  BY LenProperties
<1>5. d \in P
  BY <1>3, <1>4
<1>. QED  BY <1>4, <1>5 DEF P

\* As long as there is no other one, there is nothing.
LEMMA FlatOfEmpty ==
  ASSUME NEW S, NEW ss \in Seq(Seq(S)), NEW b \in 0 .. Len(ss), \A i \in 1 .. b : ss[i] = <<>>
  PROVE  Flat(ss, b) = <<>>
<1>1. 0 \in 0 .. Len(ss) /\ b \in 0 .. Len(ss) /\ \A i \in 0 + 1 .. b : ss[i] = <<>>
  BY LenProperties
<1>2. Flat(ss, b) = Flat(ss, 0)
  BY <1>1, FlatEmpty
<1>. QED  BY <1>2, FlatSteps

\* What is put behind the last sequence is put behind the whole.
LEMMA FlatGrows ==
  ASSUME NEW S, NEW ss \in Seq(Seq(S)), NEW tt \in Seq(Seq(S)),
         NEW n \in Nat, n # 0, Len(ss) = n, n <= Len(tt),
         NEW t \in Seq(S), tt[n] = Cat(ss[n], t), \A j \in 1 .. n - 1 : tt[j] = ss[j]
  PROVE  Flat(tt, n) = Cat(FlattenSeq(ss), t)
<1>. DEFINE h == n - 1
<1>1. /\ h \in Nat /\ h \in 0 .. Len(ss) /\ n \in 1 .. Len(ss) /\ n \in 1 .. Len(tt)
      /\ n - 1 = h
  BY LenProperties
<1>2. (\A j \in 1 .. h : tt[j] = ss[j]) /\ ss[n] \in Seq(S)
  BY <1>1
<1>. HIDE DEF h
<1>3. FlattenSeq(ss) = Flat(ss, n)
  BY FlatSteps
<1>4. Flat(tt, h) = Flat(ss, h) /\ Flat(ss, h) \in Seq(S)
  BY <1>1, <1>2, FlatAgree, FlatSteps
<1>5. Flat(ss, n) = Cat(Flat(ss, h), ss[n]) /\ Flat(tt, n) = Cat(Flat(tt, h), tt[n])
  BY <1>1, FlatSteps
<1>6. Cat(Flat(ss, h), Cat(ss[n], t)) = Cat(Cat(Flat(ss, h), ss[n]), t)
  <2>1. Flat(ss, h) \in Seq(S) /\ ss[n] \in Seq(S) /\ t \in Seq(S)
    BY <1>2, <1>4
  <2>2. \A x, y, z \in Seq(S) : Cat(x, Cat(y, z)) = Cat(Cat(x, y), z)
    BY CatFacts
  <2>. QED  BY <2>1, <2>2, Zenon
<1>. QED  BY <1>3, <1>4, <1>5, <1>6

\* FlattenSeq of a concatenation.
LEMMA FlattenSeqCat ==
  ASSUME NEW S, NEW xs \in Seq(Seq(S)), NEW ys \in Seq(Seq(S))
  PROVE  FlattenSeq(Cat(xs, ys)) = Cat(FlattenSeq(xs), FlattenSeq(ys))
<1>. DEFINE a == Len(xs)
            b == Len(ys)
            zs == Cat(xs, ys)
            P == {k \in Nat : k <= b => Flat(zs, a + k) = Cat(Flat(xs, a), Flat(ys, k))}
<1>1. a \in Nat /\ b \in Nat /\ Len(xs) = a /\ Len(ys) = b
  OBVIOUS
<1>. HIDE DEF a, b
<1>2. /\ zs \in Seq(Seq(S)) /\ Len(zs) = a + b
      /\ \A i \in 1 .. a : zs[i] = xs[i]
      /\ \A i \in 1 .. b : zs[a + i] = ys[i]
  BY SMTT(30), <1>1, CatAt
<1>. HIDE DEF zs
<1>3. Flat(xs, a) \in Seq(S)
  BY <1>1, FlatSteps DEF a
<1>4. 0 \in P
  <2>1. Flat(zs, a) = Flat(xs, a)
    BY <1>1, <1>2, FlatAgree
  <2>2. Flat(ys, 0) = <<>>
    BY FlatSteps
  <2>3. Cat(Flat(xs, a), <<>>) = Flat(xs, a)
    BY <1>3, CatFacts
  <2>4. a + 0 = a
    BY <1>1
  <2>. QED  BY <2>1, <2>2, <2>3, <2>4
<1>5. ASSUME NEW m \in Nat, m \in P PROVE m + 1 \in P
  <2>. SUFFICES ASSUME m + 1 <= b PROVE Flat(zs, a + (m + 1)) = Cat(Flat(xs, a), Flat(ys, m + 1))
    OBVIOUS
  <2>. DEFINE k == m + 1
              j == a + k
              h == a + m
  <2>1. /\ k \in 1 .. b /\ k - 1 = m /\ m \in 0 .. b /\ k \in 0 .. b
        /\ j \in 1 .. a + b /\ j - 1 = h /\ h \in 0 .. a + b
    BY <1>1
  <2>2. Flat(zs, h) = Cat(Flat(xs, a), Flat(ys, m))
    BY <1>5, <2>1
  <2>3. zs[j] = ys[k]
    BY <1>2, <2>1
  <2>. HIDE DEF k, j, h, P
  <2>4. Flat(zs, j) = Cat(Flat(zs, h), zs[j])
    BY <1>2, <2>1, FlatSteps
  <2>5. Flat(ys, k) = Cat(Flat(ys, m), ys[k]) /\ Flat(ys, m) \in Seq(S) /\ ys[k] \in Seq(S)
    <3>1. k \in 1 .. Len(ys) /\ m \in 0 .. Len(ys) /\ k - 1 = m
      BY <1>1, <2>1
    <3>2. ys[k] \in Seq(S)
      BY <3>1
    <3>. QED  BY <3>1, <3>2, FlatSteps
  <2>6. Cat(Flat(xs, a), Cat(Flat(ys, m), ys[k])) = Cat(Cat(Flat(xs, a), Flat(ys, m)), ys[k])
    <3>1. \A s, t, u \in Seq(S) : Cat(s, Cat(t, u)) = Cat(Cat(s, t), u)
      BY CatFacts
    <3>. QED  BY <1>3, <2>5, <3>1, Zenon
  <2>7. Flat(zs, j) = Cat(Flat(xs, a), Flat(ys, k))
    BY <2>2, <2>3, <2>4, <2>5, <2>6
  <2>. QED  BY <2>7 DEF j, k
<1>. HIDE DEF P
<1>6. b \in P
  BY <1>1, <1>4, <1>5, Induction
<1>7. Flat(zs, a + b) = Cat(Flat(xs, a), Flat(ys, b))
  BY <1>1, <1>6 DEF P
<1>8. Flat(xs, a) = FlattenSeq(xs) /\ Flat(ys, b) = FlattenSeq(ys)
  BY <1>1, FlatSteps
<1>9. Flat(zs, a + b) = FlattenSeq(zs)
  BY <1>2, FlatSteps
<1>. QED  BY <1>7, <1>8, <1>9 DEF zs

\* Flattening sequences of the same lengths gives sequences of the same length.
LEMMA FlattenSeqLength ==
  ASSUME NEW S, NEW ss \in Seq(Seq(S)), NEW tt \in Seq(Seq(S)), Len(ss) = Len(tt),
         \A i \in 1 .. Len(ss) : Len(ss[i]) = Len(tt[i])
  PROVE  Len(FlattenSeq(ss)) = Len(FlattenSeq(tt))
<1>. DEFINE P == {n \in Nat : n <= Len(ss) => Len(Flat(ss, n)) = Len(Flat(tt, n))}
<1>1. 0 \in P
  BY FlatSteps
<1>2. ASSUME NEW m \in Nat, m \in P PROVE m + 1 \in P
  <2>. SUFFICES ASSUME m + 1 <= Len(ss) PROVE Len(Flat(ss, m + 1)) = Len(Flat(tt, m + 1))
    OBVIOUS
  <2>. DEFINE n == m + 1
  <2>1. n \in 1 .. Len(ss) /\ n \in 1 .. Len(tt) /\ n - 1 = m /\ m \in 0 .. Len(ss) /\ m \in 0 .. Len(tt)
    BY LenProperties
  <2>2. Len(Flat(ss, m)) = Len(Flat(tt, m))
    BY <1>2, <2>1
  <2>. HIDE DEF n
  <2>3. /\ Flat(ss, n) = Cat(Flat(ss, m), ss[n]) /\ Flat(ss, m) \in Seq(S) /\ ss[n] \in Seq(S)
        /\ Flat(tt, n) = Cat(Flat(tt, m), tt[n]) /\ Flat(tt, m) \in Seq(S) /\ tt[n] \in Seq(S)
    BY <2>1, FlatSteps, ElementOfSeq
  <2>4. Len(Flat(ss, n)) = Len(Flat(ss, m)) + Len(ss[n])
    BY <2>3, ConcatProperties DEF Cat
  <2>5. Len(Flat(tt, n)) = Len(Flat(tt, m)) + Len(tt[n])
    BY <2>3, ConcatProperties DEF Cat
  <2>6. Len(Flat(ss, n)) = Len(Flat(tt, n))
    BY <2>1, <2>2, <2>4, <2>5
  <2>. QED  BY <2>6 DEF n
<1>. HIDE DEF P
<1>3. \A n \in Nat : n \in P
  BY <1>1, <1>2, Induction
<1>. DEFINE n == Len(ss)
<1>4. n \in Nat /\ n <= n
  BY LenProperties
<1>5. Len(Flat(ss, n)) = Len(Flat(tt, n))
  BY <1>3, <1>4 DEF P
<1>. QED  BY <1>5, FlatSteps

-----------------------------------------------------------------------------
(***************************************************************************)
(* Sequences that list what belongs to a set of numbers, in their order.   *)
(***************************************************************************)
Lists(s, A, e) ==
  \E pos \in [1 .. Len(s) -> A] :
    /\ \A i, j \in 1 .. Len(s) : i < j => pos[i] < pos[j]
    /\ \A a \in A : \E i \in 1 .. Len(s) : pos[i] = a
    /\ \A i \in 1 .. Len(s) : s[i] = e[pos[i]]

\* The sequence of what e gives for the numbers in A, of those up to n.
Picked(n, A, e) == [m \in 1 .. n |-> IF m \in A THEN <<e[m]>> ELSE <<>>]

\* A greater number is listed behind the others.
LEMMA ListsAppend ==
  ASSUME NEW S, NEW s \in Seq(S), NEW A \in SUBSET Nat, NEW e, Lists(s, A, e),
         NEW b \in Nat, \A a \in A : a < b, e[b] \in S
  PROVE  Lists(Cat(s, <<e[b]>>), A \cup {b}, e)
<1>1. PICK pos \in [1 .. Len(s) -> A] :
        /\ \A i, j \in 1 .. Len(s) : i < j => pos[i] < pos[j]
        /\ \A a \in A : \E i \in 1 .. Len(s) : pos[i] = a
        /\ \A i \in 1 .. Len(s) : s[i] = e[pos[i]]
  BY DEF Lists
<1>. DEFINE n == Len(s)
            t == Cat(s, <<e[b]>>)
            q == [i \in 1 .. n + 1 |-> IF i = n + 1 THEN b ELSE pos[i]]
<1>2. n \in Nat /\ <<e[b]>> \in Seq(S) /\ Len(<<e[b]>>) = 1 /\ <<e[b]>>[1] = e[b]
  BY LenProperties
<1>3. Len(t) = n + 1 /\ (\A i \in 1 .. n : t[i] = s[i]) /\ t[n + 1] = e[b]
  <2>1. Len(t) = n + 1
    BY <1>2, CatFacts
  <2>2. \A i \in 1 .. n + 1 : t[i] = IF i <= n THEN s[i] ELSE <<e[b]>>[i - n]
    BY <1>2, CatFacts
  <2>. HIDE DEF t, n
  <2>3. (n + 1) - n = 1 /\ n + 1 \in 1 .. n + 1 /\ ~(n + 1 <= n)
    BY <1>2
  <2>4. t[n + 1] = <<e[b]>>[1]
    BY <2>2, <2>3
  <2>5. \A i \in 1 .. n : t[i] = s[i]
    BY <1>2, <2>2
  <2>. QED  BY <1>2, <2>1, <2>4, <2>5
<1>. HIDE DEF n, t
<1>4. /\ q \in [1 .. n + 1 -> A \cup {b}]
      /\ q[n + 1] = b /\ \A i \in 1 .. n : q[i] = pos[i] /\ pos[i] \in A
  BY <1>1, <1>2 DEF n
<1>. HIDE DEF q
<1>5. ASSUME NEW i \in 1 .. n + 1, NEW j \in 1 .. n + 1, i < j PROVE q[i] < q[j]
  <2>1. i \in 1 .. n
    BY <1>2, <1>5
  <2>2. CASE j = n + 1
    BY <1>4, <2>1, <2>2
  <2>3. CASE j # n + 1
    <3>1. j \in 1 .. n
      BY <1>2, <2>3
    <3>. QED  BY <1>1, <1>4, <1>5, <2>1, <3>1 DEF n
  <2>. QED  BY <2>2, <2>3
<1>6. ASSUME NEW a \in A \cup {b} PROVE \E i \in 1 .. n + 1 : q[i] = a
  <2>1. CASE a = b
    BY <1>2, <1>4, <2>1
  <2>2. CASE a \in A
    <3>1. PICK i \in 1 .. n : pos[i] = a
      BY <1>1, <2>2 DEF n
    <3>2. i \in 1 .. n + 1
      BY <1>2
    <3>. QED  BY <1>4, <3>1, <3>2
  <2>. QED  BY <2>1, <2>2
<1>7. ASSUME NEW i \in 1 .. n + 1 PROVE t[i] = e[q[i]]
  <2>1. CASE i = n + 1
    BY <1>3, <1>4, <2>1
  <2>2. CASE i # n + 1
    <3>1. i \in 1 .. n
      BY <1>2, <2>2
    <3>. QED  BY <1>1, <1>3, <1>4, <3>1 DEF n
  <2>. QED  BY <2>1, <2>2
<1>8. Lists(t, A \cup {b}, e)
  BY SMTT(30), <1>3, <1>4, <1>5, <1>6, <1>7 DEF Lists
<1>. QED  BY <1>8 DEF t

\* The numbers of A up to k.
UpTo(A, k) == {a \in A : a <= k}

\* One number after another is added to them.
LEMMA UpToSteps ==
  ASSUME NEW n \in Nat, NEW A \in SUBSET (1 .. n)
  PROVE  /\ UpTo(A, 0) = {} /\ UpTo(A, n) = A
         /\ \A k \in Nat : UpTo(A, k) \in SUBSET Nat /\ \A a \in UpTo(A, k) : a <= k
         /\ \A k \in 1 .. n : UpTo(A, k) = IF k \in A THEN UpTo(A, k - 1) \cup {k} ELSE UpTo(A, k - 1)
<1>1. \A a \in A : a \in Nat /\ 1 <= a /\ a <= n
  OBVIOUS
<1>2. UpTo(A, 0) = {} /\ UpTo(A, n) = A
  <2>1. \A a \in A : ~(a <= 0) /\ a <= n
    BY <1>1
  <2>. QED  BY <2>1 DEF UpTo
<1>3. \A k \in Nat : UpTo(A, k) \in SUBSET Nat /\ \A a \in UpTo(A, k) : a <= k
  BY <1>1 DEF UpTo
<1>4. ASSUME NEW k \in 1 .. n
      PROVE  UpTo(A, k) = IF k \in A THEN UpTo(A, k - 1) \cup {k} ELSE UpTo(A, k - 1)
  <2>1. \A a \in A : a <= k <=> (a <= k - 1 \/ a = k)
    BY <1>1
  <2>2. ~(k <= k - 1)
    OBVIOUS
  <2>. QED  BY <2>1, <2>2 DEF UpTo
<1>. QED  BY <1>2, <1>3, <1>4

\* FlattenSeq lists what was picked.
LEMMA FlattenSeqLists ==
  ASSUME NEW S, NEW n \in Nat, NEW A \in SUBSET (1 .. n), NEW e, \A a \in A : e[a] \in S
  PROVE  /\ FlattenSeq(Picked(n, A, e)) \in Seq(S)
         /\ Lists(FlattenSeq(Picked(n, A, e)), A, e)
<1>. DEFINE ss == Picked(n, A, e)
            P == {k \in Nat : k <= n => Lists(Flat(ss, k), UpTo(A, k), e)}
<1>1. ss \in Seq(Seq(S)) /\ Len(ss) = n
  <2>1. \A m \in 1 .. n : (IF m \in A THEN <<e[m]>> ELSE <<>>) \in Seq(S)
    OBVIOUS
  <2>. QED  BY <2>1 DEF Picked
<1>2. \A k \in 1 .. n : ss[k] = IF k \in A THEN <<e[k]>> ELSE <<>>
  BY DEF Picked
<1>. HIDE DEF ss
<1>3. 0 \in P
  <2>. HIDE DEF P
  <2>1. Flat(ss, 0) = <<>> /\ UpTo(A, 0) = {}
    BY <1>1, FlatSteps, UpToSteps
  <2>2. Lists(<<>>, {}, e)
    <3>1. [i \in 1 .. 0 |-> 0] \in [1 .. Len(<<>>) -> {}]
      OBVIOUS
    <3>. QED  BY <3>1 DEF Lists
  <2>. QED  BY <2>1, <2>2 DEF P
<1>4. ASSUME NEW m \in Nat, m \in P PROVE m + 1 \in P
  <2>. SUFFICES ASSUME m + 1 <= n PROVE Lists(Flat(ss, m + 1), UpTo(A, m + 1), e)
    OBVIOUS
  <2>. DEFINE k == m + 1
  <2>1. k \in 1 .. n /\ k - 1 = m /\ m \in 0 .. n /\ k \in Nat /\ m < k
        /\ \A a \in Nat : a <= m => a < k
    OBVIOUS
  <2>2. Lists(Flat(ss, m), UpTo(A, m), e)
    BY <1>4, <2>1
  <2>. HIDE DEF k, P
  <2>3. UpTo(A, k) = IF k \in A THEN UpTo(A, m) \cup {k} ELSE UpTo(A, m)
    BY <2>1, UpToSteps
  <2>4. UpTo(A, m) \in SUBSET Nat /\ \A a \in UpTo(A, m) : a < k
    <3>1. UpTo(A, m) \in SUBSET Nat /\ \A a \in UpTo(A, m) : a <= m
      BY UpToSteps
    <3>. QED  BY <2>1, <3>1
  <2>6. Flat(ss, k) = Cat(Flat(ss, m), ss[k]) /\ Flat(ss, m) \in Seq(S)
    BY <1>1, <2>1, FlatSteps
  <2>7. CASE k \in A
    <3>1. ss[k] = <<e[k]>> /\ e[k] \in S
      BY <1>2, <2>1, <2>7
    <3>2. Lists(Cat(Flat(ss, m), <<e[k]>>), UpTo(A, m) \cup {k}, e)
      BY <2>1, <2>2, <2>4, <2>6, <3>1, ListsAppend
    <3>. QED  BY <2>3, <2>6, <2>7, <3>1, <3>2 DEF k
  <2>8. CASE k \notin A
    <3>1. Flat(ss, k) = Flat(ss, m)
      BY <1>2, <2>1, <2>6, <2>8, CatFacts
    <3>. QED  BY <2>2, <2>3, <2>8, <3>1 DEF k
  <2>. QED  BY <2>7, <2>8
<1>. HIDE DEF P
<1>6. n \in P
  BY <1>3, <1>4, Induction
<1>7. FlattenSeq(ss) = Flat(ss, n) /\ FlattenSeq(ss) \in Seq(S)
  BY <1>1, FlatSteps, FlattenSeqType
<1>8. Lists(Flat(ss, n), UpTo(A, n), e)
  BY <1>6 DEF P
<1>. QED  BY <1>7, <1>8, UpToSteps DEF ss

-----------------------------------------------------------------------------
(***************************************************************************)
(* What e gives for the numbers in A, one after the other.                 *)
(***************************************************************************)
Masked(n, A, e) == [m \in 1 .. n |-> IF m \in A THEN e[m] ELSE <<>>]
Mask(n, A, e)   == FlattenSeq(Masked(n, A, e))

\* Sequences of elements of S for all the numbers.
Pieces(e, n, S) == \A a \in 1 .. n : e[a] \in Seq(S)

\* Its type.
LEMMA MaskedType ==
  ASSUME NEW S, NEW n \in Nat, NEW A, NEW e, Pieces(e, n, S)
  PROVE  /\ Masked(n, A, e) \in Seq(Seq(S)) /\ Len(Masked(n, A, e)) = n
         /\ \A k \in 1 .. n : Masked(n, A, e)[k] = IF k \in A THEN e[k] ELSE <<>>
         /\ Mask(n, A, e) \in Seq(S)
         /\ Mask(n, A, e) = Flat(Masked(n, A, e), n)
<1>1. \A m \in 1 .. n : (IF m \in A THEN e[m] ELSE <<>>) \in Seq(S)
  BY DEF Pieces
<1>2. Masked(n, A, e) \in Seq(Seq(S)) /\ Len(Masked(n, A, e)) = n
  BY <1>1 DEF Masked
<1>3. Mask(n, A, e) \in Seq(S)
  BY <1>2, FlattenSeqType DEF Mask
<1>4. Mask(n, A, e) = Flat(Masked(n, A, e), n)
  BY <1>2, FlatSteps DEF Mask
<1>. QED  BY <1>2, <1>3, <1>4 DEF Masked

\* Nothing for no number, and what e gives for a single one.
LEMMA MaskSingle ==
  ASSUME NEW S, NEW n \in Nat, NEW e, Pieces(e, n, S)
  PROVE  /\ Mask(n, {}, e) = <<>>
         /\ \A m \in 1 .. n : Mask(n, {m}, e) = e[m]
<1>1. Mask(n, {}, e) = <<>>
  <2>. DEFINE ss == Masked(n, {}, e)
  <2>1. /\ ss \in Seq(Seq(S)) /\ Len(ss) = n /\ Mask(n, {}, e) = Flat(ss, n)
        /\ \A k \in 1 .. n : ss[k] = <<>>
    BY MaskedType
  <2>2. 0 \in 0 .. n /\ n \in 0 .. n /\ \A i \in 0 + 1 .. n : i \in 1 .. n
    OBVIOUS
  <2>. HIDE DEF ss
  <2>3. Flat(ss, n) = Flat(ss, 0)
    BY <2>1, <2>2, FlatEmpty
  <2>. QED  BY <2>1, <2>3, FlatSteps
<1>2. ASSUME NEW m \in 1 .. n PROVE Mask(n, {m}, e) = e[m]
  <2>. DEFINE ss == Masked(n, {m}, e)
              h == m - 1
  <2>1. /\ ss \in Seq(Seq(S)) /\ Len(ss) = n /\ Mask(n, {m}, e) = Flat(ss, n)
        /\ \A k \in 1 .. n : ss[k] = IF k \in {m} THEN e[k] ELSE <<>>
    BY MaskedType
  <2>2. /\ 0 \in 0 .. n /\ h \in 0 .. n /\ n \in m .. n /\ m \in 0 .. n /\ m - 1 = h
        /\ \A i \in 0 + 1 .. h : i \in 1 .. n /\ i # m
        /\ \A i \in m + 1 .. n : i \in 1 .. n /\ i # m
    OBVIOUS
  <2>. HIDE DEF ss, h
  <2>3. Flat(ss, n) = Flat(ss, m)
    BY <2>1, <2>2, FlatEmpty
  <2>4. Flat(ss, h) = <<>>
    <3>1. \A i \in 1 .. h : ss[i] = <<>>
      BY <2>1, <2>2
    <3>. QED  BY <2>1, <2>2, <3>1, FlatOfEmpty
  <2>5. Flat(ss, m) = Cat(Flat(ss, h), ss[m])
    BY <2>1, <2>2, FlatSteps
  <2>6. Cat(<<>>, e[m]) = e[m]
    BY CatFacts DEF Pieces
  <2>. QED  BY <2>1, <2>3, <2>4, <2>5, <2>6
<1>. QED  BY <1>1, <1>2

\* Of numbers that are all less than others, before what those give.
LEMMA MaskUnion ==
  ASSUME NEW S, NEW n \in Nat, NEW e, Pieces(e, n, S),
         NEW A \in SUBSET (1 .. n), NEW B \in SUBSET (1 .. n), \A a \in A, b \in B : a < b
  PROVE  Mask(n, A \cup B, e) = Cat(Mask(n, A, e), Mask(n, B, e))
<1>. DEFINE C == A \cup B
            xs == Masked(n, A, e)
            ys == Masked(n, B, e)
            zs == Masked(n, C, e)
            P == {k \in Nat : k <= n => Flat(zs, k) = Cat(Flat(xs, k), Flat(ys, k))}
<1>1. /\ xs \in Seq(Seq(S)) /\ Len(xs) = n /\ Mask(n, A, e) = Flat(xs, n)
      /\ \A k \in 1 .. n : xs[k] = IF k \in A THEN e[k] ELSE <<>>
  BY MaskedType
<1>2. /\ ys \in Seq(Seq(S)) /\ Len(ys) = n /\ Mask(n, B, e) = Flat(ys, n)
      /\ \A k \in 1 .. n : ys[k] = IF k \in B THEN e[k] ELSE <<>>
  BY MaskedType
<1>3. /\ zs \in Seq(Seq(S)) /\ Len(zs) = n /\ Mask(n, C, e) = Flat(zs, n)
      /\ \A k \in 1 .. n : zs[k] = IF k \in C THEN e[k] ELSE <<>>
  BY MaskedType
<1>. HIDE DEF xs, ys, zs
<1>4. 0 \in P
  <2>1. Flat(xs, 0) = <<>> /\ Flat(ys, 0) = <<>> /\ Flat(zs, 0) = <<>>
    BY <1>1, <1>2, <1>3, FlatSteps
  <2>2. <<>> \in Seq(S)
    OBVIOUS
  <2>3. Cat(<<>>, <<>>) = <<>>
    BY <2>2, CatFacts
  <2>. QED  BY <2>1, <2>3
<1>. HIDE DEF P
<1>5. ASSUME NEW m \in Nat, m \in P, m + 1 <= n
      PROVE  Flat(zs, m + 1) = Cat(Flat(xs, m + 1), Flat(ys, m + 1))
  <2>. DEFINE k == m + 1
  <2>1. k \in 1 .. n /\ k - 1 = m /\ m \in 0 .. n /\ k \in 0 .. n
    BY <1>5
  <2>2. Flat(zs, m) = Cat(Flat(xs, m), Flat(ys, m))
    BY <1>5, <2>1 DEF P
  <2>. HIDE DEF k
  <2>3. /\ Flat(xs, m) \in Seq(S) /\ Flat(ys, m) \in Seq(S) /\ e[k] \in Seq(S)
        /\ Flat(xs, k) = Cat(Flat(xs, m), xs[k]) /\ Flat(ys, k) = Cat(Flat(ys, m), ys[k])
        /\ Flat(zs, k) = Cat(Flat(zs, m), zs[k])
    BY <1>1, <1>2, <1>3, <2>1, FlatSteps DEF Pieces
  <2>4. /\ \A s \in Seq(S) : Cat(s, <<>>) = s
        /\ \A s, t, u \in Seq(S) : Cat(s, Cat(t, u)) = Cat(Cat(s, t), u)
    BY CatFacts
  <2>5. CASE k \in A
    <3>1. \A i \in 1 .. k : i \in 1 .. n /\ i \notin B
      BY <2>1, <2>5
    <3>2. /\ \A i \in 1 .. k : ys[i] = <<>>
          /\ 0 + 1 = 1 /\ 0 \in 0 .. n /\ k \in 0 .. n /\ m \in 0 .. n
          /\ \A i \in 1 .. m : i \in 1 .. k
      BY <1>2, <2>1, <3>1
    <3>3. Flat(ys, k) = <<>> /\ Flat(ys, m) = <<>>
      <4>1. \A i \in 1 .. m : ys[i] = <<>>
        BY <3>2
      <4>. QED  BY <1>2, <3>2, <4>1, FlatOfEmpty
    <3>4. xs[k] = e[k] /\ zs[k] = e[k]
      BY <1>1, <1>3, <2>1, <2>5
    <3>5. Flat(xs, k) \in Seq(S)
      BY <1>1, <2>1, FlatSteps
    <3>6. Flat(zs, k) = Cat(Flat(xs, m), e[k])
      BY <2>2, <2>3, <2>4, <3>3, <3>4
    <3>7. Flat(zs, k) = Cat(Flat(xs, k), Flat(ys, k))
      BY <2>3, <2>4, <3>3, <3>4, <3>5, <3>6
    <3>. QED  BY <3>7 DEF k
  <2>6. CASE k \notin A /\ k \in B
    <3>1. xs[k] = <<>> /\ ys[k] = e[k] /\ zs[k] = e[k]
      BY <1>1, <1>2, <1>3, <2>1, <2>6
    <3>2. Flat(xs, k) = Flat(xs, m)
      BY <2>3, <2>4, <3>1
    <3>3. Flat(zs, k) = Cat(Cat(Flat(xs, m), Flat(ys, m)), e[k])
      BY <2>2, <2>3, <3>1
    <3>4. Cat(Flat(xs, m), Cat(Flat(ys, m), e[k])) = Cat(Cat(Flat(xs, m), Flat(ys, m)), e[k])
      BY <2>3, <2>4, Zenon
    <3>. QED  BY <2>3, <3>1, <3>2, <3>3, <3>4 DEF k
  <2>7. CASE k \notin A /\ k \notin B
    <3>1. xs[k] = <<>> /\ ys[k] = <<>> /\ zs[k] = <<>>
      BY <1>1, <1>2, <1>3, <2>1, <2>7
    <3>2. Cat(Flat(xs, m), Flat(ys, m)) \in Seq(S)
      BY <2>3, CatFacts
    <3>3. Flat(xs, k) = Flat(xs, m) /\ Flat(ys, k) = Flat(ys, m) /\ Flat(zs, k) = Flat(zs, m)
      BY <2>2, <2>3, <2>4, <3>1, <3>2
    <3>. QED  BY <2>2, <3>3 DEF k
  <2>. QED  BY <2>5, <2>6, <2>7
<1>6. n \in P
  <2>1. ASSUME NEW m \in Nat, m \in P PROVE m + 1 \in P
    <3>. DEFINE k == m + 1
    <3>1. k \in Nat /\ (k <= n => Flat(zs, k) = Cat(Flat(xs, k), Flat(ys, k)))
      BY <1>5, <2>1
    <3>. HIDE DEF k
    <3>2. k \in P
      BY <3>1 DEF P
    <3>. QED  BY <3>2 DEF k
  <2>. QED  BY <1>4, <2>1, Induction
<1>7. Flat(zs, n) = Cat(Flat(xs, n), Flat(ys, n))
  BY <1>6 DEF P
<1>. QED  BY <1>1, <1>2, <1>3, <1>7

\* The union of the first sets of a family.
Before(X, k) == UNION {X[i] : i \in 1 .. k}

\* The same of any number of sets, each with less numbers than those behind it.
LEMMA MaskFamily ==
  ASSUME NEW S, NEW n \in Nat, NEW e, Pieces(e, n, S),
         NEW l \in Nat, NEW X \in [1 .. l -> SUBSET (1 .. n)],
         \A i, j \in 1 .. l : i < j => \A a \in X[i], b \in X[j] : a < b
  PROVE  FlattenSeq([i \in 1 .. l |-> Mask(n, X[i], e)]) = Mask(n, Before(X, l), e)
<1>. DEFINE ss == [i \in 1 .. l |-> Mask(n, X[i], e)]
            P == {k \in Nat : k <= l => Flat(ss, k) = Mask(n, Before(X, k), e)}
<1>1. ss \in Seq(Seq(S)) /\ Len(ss) = l /\ \A i \in 1 .. l : ss[i] = Mask(n, X[i], e)
  <2>1. \A i \in 1 .. l : Mask(n, X[i], e) \in Seq(S)
    BY MaskedType
  <2>. QED  BY <2>1
<1>. HIDE DEF ss
<1>2. 0 \in P
  <2>1. Before(X, 0) = {}
    BY DEF Before
  <2>2. Flat(ss, 0) = <<>> /\ Mask(n, {}, e) = <<>>
    BY <1>1, FlatSteps, MaskSingle
  <2>. QED  BY <2>1, <2>2
<1>3. ASSUME NEW m \in Nat, m \in P PROVE m + 1 \in P
  <2>. SUFFICES ASSUME m + 1 <= l PROVE Flat(ss, m + 1) = Mask(n, Before(X, m + 1), e)
    OBVIOUS
  <2>. DEFINE k == m + 1
  <2>1. k \in 1 .. l /\ k - 1 = m /\ \A i \in 1 .. m : i \in 1 .. l /\ i < k
    OBVIOUS
  <2>2. Before(X, k) = Before(X, m) \cup X[k]
    <3>1. \A i : i \in 1 .. k <=> i \in 1 .. m \/ i = k
      OBVIOUS
    <3>. QED  BY <3>1 DEF Before
  <2>3. Flat(ss, m) = Mask(n, Before(X, m), e)
    BY <1>3, <2>1
  <2>. HIDE DEF k, P
  <2>4. \A a \in Before(X, m) : \E i \in 1 .. m : a \in X[i]
    BY DEF Before
  <2>5. Before(X, m) \in SUBSET (1 .. n) /\ X[k] \in SUBSET (1 .. n)
    BY <2>1, <2>4
  <2>6. \A a \in Before(X, m), b \in X[k] : a < b
    BY <2>1, <2>4
  <2>7. Mask(n, Before(X, m) \cup X[k], e) = Cat(Mask(n, Before(X, m), e), Mask(n, X[k], e))
    BY <2>5, <2>6, MaskUnion
  <2>8. Flat(ss, k) = Cat(Flat(ss, m), ss[k])
    BY <1>1, <2>1, FlatSteps
  <2>. QED  BY <1>1, <2>1, <2>2, <2>3, <2>7, <2>8 DEF k
<1>. HIDE DEF P
<1>4. l \in P
  BY <1>2, <1>3, Induction
<1>5. Flat(ss, l) = Mask(n, Before(X, l), e)
  BY <1>4 DEF P
<1>. QED  BY <1>1, <1>5, FlatSteps DEF ss

\* Numbers for which e gives nothing.
LEMMA MaskOfEmpty ==
  ASSUME NEW S, NEW n \in Nat, NEW e, Pieces(e, n, S), NEW A, \A m \in 1 .. n : m \in A => e[m] = <<>>
  PROVE  Mask(n, A, e) = <<>>
<1>. DEFINE ss == Masked(n, A, e)
<1>1. /\ ss \in Seq(Seq(S)) /\ Len(ss) = n /\ Mask(n, A, e) = Flat(ss, n)
      /\ \A k \in 1 .. n : ss[k] = IF k \in A THEN e[k] ELSE <<>>
  BY MaskedType
<1>. HIDE DEF ss
<1>2. n \in 0 .. Len(ss)
  BY <1>1
<1>3. \A k \in 1 .. n : ss[k] = <<>>
  BY <1>1
<1>. QED  BY <1>1, <1>2, <1>3, FlatOfEmpty

\* One element more.
LEMMA FirstStep ==
  ASSUME NEW S, NEW t \in Seq(S), NEW k \in Nat, k + 1 <= Len(t)
  PROVE  First(t, k + 1) = Cat(First(t, k), <<t[k + 1]>>)
<1>. DEFINE m == k + 1
            x == t[m]
            u == First(t, k)
            v == First(t, m)
<1>1. m \in 1 .. Len(t) /\ k \in 0 .. Len(t) /\ x \in S
  OBVIOUS
<1>2. u \in Seq(S) /\ Len(u) = k /\ \A i \in 1 .. k : u[i] = t[i]
  BY <1>1, FirstType
<1>3. v = [i \in 1 .. m |-> t[i]]
  BY DEF First
<1>4. Cat(u, <<x>>) = [i \in 1 .. m |-> t[i]]
  <2>. HIDE DEF u, v, x
  <2>1. /\ Cat(u, <<x>>) \in Seq(S) /\ Len(Cat(u, <<x>>)) = k + 1
        /\ Cat(u, <<x>>)[k + 1] = x /\ \A i \in 1 .. k : Cat(u, <<x>>)[i] = u[i]
    BY <1>1, <1>2, OneBehind
  <2>. DEFINE w == Cat(u, <<x>>)
  <2>2. w \in Seq(S) /\ Len(w) = m /\ w[m] = x /\ \A i \in 1 .. k : w[i] = t[i]
    BY <1>2, <2>1
  <2>. HIDE DEF w
  <2>3. \A i \in 1 .. m : w[i] = t[i]
    <3>1. \A i \in 1 .. m : i \in 1 .. k \/ i = m
      OBVIOUS
    <3>. QED  BY <2>2, <3>1 DEF x
  <2>4. w = [i \in 1 .. m |-> w[i]]
    BY <2>2
  <2>5. w = [i \in 1 .. m |-> t[i]]
    BY <2>3, <2>4
  <2>. QED  BY <2>5 DEF w
<1>. QED  BY <1>3, <1>4

\* From number h + 1 on, e gives the elements of t one by one.
Singles(e, h, t) == \A i \in 1 .. Len(t) : e[h + i] = <<t[i]>>

\* Then it gives t.
LEMMA MaskSegment ==
  ASSUME NEW S, NEW n \in Nat, NEW e, Pieces(e, n, S),
         NEW h \in Nat, NEW t \in Seq(S), h + Len(t) <= n, Singles(e, h, t)
  PROVE  Mask(n, h + 1 .. h + Len(t), e) = t
<1>. DEFINE l == Len(t)
            P == {k \in Nat : k <= l => Mask(n, h + 1 .. h + k, e) = First(t, k)}
<1>1. l \in Nat
  OBVIOUS
<1>2. 0 \in P
  <2>1. h + 1 .. h + 0 = {}
    OBVIOUS
  <2>2. First(t, 0) = <<>>
    BY <1>1, FirstType
  <2>. QED  BY <2>1, <2>2, MaskSingle
<1>3. ASSUME NEW k \in Nat, k \in P PROVE k + 1 \in P
  <2>. SUFFICES ASSUME k + 1 <= l PROVE Mask(n, h + 1 .. h + (k + 1), e) = First(t, k + 1)
    OBVIOUS
  <2>. DEFINE m == k + 1
              A == h + 1 .. h + k
              b == h + m
              x == t[m]
  <2>1. /\ m \in 1 .. l /\ b \in 1 .. n /\ k \in 0 .. l /\ k <= l
        /\ A \in SUBSET (1 .. n) /\ h + 1 .. b = A \cup {b} /\ \A a \in A : a < b
    OBVIOUS
  <2>2. e[b] = <<x>> /\ x \in S
    BY <2>1 DEF Singles
  <2>3. Mask(n, A, e) = First(t, k)
    BY <1>3, <2>1
  <2>4. First(t, m) = Cat(First(t, k), <<x>>)
    BY <2>1, FirstStep
  <2>. HIDE DEF m, A, b, x, P, l
  <2>5. {b} \in SUBSET (1 .. n) /\ \A a \in A, d \in {b} : a < d
    BY <2>1
  <2>6. Mask(n, A \cup {b}, e) = Cat(Mask(n, A, e), Mask(n, {b}, e))
    BY <2>1, <2>5, MaskUnion
  <2>7. Mask(n, {b}, e) = e[b]
    BY ZenonT(30), <2>1, MaskSingle
  <2>8. Mask(n, h + 1 .. b, e) = First(t, m)
    BY <2>1, <2>2, <2>3, <2>4, <2>6, <2>7
  <2>. QED  BY <2>8 DEF b, m
<1>. HIDE DEF P, l
<1>4. l \in P
  BY <1>1, <1>2, <1>3, Induction
<1>5. Mask(n, h + 1 .. h + l, e) = First(t, l)
  BY <1>1, <1>4 DEF P
<1>6. First(t, l) = t
  BY <1>1, FirstType DEF l
<1>. QED  BY <1>5, <1>6 DEF l

\* c cuts the numbers from 1 to n into l segments.
Cuts(c, l, n) ==
  c \in [0 .. l -> 0 .. n] /\ c[0] = 0 /\ c[l] = n /\ \A i \in 1 .. l : c[i - 1] <= c[i]

\* ss is what e gives for each of the segments.
Segments(ss, c, l, n, e) ==
  Len(ss) = l /\ \A i \in 1 .. l : ss[i] = Mask(n, c[i - 1] + 1 .. c[i], e)

\* Then, together, it is what e gives for all the numbers.
LEMMA MaskCuts ==
  ASSUME NEW S, NEW n \in Nat, NEW e, Pieces(e, n, S), NEW l \in Nat, NEW c, Cuts(c, l, n),
         NEW ss \in Seq(Seq(S)), Segments(ss, c, l, n, e)
  PROVE  FlattenSeq(ss) = Mask(n, 1 .. n, e)
<1>. DEFINE P == {k \in Nat : k <= l => Flat(ss, k) = Mask(n, 1 .. c[k], e)}
<1>1. 0 \in P
  <2>1. 1 .. c[0] = {}
    BY DEF Cuts
  <2>. QED  BY <2>1, MaskSingle, FlatSteps
<1>2. ASSUME NEW m \in Nat, m \in P PROVE m + 1 \in P
  <2>. SUFFICES ASSUME m + 1 <= l PROVE Flat(ss, m + 1) = Mask(n, 1 .. c[m + 1], e)
    OBVIOUS
  <2>. DEFINE k == m + 1
              A == 1 .. c[m]
              B == c[m] + 1 .. c[k]
  <2>1. k \in 1 .. l /\ k - 1 = m /\ m \in 0 .. l /\ k \in 0 .. l
    OBVIOUS
  <2>2. Flat(ss, m) = Mask(n, A, e)
    BY <1>2, <2>1
  <2>. HIDE DEF k, P
  <2>3. c[m] \in 0 .. n /\ c[k] \in 0 .. n /\ c[m] <= c[k]
    BY <2>1 DEF Cuts
  <2>4. /\ A \in SUBSET (1 .. n) /\ B \in SUBSET (1 .. n) /\ A \cup B = 1 .. c[k]
        /\ \A a \in A, b \in B : a < b
    BY <2>3
  <2>5. ss[k] = Mask(n, B, e)
    BY <2>1 DEF Segments
  <2>6. Flat(ss, k) = Cat(Flat(ss, m), ss[k])
    BY <2>1, FlatSteps DEF Segments
  <2>. HIDE DEF A, B
  <2>7. Mask(n, A \cup B, e) = Cat(Mask(n, A, e), Mask(n, B, e))
    BY <2>4, MaskUnion
  <2>8. Flat(ss, k) = Mask(n, 1 .. c[k], e)
    BY <2>2, <2>4, <2>5, <2>6, <2>7
  <2>. QED  BY <2>8 DEF k
<1>. HIDE DEF P
<1>3. l \in P
  BY <1>1, <1>2, Induction
<1>4. Flat(ss, l) = Mask(n, 1 .. c[l], e)
  BY <1>3 DEF P
<1>. QED  BY <1>4, FlatSteps DEF Cuts, Segments

-----------------------------------------------------------------------------
\* As many sequences, of the same lengths.
SameLengths(x, y) == Len(x) = Len(y) /\ \A i \in 1 .. Len(x) : Len(x[i]) = Len(y[i])

\* As many of them, of the same lengths, each as long as the other.
LEMMA FlattenSeqShape ==
  ASSUME NEW S, NEW xs \in Seq(Seq(S)), NEW ys \in Seq(Seq(S)), Len(xs) = Len(ys),
         \A i \in 1 .. Len(xs) : SameLengths(xs[i], ys[i])
  PROVE  SameLengths(FlattenSeq(xs), FlattenSeq(ys))
<1>. DEFINE n == Len(xs)
            P == {k \in Nat : k <= n => SameLengths(Flat(xs, k), Flat(ys, k))}
<1>1. n \in Nat /\ Len(ys) = n
  OBVIOUS
<1>2. 0 \in P
  <2>1. Flat(xs, 0) = <<>> /\ Flat(ys, 0) = <<>>
    BY FlatSteps
  <2>2. SameLengths(<<>>, <<>>)
    BY DEF SameLengths
  <2>. QED  BY <2>1, <2>2
<1>3. ASSUME NEW m \in Nat, m \in P PROVE m + 1 \in P
  <2>. SUFFICES ASSUME m + 1 <= n PROVE SameLengths(Flat(xs, m + 1), Flat(ys, m + 1))
    OBVIOUS
  <2>. DEFINE k == m + 1
              x == Flat(xs, m)
              y == Flat(ys, m)
              u == xs[k]
              v == ys[k]
  <2>1. k \in 1 .. n /\ k - 1 = m /\ m \in 0 .. n
    OBVIOUS
  <2>2. SameLengths(x, y) /\ SameLengths(u, v)
    BY <1>3, <2>1
  <2>. HIDE DEF n, k, P
  <2>3. x \in Seq(S) /\ y \in Seq(S) /\ u \in Seq(S) /\ v \in Seq(S)
    BY <1>1, <2>1, FlatSteps DEF n
  <2>4. Flat(xs, k) = Cat(x, u) /\ Flat(ys, k) = Cat(y, v)
    BY <1>1, <2>1, FlatSteps DEF n
  <2>. HIDE DEF x, y, u, v
  <2>5. /\ Len(Cat(x, u)) = Len(x) + Len(u) /\ Len(Cat(y, v)) = Len(y) + Len(v)
        /\ \A i \in 1 .. Len(x) + Len(u) : Cat(x, u)[i] = IF i <= Len(x) THEN x[i] ELSE u[i - Len(x)]
        /\ \A i \in 1 .. Len(y) + Len(v) : Cat(y, v)[i] = IF i <= Len(y) THEN y[i] ELSE v[i - Len(y)]
    <3>1. \A p, q \in Seq(S) :
            /\ Len(Cat(p, q)) = Len(p) + Len(q)
            /\ \A i \in 1 .. Len(p) + Len(q) : Cat(p, q)[i] = IF i <= Len(p) THEN p[i] ELSE q[i - Len(p)]
      BY CatFacts
    <3>. QED  BY <2>3, <3>1
  <2>6. Len(x) \in Nat /\ Len(u) \in Nat /\ Len(x) = Len(y) /\ Len(u) = Len(v)
    BY <2>2, <2>3 DEF SameLengths
  <2>7. ASSUME NEW i \in 1 .. Len(Cat(x, u)) PROVE Len(Cat(x, u)[i]) = Len(Cat(y, v)[i])
    <3>1. CASE i <= Len(x)
      <4>1. i \in 1 .. Len(x) /\ Cat(x, u)[i] = x[i] /\ Cat(y, v)[i] = y[i]
        BY <2>5, <2>6, <3>1
      <4>. QED  BY <2>2, <4>1 DEF SameLengths
    <3>2. CASE ~(i <= Len(x))
      <4>. DEFINE d == i - Len(x)
      <4>1. d \in 1 .. Len(u) /\ Cat(x, u)[i] = u[d] /\ Cat(y, v)[i] = v[d]
        BY <2>5, <2>6, <3>2
      <4>. HIDE DEF d
      <4>. QED  BY <2>2, <4>1 DEF SameLengths
    <3>. QED  BY <3>1, <3>2
  <2>8. SameLengths(Flat(xs, k), Flat(ys, k))
    BY <2>4, <2>5, <2>6, <2>7 DEF SameLengths
  <2>. QED  BY <2>8 DEF k
<1>. HIDE DEF P, n
<1>4. n \in P
  BY <1>1, <1>2, <1>3, Induction
<1>5. SameLengths(Flat(xs, n), Flat(ys, n))
  BY <1>1, <1>4 DEF P
<1>. QED  BY <1>1, <1>5, FlatSteps DEF n
=============================================================================
