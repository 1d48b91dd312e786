----------------------------- MODULE TextsProofs -----------------------------
(***************************************************************************)
(* What the algorithms on the text of a program compute, for texts of any  *)
(* length over any alphabet.                                               *)
(***************************************************************************)
EXTENDS Texts, SequenceLemmas

(***************************************************************************)
(* The files that are loaded.                                              *)
(***************************************************************************)

\* The programs of the files 1 to k.
FirstPrograms(files, k) == [i \in 1 .. k |-> ParseProgramTemplate(files[i])]

\* A state of the loop of loadProgramTemplates, and the one after i turns, if n is the
\* last file before a hole.
Loop(templates, status) == [templates |-> templates, status |-> status]

AfterTurns(files, n, i) ==
  IF i <= n THEN Loop(FirstPrograms(files, i), "looping")
            ELSE Loop(FirstPrograms(files, n), "broken")

\* Before the first turn there is no program.
LEMMA NoProgram ==
  ASSUME NEW files
  PROVE  FirstPrograms(files, 0) = <<>>
BY DEF FirstPrograms

\* Putting the next program into the map.
LEMMA OneProgramMore ==
  ASSUME NEW files, NEW i \in Nat \ {0}
  PROVE  Put(FirstPrograms(files, i - 1), i, ParseProgramTemplate(files[i]))
           = FirstPrograms(files, i)
<1>. DEFINE P(k) == ParseProgramTemplate(files[k])
            m == [k \in 1 .. i - 1 |-> P(k)]
<1>1. 1 .. i = (1 .. i - 1) \cup {i} /\ i \notin 1 .. i - 1
  OBVIOUS
<1>. HIDE DEF P
<1>2. DOMAIN m \cup {i} = 1 .. i /\ \A k \in 1 .. i : P(k) = IF k = i THEN P(i) ELSE m[k]
  BY <1>1
<1>. HIDE DEF m
<1>3. [k \in DOMAIN m \cup {i} |-> IF k = i THEN P(i) ELSE m[k]] = [k \in 1 .. i |-> P(k)]
  BY <1>2
<1>. QED  BY <1>3 DEF FirstPrograms, Put, P, m

\* There is a last file before the first hole, or before the limit of the loop.
LEMMA LastBeforeHole ==
  ASSUME NEW files
  PROVE  \E n \in 0 .. MAX_CODE_TEMPLATES_COUNT :
           /\ 1 .. n \subseteq DOMAIN files
           /\ n < MAX_CODE_TEMPLATES_COUNT => n + 1 \notin DOMAIN files
<1>. DEFINE D == {k \in Nat : k + 1 \notin DOMAIN files \/ k = MAX_CODE_TEMPLATES_COUNT}
<1>1. MAX_CODE_TEMPLATES_COUNT \in Nat
  BY TemplatesAssumption
<1>2. D \in SUBSET Nat /\ MAX_CODE_TEMPLATES_COUNT \in D
  BY <1>1
<1>3. PICK n \in D : \A d \in D : n <= d
  <2>. HIDE DEF D
  <2>. QED  BY <1>2, Least
<1>4. n \in 0 .. MAX_CODE_TEMPLATES_COUNT
  BY <1>1, <1>2, <1>3
<1>5. ASSUME NEW i \in 1 .. n, i \notin DOMAIN files PROVE FALSE
  <2>1. i - 1 \in Nat /\ (i - 1) + 1 = i /\ ~(n <= i - 1)
    BY <1>4
  <2>. QED  BY <1>3, <1>5, <2>1
<1>. QED  BY <1>3, <1>4, <1>5

\* The two ways a turn may go.
LEMMA LoadTurnIs ==
  ASSUME NEW files, NEW id, NEW t, NEW status
  PROVE  LoadTurn(Loop(t, status), id, files) =
           IF status = "looping" /\ id \in DOMAIN files
             THEN Loop(Put(t, id, ParseProgramTemplate(files[id])), status) ELSE Loop(t, "broken")
BY DEF LoadTurn, Loop

\* A turn of the loop: the next program, the break, or nothing behind it.
LEMMA TurnIs ==
  ASSUME NEW files, NEW n \in Nat, NEW i \in Nat \ {0},
         1 .. n \subseteq DOMAIN files, i = n + 1 => i \notin DOMAIN files
  PROVE  LoadTurn(AfterTurns(files, n, i - 1), FromIndex(i - 1), files) = AfterTurns(files, n, i)
<1>1. FromIndex(i - 1) = i
  BY DEF FromIndex
<1>2. CASE i <= n
  <2>1. i \in DOMAIN files /\ i - 1 <= n
    BY <1>2
  <2>2. AfterTurns(files, n, i - 1) = Loop(FirstPrograms(files, i - 1), "looping")
    BY <2>1 DEF AfterTurns
  <2>3. AfterTurns(files, n, i) = Loop(FirstPrograms(files, i), "looping")
    BY <1>2, <2>1 DEF AfterTurns
  <2>. QED  BY <1>1, <2>1, <2>2, <2>3, OneProgramMore, LoadTurnIs
<1>3. CASE i = n + 1
  <2>1. i \notin DOMAIN files /\ i - 1 = n /\ n <= n /\ ~(i <= n)
    BY <1>3
  <2>2. AfterTurns(files, n, i - 1) = Loop(FirstPrograms(files, n), "looping")
    BY <2>1 DEF AfterTurns
  <2>3. AfterTurns(files, n, i) = Loop(FirstPrograms(files, n), "broken")
    BY <2>1 DEF AfterTurns
  <2>. QED  BY <1>1, <2>1, <2>2, <2>3, LoadTurnIs
<1>4. CASE n + 1 < i
  <2>1. ~(i - 1 <= n) /\ ~(i <= n)
    BY <1>4
  <2>2. /\ AfterTurns(files, n, i - 1) = Loop(FirstPrograms(files, n), "broken")
        /\ AfterTurns(files, n, i) = Loop(FirstPrograms(files, n), "broken")
    BY <2>1 DEF AfterTurns
  <2>. QED  BY <2>2, LoadTurnIs
<1>. QED  BY <1>2, <1>3, <1>4

\* What the loop loads, of any files.
LEMMA FirstAreLoaded ==
  ASSUME NEW files
  PROVE  LoadedInARow(files)
<1>. DEFINE MAX == MAX_CODE_TEMPLATES_COUNT
            start == Loop(<<>>, "looping")
            By(f) == [i \in 0 .. MAX |->
                       IF i = 0 THEN start ELSE LoadTurn(f[i - 1], FromIndex(i - 1), files)]
            loop == CHOOSE f : f = By(f)
<1>1. MAX \in Nat
  BY TemplatesAssumption
<1>2. PICK n \in 0 .. MAX : 1 .. n \subseteq DOMAIN files /\ (n < MAX => n + 1 \notin DOMAIN files)
  BY LastBeforeHole
<1>3. AfterTurns(files, n, 0) = start
  <2>1. 0 <= n /\ FirstPrograms(files, 0) = <<>>
    BY <1>1, NoProgram
  <2>2. AfterTurns(files, n, 0) = Loop(FirstPrograms(files, 0), "looping")
    BY <2>1 DEF AfterTurns
  <2>. QED  BY <2>1, <2>2
<1>4. \A i \in 1 .. MAX :
        LoadTurn(AfterTurns(files, n, i - 1), FromIndex(i - 1), files) = AfterTurns(files, n, i)
  <2>1. \A i \in 1 .. MAX : i \in Nat \ {0} /\ (i = n + 1 => n < MAX)
    BY <1>1, <1>2
  <2>. QED  BY <1>1, <1>2, <2>1, TurnIs
<1>5. loop = By(loop)
  <2>. DEFINE T == [i \in 0 .. MAX |-> AfterTurns(files, n, i)]
  <2>1. \A i \in 0 .. MAX : i # 0 => i \in 1 .. MAX /\ T[i - 1] = AfterTurns(files, n, i - 1)
    BY <1>1
  <2>. HIDE DEF start
  <2>2. T = By(T)
    <3>1. ASSUME NEW i \in 0 .. MAX
          PROVE  AfterTurns(files, n, i)
                   = IF i = 0 THEN start ELSE LoadTurn(T[i - 1], FromIndex(i - 1), files)
      BY <1>3, <1>4, <2>1
    <3>. HIDE DEF MAX
    <3>. QED  BY <3>1
  <2>. HIDE DEF T, By
  <2>. QED  BY <2>2
<1>6. loop[0] = start /\ \A i \in 1 .. MAX : loop[i] = LoadTurn(loop[i - 1], FromIndex(i - 1), files)
  <2>1. 0 \in 0 .. MAX /\ \A i \in 1 .. MAX : i \in 0 .. MAX /\ i # 0
    BY <1>1
  <2>. HIDE DEF loop, start, MAX
  <2>. QED  BY <1>5, <2>1
<1>7. LoadProgramTemplates(files) = loop[MAX].templates
  BY DEF LoadProgramTemplates, Loop
<1>. HIDE DEF loop, start
<1>8. loop[MAX] = AfterTurns(files, n, MAX)
  <2>. DEFINE P == {k \in Nat : k <= MAX => loop[k] = AfterTurns(files, n, k)}
  <2>1. 0 \in P
    BY <1>3, <1>6
  <2>2. ASSUME NEW k \in Nat, k \in P PROVE k + 1 \in P
    <3>1. SUFFICES ASSUME k + 1 <= MAX PROVE loop[k + 1] = AfterTurns(files, n, k + 1)
      OBVIOUS
    <3>2. k + 1 \in 1 .. MAX /\ (k + 1) - 1 = k /\ loop[k] = AfterTurns(files, n, k)
      BY <1>1, <2>2, <3>1
    <3>. QED  BY <1>4, <1>6, <3>2
  <2>. HIDE DEF P
  <2>3. MAX \in P
    BY <1>1, <2>1, <2>2, Induction
  <2>. QED  BY <1>1, <2>3 DEF P
<1>9. LoadProgramTemplates(files) = FirstPrograms(files, n)
  <2>1. MAX <= n => MAX = n
    BY <1>1, <1>2
  <2>. QED  BY <1>7, <1>8, <2>1 DEF AfterTurns, Loop
<1>. QED  BY <1>2, <1>9 DEF LoadedInARow, FirstPrograms

\* Whatever files there are and whatever is in them, the loop loads those before the
\* first hole, each as the program of its own number.
THEOREM ProgramsAreNumbered == Spec => []LoadedWithoutHoles
<1>1. LoadedWithoutHoles
  BY FirstAreLoaded DEF LoadedWithoutHoles
<1>. QED  BY <1>1, PTL

-----------------------------------------------------------------------------
(***************************************************************************)
(* The gaps of a line.                                                     *)
(***************************************************************************)
GapAt(s, i) == \E j \in i .. Len(s) : IsGap(s, i, j)
GapEnd(s, i) == CHOOSE j \in i .. Len(s) : IsGap(s, i, j)

\* What findAll finds from a position on, by what it finds from the later ones on.
FoundBy(s, f, i) ==
  IF i > Len(s) THEN <<>>
  ELSE IF GapAt(s, i) THEN Cat(<<GapRange(i, GapEnd(s, i))>>, f[GapEnd(s, i) + 1])
  ELSE f[i + 1]

\* There is a function of what it finds.
LEMMA SearchExists ==
  ASSUME NEW s, Len(s) \in Nat
  PROVE  \E f : f = [i \in 1 .. Len(s) + 1 |-> FoundBy(s, f, i)]
<1>. DEFINE n == Len(s) + 1
            P == {i \in 1 .. n : \E f : f = [k \in i .. n |-> FoundBy(s, f, k)]}
<1>1. ASSUME NEW i \in 1 .. n, \A j \in i + 1 .. n : j \in P PROVE i \in P
  <2>1. PICK f : \A k \in i + 1 .. n : f[k] = FoundBy(s, f, k)
    <3>1. CASE i = n
      <4>1. \A k \in i + 1 .. n : FALSE
        BY <3>1
      <4>. QED  BY <4>1
    <3>2. CASE i # n
      <4>1. i + 1 \in i + 1 .. n
        BY <3>2
      <4>2. PICK f : f = [k \in i + 1 .. n |-> FoundBy(s, f, k)]
        BY <1>1, <4>1
      <4>. QED  BY <4>2
    <3>. QED  BY <3>1, <3>2
  <2>. DEFINE g == [k \in i .. n |-> IF k = i THEN FoundBy(s, f, i) ELSE f[k]]
  <2>2. /\ g[i] = FoundBy(s, f, i)
        /\ \A k \in i + 1 .. n : g[k] = f[k]
    OBVIOUS
  <2>3. ASSUME NEW k \in i .. n PROVE FoundBy(s, g, k) = FoundBy(s, f, k)
    <3>1. k <= Len(s) => g[k + 1] = f[k + 1]
      <4>1. k <= Len(s) => k + 1 \in i + 1 .. n
        OBVIOUS
      <4>. QED  BY <2>2, <4>1
    <3>2. GapAt(s, k) => g[GapEnd(s, k) + 1] = f[GapEnd(s, k) + 1]
      <4>. SUFFICES ASSUME GapAt(s, k) PROVE g[GapEnd(s, k) + 1] = f[GapEnd(s, k) + 1]
        OBVIOUS
      <4>1. GapEnd(s, k) \in k .. Len(s)
        BY DEF GapAt, GapEnd
      <4>2. GapEnd(s, k) + 1 \in i + 1 .. n
        BY <4>1
      <4>. QED  BY <2>2, <4>2
    <3>. HIDE DEF g
    <3>. QED  BY <3>1, <3>2 DEF FoundBy
  <2>4. \A k \in i .. n : g[k] = FoundBy(s, g, k)
    <3>1. \A k \in i .. n : k = i \/ k \in i + 1 .. n
      OBVIOUS
    <3>. HIDE DEF g
    <3>. QED  BY <2>1, <2>2, <2>3, <3>1
  <2>5. g = [k \in i .. n |-> g[k]]
    OBVIOUS
  <2>. HIDE DEF g
  <2>6. g = [k \in i .. n |-> FoundBy(s, g, k)]
    BY <2>4, <2>5
  <2>. QED  BY <2>6
<1>. HIDE DEF P
<1>2. n \in Nat /\ 1 \in 1 .. n
  OBVIOUS
<1>3. 1 \in P
  BY <1>1, <1>2, DownInduction
<1>. QED  BY <1>3 DEF P

Ranges == [begin : Nat, end : Nat]

\* R are the gaps of s from position i on: in order, each behind the one before, and
\* none of the others but those that begin in one of them.
GapsFrom(s, i, R) ==
  /\ R \in Seq(Ranges)
  /\ \A k \in 1 .. Len(R) :
       i <= R[k].begin /\ R[k].end <= Len(s) /\ IsGap(s, R[k].begin, R[k].end)
  /\ \A k \in 1 .. Len(R) - 1 : R[k].end < R[k + 1].begin
  /\ \A a \in i .. Len(s), b \in 1 .. Len(s) : IsGap(s, a, b) =>
       \E k \in 1 .. Len(R) : R[k].begin <= a /\ a <= R[k].end

\* The search goes on behind what it found, or at the next position.
LEMMA GapsFromStep ==
  ASSUME NEW s, Len(s) \in Nat, NEW i \in 1 .. Len(s), NEW f,
         \A k \in i + 1 .. Len(s) + 1 : GapsFrom(s, k, f[k])
  PROVE  GapsFrom(s, i, FoundBy(s, f, i))
<1>1. CASE GapAt(s, i)
  <2>. DEFINE j == GapEnd(s, i)
              x == GapRange(i, j)
              r == f[j + 1]
              R == Cat(<<x>>, r)
  <2>1. j \in i .. Len(s) /\ IsGap(s, i, j)
    BY <1>1 DEF GapAt, GapEnd
  <2>. HIDE DEF j
  <2>2. x \in Ranges /\ x.begin = i /\ x.end = j
    BY <2>1 DEF GapRange, Ranges
  <2>3. GapsFrom(s, j + 1, r)
    <3>1. j + 1 \in i + 1 .. Len(s) + 1
      BY <2>1
    <3>. QED  BY <3>1
  <2>. HIDE DEF x, r
  <2>4. r \in Seq(Ranges) /\ Len(r) \in Nat
    BY <2>3 DEF GapsFrom
  <2>5. R \in Seq(Ranges) /\ Len(R) = Len(r) + 1 /\ R[1] = x /\ \A k \in 1 .. Len(r) : R[k + 1] = r[k]
    <3>. DEFINE m == Len(r)
    <3>1. x \in Ranges /\ r \in Seq(Ranges) /\ m \in Nat /\ Len(r) = m
      BY <2>2, <2>4
    <3>. HIDE DEF m
    <3>2. R \in Seq(Ranges) /\ Len(R) = m + 1 /\ R[1] = x /\ \A k \in 1 .. m : R[k + 1] = r[k]
      BY <3>1, OneInFront
    <3>. QED  BY <3>2 DEF m
  <2>. HIDE DEF R
  <2>6. ASSUME NEW k \in 1 .. Len(R), k # 1
        PROVE  k - 1 \in 1 .. Len(r) /\ R[k] = r[k - 1]
    <3>1. k - 1 \in 1 .. Len(r) /\ (k - 1) + 1 = k
      BY <2>4, <2>5, <2>6
    <3>. QED  BY <2>5, <3>1
  <2>7. ASSUME NEW k \in 1 .. Len(R)
        PROVE  i <= R[k].begin /\ R[k].end <= Len(s) /\ IsGap(s, R[k].begin, R[k].end)
    <3>1. CASE k = 1
      BY <2>1, <2>2, <2>5, <3>1
    <3>2. CASE k # 1
      <4>1. r[k - 1].begin \in Nat /\ j + 1 <= r[k - 1].begin /\ r[k - 1].end <= Len(s)
            /\ IsGap(s, r[k - 1].begin, r[k - 1].end)
        <5>1. r[k - 1] \in Ranges
          BY <2>4, <2>6, <3>2
        <5>. QED  BY <2>3, <2>6, <3>2, <5>1 DEF GapsFrom, Ranges
      <4>. QED  BY <2>1, <2>6, <3>2, <4>1
    <3>. QED  BY <3>1, <3>2
  <2>8. ASSUME NEW k \in 1 .. Len(R) - 1 PROVE R[k].end < R[k + 1].begin
    <3>. DEFINE m == k + 1
    <3>1. m \in 1 .. Len(R) /\ m # 1 /\ m - 1 = k /\ k \in 1 .. Len(r) /\ k \in 1 .. Len(R)
      BY <2>4, <2>5
    <3>. HIDE DEF m
    <3>2. R[m] = r[k]
      BY <2>6, <3>1
    <3>3. CASE k = 1
      <4>1. r[1] \in Ranges /\ j + 1 <= r[1].begin
        BY SMTT(30), <2>3, <2>4, <3>1, <3>3 DEF GapsFrom
      <4>. QED  BY <2>1, <2>2, <2>5, <3>2, <3>3, <4>1 DEF m, Ranges
    <3>4. CASE k # 1
      <4>. DEFINE h == k - 1
      <4>1. h \in 1 .. Len(r) - 1 /\ h + 1 = k
        BY <3>1, <3>4
      <4>2. R[k] = r[h]
        BY <2>6, <3>1, <3>4
      <4>. HIDE DEF h
      <4>3. r[h].end < r[k].begin
        BY <2>3, <4>1 DEF GapsFrom
      <4>. QED  BY <3>2, <4>2, <4>3 DEF m
    <3>. QED  BY <3>3, <3>4
  <2>9. ASSUME NEW a \in i .. Len(s), NEW b \in 1 .. Len(s), IsGap(s, a, b)
        PROVE  \E k \in 1 .. Len(R) : R[k].begin <= a /\ a <= R[k].end
    <3>1. CASE a <= j
      <4>1. 1 \in 1 .. Len(R)
        BY <2>4, <2>5
      <4>. QED  BY <2>2, <2>5, <3>1, <4>1
    <3>2. CASE ~(a <= j)
      <4>1. a \in j + 1 .. Len(s)
        BY <2>1, <3>2
      <4>2. PICK k \in 1 .. Len(r) : r[k].begin <= a /\ a <= r[k].end
        BY <2>3, <2>9, <4>1 DEF GapsFrom
      <4>3. k + 1 \in 1 .. Len(R)
        BY <2>4, <2>5
      <4>. QED  BY <2>5, <4>2, <4>3
    <3>. QED  BY <3>1, <3>2
  <2>10. GapsFrom(s, i, R)
    BY <2>5, <2>7, <2>8, <2>9 DEF GapsFrom
  <2>11. FoundBy(s, f, i) = R
    BY <1>1 DEF FoundBy, R, x, r, j
  <2>. QED  BY <2>10, <2>11
<1>2. CASE ~GapAt(s, i)
  <2>. DEFINE R == f[i + 1]
  <2>1. GapsFrom(s, i + 1, R)
    <3>1. i + 1 \in i + 1 .. Len(s) + 1
      OBVIOUS
    <3>. QED  BY <3>1
  <2>2. FoundBy(s, f, i) = R
    BY <1>2 DEF FoundBy
  <2>. HIDE DEF R
  <2>3. ASSUME NEW k \in 1 .. Len(R) PROVE i <= R[k].begin
    <3>1. R[k] \in Ranges /\ i + 1 <= R[k].begin
      BY <2>1 DEF GapsFrom
    <3>. QED  BY <3>1 DEF Ranges
  <2>4. ASSUME NEW a \in i .. Len(s), NEW b \in 1 .. Len(s), IsGap(s, a, b)
        PROVE  \E k \in 1 .. Len(R) : R[k].begin <= a /\ a <= R[k].end
    <3>1. CASE a = i
      <4>1. b \in i .. Len(s)
        BY <2>4, <3>1 DEF IsGap
      <4>. QED  BY <1>2, <2>4, <3>1, <4>1 DEF GapAt
    <3>2. CASE a # i
      <4>1. a \in i + 1 .. Len(s)
        BY <3>2
      <4>. QED  BY <2>1, <2>4, <4>1 DEF GapsFrom
    <3>. QED  BY <3>1, <3>2
  <2>5. GapsFrom(s, i, R)
    BY <2>1, <2>3, <2>4 DEF GapsFrom
  <2>. QED  BY <2>2, <2>5
<1>. QED  BY <1>1, <1>2

\* findAll returns the gaps of the line from its beginning on.
LEMMA FindAllGaps ==
  ASSUME NEW s, Len(s) \in Nat
  PROVE  GapsFrom(s, 1, FindAll(s))
<1>. DEFINE n == Len(s) + 1
            C == CHOOSE f : f = [i \in 1 .. n |-> FoundBy(s, f, i)]
            P == {i \in 1 .. n : GapsFrom(s, i, C[i])}
<1>1. C = [i \in 1 .. n |-> FoundBy(s, C, i)]
  BY SearchExists
<1>2. FindAll(s) = C[1]
  BY DEF FindAll, FoundBy, GapAt, GapEnd, Cat
<1>. HIDE DEF C
<1>3. \A i \in 1 .. n : C[i] = FoundBy(s, C, i)
  BY <1>1
<1>4. ASSUME NEW i \in 1 .. n, \A j \in i + 1 .. n : j \in P PROVE i \in P
  <2>1. CASE i = n
    <3>1. C[i] = <<>>
      <4>1. i > Len(s) /\ i \in 1 .. n
        BY <2>1
      <4>. QED  BY <1>3, <4>1 DEF FoundBy
    <3>2. GapsFrom(s, i, <<>>)
      BY <2>1 DEF GapsFrom
    <3>. QED  BY <3>1, <3>2
  <2>2. CASE i # n
    <3>1. i \in 1 .. Len(s) /\ \A k \in i + 1 .. Len(s) + 1 : GapsFrom(s, k, C[k])
      BY <1>4, <2>2
    <3>2. GapsFrom(s, i, FoundBy(s, C, i))
      BY <3>1, GapsFromStep
    <3>. QED  BY <1>3, <3>2
  <2>. QED  BY <2>1, <2>2
<1>. HIDE DEF P
<1>5. n \in Nat /\ 1 \in 1 .. n
  OBVIOUS
<1>6. 1 \in P
  BY <1>4, <1>5, DownInduction
<1>. QED  BY <1>2, <1>6 DEF P

-----------------------------------------------------------------------------
(***************************************************************************)
(* The lines of a text.                                                    *)
(***************************************************************************)
Char == UNION {a.symbols : a \in Alphabet}

\* Some lines over the characters in S.
LinesOf(S) == {lines \in Seq(Seq(S)) : lines # <<>>}

\* The text is one over the symbols of the alphabets.
LEMMA TextType == Spec => [](text \in Seq(Char))
<1>1. Init => text \in Seq(Char)
  BY DEF Init
<1>2. text \in Seq(Char) /\ [Next]_text => (text \in Seq(Char))'
  <2>. SUFFICES ASSUME text \in Seq(Char), [Next]_text PROVE (text \in Seq(Char))'
    OBVIOUS
  <2>1. ASSUME NEW c, Write(c) PROVE (text \in Seq(Char))'
    <3>1. c \in Char /\ text' = Append(text, c)
      BY <2>1 DEF Write, Char
    <3>. QED  BY <3>1 DEF Char
  <2>. QED  BY <2>1 DEF Next
<1>. QED  BY <1>1, <1>2, PTL DEF Spec

\* One more character leaves some lines.
LEMMA AddToLinesType ==
  ASSUME NEW S, NEW lines \in LinesOf(S), NEW c \in S
  PROVE  AddToLines(lines, c) \in LinesOf(S)
<1>. DEFINE n == Len(lines)
<1>1. lines \in Seq(Seq(S)) /\ lines # <<>>
  BY DEF LinesOf
<1>2. n \in 1 .. n /\ lines[n] \in Seq(S)
  BY <1>1
<1>3. Append(lines, <<>>) \in LinesOf(S)
  BY <1>1 DEF LinesOf
<1>4. [lines EXCEPT ![n] = Append(@, c)] \in LinesOf(S)
  <2>1. Append(lines[n], c) \in Seq(S)
    BY <1>2
  <2>2. [lines EXCEPT ![n] = Append(lines[n], c)] \in Seq(Seq(S))
    BY <1>1, <1>2, <2>1
  <2>3. Len([lines EXCEPT ![n] = Append(lines[n], c)]) = n
    BY <1>1
  <2>. QED  BY <1>1, <1>2, <2>2, <2>3 DEF LinesOf
<1>. QED  BY <1>3, <1>4 DEF AddToLines

\* splitByNewline, character by character.
LEMMA SplitSteps ==
  ASSUME NEW S, NEW str \in Seq(S)
  PROVE  \E f \in [0 .. Len(str) -> LinesOf(S)] :
           /\ f[0] = << <<>> >> /\ SplitByNewline(str) = f[Len(str)]
           /\ \A i \in 1 .. Len(str) : f[i] = AddToLines(f[i - 1], str[i])
<1>. DEFINE n == Len(str)
            g == [p \in (1 .. n) \X LinesOf(S) |-> AddToLines(p[2], str[p[1]])]
            C == CHOOSE f : f = [i \in 0 .. n |-> IF i = 0 THEN << <<>> >> ELSE AddToLines(f[i - 1], str[i])]
<1>1. n \in Nat /\ << <<>> >> \in LinesOf(S) /\ \A i \in 1 .. n : str[i] \in S
  BY DEF LinesOf
<1>2. \A i \in 1 .. n : \A x \in LinesOf(S) :
        g[<<i, x>>] = AddToLines(x, str[i]) /\ g[<<i, x>>] \in LinesOf(S)
  BY <1>1, AddToLinesType
<1>. HIDE DEF g, n
<1>3. PICK f \in [0 .. n -> LinesOf(S)] :
        f[0] = << <<>> >> /\ \A i \in 1 .. n : f[i] = g[<<i, f[i - 1]>>]
  <2>1. LeadsOn(g, n, LinesOf(S))
    BY <1>2 DEF LeadsOn
  <2>. DEFINE b == << <<>> >>
  <2>2. b \in LinesOf(S)
    BY <1>1
  <2>. HIDE DEF b
  <2>3. \E f : GoesOn(f, b, g, n, LinesOf(S))
    BY <1>1, <2>1, <2>2, StepByStep
  <2>. QED  BY <2>3 DEF b, GoesOn
<1>4. \A i \in 1 .. n : i - 1 \in 0 .. n /\ f[i - 1] \in LinesOf(S) /\ f[i] = AddToLines(f[i - 1], str[i])
  <2>1. \A i \in 1 .. n : i - 1 \in 0 .. n
    BY <1>1
  <2>. QED  BY <1>2, <1>3, <2>1
<1>5. f = [i \in 0 .. n |-> IF i = 0 THEN << <<>> >> ELSE AddToLines(f[i - 1], str[i])]
  <2>1. \A i \in 0 .. n : i = 0 \/ i \in 1 .. n
    BY <1>1
  <2>2. \A i \in 1 .. n : i # 0
    BY <1>1
  <2>. QED  BY <1>3, <1>4, <2>1, <2>2
<1>6. C = [i \in 0 .. n |-> IF i = 0 THEN << <<>> >> ELSE AddToLines(C[i - 1], str[i])]
  BY <1>5
<1>7. SplitByNewline(str) = C[n]
  BY DEF SplitByNewline, n
<1>. HIDE DEF C
<1>8. C[0] = << <<>> >> /\ \A i \in 1 .. n : C[i] = AddToLines(C[i - 1], str[i])
  <2>1. 0 \in 0 .. n /\ \A i \in 1 .. n : i \in 0 .. n /\ i # 0
    BY <1>1
  <2>. QED  BY <1>6, <2>1
<1>9. \A i \in 0 .. n : C[i] \in LinesOf(S)
  <2>. DEFINE P == {i \in Nat : i <= n => C[i] \in LinesOf(S)}
  <2>1. 0 \in P
    BY <1>1, <1>8
  <2>2. ASSUME NEW i \in Nat, i \in P PROVE i + 1 \in P
    <3>. SUFFICES ASSUME i + 1 <= n PROVE C[i + 1] \in LinesOf(S)
      OBVIOUS
    <3>1. i + 1 \in 1 .. n /\ (i + 1) - 1 = i /\ i <= n
      BY <1>1
    <3>. QED  BY <1>1, <1>8, <2>2, <3>1, AddToLinesType
  <2>. HIDE DEF P
  <2>3. \A i \in Nat : i \in P
    BY <2>1, <2>2, Induction
  <2>. QED  BY <2>3 DEF P
<1>10. C \in [0 .. n -> LinesOf(S)]
  BY <1>6, <1>9
<1>. QED  BY <1>7, <1>8, <1>10 DEF n

\* splitByNewline returns some lines.
LEMMA SplitType ==
  ASSUME NEW S, NEW str \in Seq(S)
  PROVE  SplitByNewline(str) \in LinesOf(S)
<1>1. Len(str) \in 0 .. Len(str)
  BY LenProperties
<1>. QED  BY <1>1, SplitSteps

-----------------------------------------------------------------------------
(***************************************************************************)
(* What is left of a line without its markers.                             *)
(***************************************************************************)

\* The last character that is not white space, or none.
LEMMA LastSolidType ==
  ASSUME NEW s, Len(s) \in Nat
  PROVE  /\ LastSolid(s) \in 0 .. Len(s)
         /\ LastSolid(s) # 0 => ~IsWhiteSpace(s[LastSolid(s)])
         /\ \A i \in 1 .. Len(s) : LastSolid(s) < i => IsWhiteSpace(s[i])
<1>. DEFINE I == {i \in 1 .. Len(s) : ~IsWhiteSpace(s[i])}
<1>1. LastSolid(s) = IF I # {} THEN Max(I) ELSE 0
  BY DEF LastSolid, SelectLastInSeq
<1>2. CASE I = {}
  BY <1>1, <1>2
<1>3. CASE I # {}
  <2>. DEFINE D == {d \in Nat : d < Len(s) /\ Len(s) - d \in I}
  <2>1. PICK i \in I : TRUE
    BY <1>3
  <2>2. D \in SUBSET Nat /\ Len(s) - i \in D
    <3>1. Len(s) - i \in Nat /\ Len(s) - i < Len(s) /\ Len(s) - (Len(s) - i) = i
      OBVIOUS
    <3>. QED  BY <3>1
  <2>3. PICK d \in D : \A x \in D : d <= x
    <3>. HIDE DEF D
    <3>. QED  BY <2>2, Least
  <2>4. Len(s) - d \in I /\ \A y \in I : Len(s) - d >= y
    <3>1. ASSUME NEW y \in I PROVE Len(s) - d >= y
      <4>1. Len(s) - y \in Nat /\ Len(s) - y < Len(s) /\ Len(s) - (Len(s) - y) = y
        OBVIOUS
      <4>2. d <= Len(s) - y
        BY <2>3, <4>1
      <4>. QED  BY <4>2
    <3>. QED  BY <3>1
  <2>5. Max(I) \in I /\ \A y \in I : Max(I) >= y
    <3>. HIDE DEF I
    <3>. QED  BY <2>4 DEF Max
  <2>6. LastSolid(s) \in 1 .. Len(s) /\ ~IsWhiteSpace(s[LastSolid(s)])
    BY <1>1, <1>3, <2>5
  <2>7. ASSUME NEW k \in 1 .. Len(s), LastSolid(s) < k, ~IsWhiteSpace(s[k]) PROVE FALSE
    <3>1. k \in I /\ Max(I) >= k
      BY <2>5, <2>7
    <3>2. LastSolid(s) = Max(I) /\ LastSolid(s) \in Nat
      BY <1>1, <1>3, <2>6
    <3>. QED  BY <2>7, <3>1, <3>2
  <2>. QED  BY <2>6, <2>7
<1>. QED  BY <1>2, <1>3

\* The first characters of a line are one.
LEMMA PrefixType ==
  ASSUME NEW S, NEW s \in Seq(S), NEW n \in Int, n <= Len(s)
  PROVE  SubSeq(s, 1, n) \in Seq(S)
OBVIOUS

\* A line is a sequence of characters, with and without its markers.
LEMMA ContentType ==
  ASSUME NEW S, NEW s \in Seq(S)
  PROVE  NormalizeLine(s).content \in Seq(S)
<1>1. ASSUME NEW r \in Seq(S) PROVE RemoveMarker(r) \in Seq(S)
  <2>. DEFINE q == SubSeq(r, 1, LastSolid(r) - 1)
  <2>1. LastSolid(r) - 1 \in Int /\ LastSolid(r) - 1 <= Len(r)
    BY LastSolidType
  <2>2. q \in Seq(S)
    BY <2>1, PrefixType
  <2>. HIDE DEF q
  <2>3. LastSolid(q) \in Int /\ LastSolid(q) <= Len(q)
    BY <2>2, LastSolidType
  <2>4. TrimEnd(q) \in Seq(S)
    BY <2>2, <2>3, PrefixType DEF TrimEnd
  <2>. QED  BY <2>4 DEF RemoveMarker, q
<1>. DEFINE inner == IF GroupOf(s) = NoGroup THEN s ELSE RemoveMarker(s)
<1>2. inner \in Seq(S)
  BY <1>1
<1>3. NormalizeLine(s).content = IF KindOf(inner) = "NORMAL" THEN inner ELSE RemoveMarker(inner)
  BY DEF NormalizeLine
<1>. HIDE DEF inner
<1>. QED  BY <1>1, <1>2, <1>3

\* The lines of the text, their contents, and the gaps in them.
LEMMA LineFacts ==
  ASSUME text \in Seq(Char), NEW n \in DOMAIN Lines
  PROVE  /\ NormalizeLine(Lines[n]).content \in Seq(Char)
         /\ GapsFrom(NormalizeLine(Lines[n]).content, 1, FindAll(NormalizeLine(Lines[n]).content))
         /\ Len(NormalizeLine(Lines[n]).content) \in Nat
<1>1. Lines[n] \in Seq(Char)
  BY SplitType DEF Lines, LinesOf
<1>2. NormalizeLine(Lines[n]).content \in Seq(Char)
  BY <1>1, ContentType
<1>. QED  BY <1>2, FindAllGaps

\* The gaps that findAll finds are those a search from left to right without overlap
\* must find, in lines of any length.
THEOREM GapsFoundAreLeftmost == Spec => []GapsAreLeftmost
<1>1. ASSUME text \in Seq(Char), NEW n \in DOMAIN Lines
      PROVE  LET s == NormalizeLine(Lines[n]).content
                 R == FindAll(s)
             IN /\ \A k \in DOMAIN R : IsGap(s, R[k].begin, R[k].end)
                /\ \A k \in 1 .. Len(R) - 1 : R[k].end < R[k + 1].begin
                /\ \A i, j \in DOMAIN s : IsGap(s, i, j) =>
                     \E k \in DOMAIN R : R[k].begin <= i /\ i <= R[k].end
  <2>. DEFINE s == NormalizeLine(Lines[n]).content
              R == FindAll(s)
  <2>1. s \in Seq(Char) /\ GapsFrom(s, 1, R)
    BY <1>1, LineFacts
  <2>. HIDE DEF s, R
  <2>2. DOMAIN s = 1 .. Len(s) /\ DOMAIN R = 1 .. Len(R)
    BY <2>1 DEF GapsFrom
  <2>3. /\ \A k \in DOMAIN R : IsGap(s, R[k].begin, R[k].end)
        /\ \A k \in 1 .. Len(R) - 1 : R[k].end < R[k + 1].begin
        /\ \A i, j \in DOMAIN s : IsGap(s, i, j) =>
             \E k \in DOMAIN R : R[k].begin <= i /\ i <= R[k].end
    BY <2>1, <2>2 DEF GapsFrom
  <2>. QED  BY <2>3 DEF s, R
<1>2. text \in Seq(Char) => GapsAreLeftmost
  BY <1>1 DEF GapsAreLeftmost
<1>. QED  BY <1>2, TextType, PTL

-----------------------------------------------------------------------------
(***************************************************************************)
(* The path of vertices and edges.                                         *)
(***************************************************************************)

\* One element in front of a list and one behind it.
LEMMA SandwichFacts ==
  ASSUME NEW S, NEW b \in S, NEW e \in S, NEW xs \in Seq(S), NEW n \in Nat, Len(xs) = n
  PROVE  /\ Sandwich(b, xs, e) \in Seq(S) /\ Len(Sandwich(b, xs, e)) = n + 2
         /\ Sandwich(b, xs, e)[1] = b /\ Sandwich(b, xs, e)[n + 2] = e
         /\ \A i \in 1 .. n : Sandwich(b, xs, e)[i + 1] = xs[i]
<1>. DEFINE y == Cat(<<b>>, xs)
            z == Cat(y, <<e>>)
            m == n + 1
<1>1. y \in Seq(S) /\ Len(y) = m /\ y[1] = b /\ \A i \in 1 .. n : y[i + 1] = xs[i]
  BY OneInFront
<1>2. m \in Nat /\ 1 \in 1 .. m /\ \A i \in 1 .. n : i + 1 \in 1 .. m
  OBVIOUS
<1>3. Sandwich(b, xs, e) = z
  BY DEF Sandwich, Cat
<1>. HIDE DEF y, m
<1>4. z \in Seq(S) /\ Len(z) = m + 1 /\ z[m + 1] = e /\ \A k \in 1 .. m : z[k] = y[k]
  BY <1>1, <1>2, OneBehind
<1>. HIDE DEF z
<1>5. m + 1 = n + 2
  BY DEF m
<1>. QED  BY <1>1, <1>2, <1>3, <1>4, <1>5

\* p is the path along X up to its vertex k + 1: the edge to a vertex, the vertex, the
\* edge to the next one.
IsPath(p, X, k) ==
  /\ Len(p) = 2 * k - 1
  /\ \A i \in 1 .. k : p[2 * i - 1] = <<X[i], X[i + 1]>>
  /\ \A i \in 1 .. k - 1 : p[2 * i] = <<X[i + 1]>>

\* Sequences of one and two elements.
LEMMA Pairs ==
  ASSUME NEW a, NEW b
  PROVE  <<a>> \o <<b>> = <<a, b>> /\ <<>> \o <<b>> = <<b>>
<1>. DEFINE S == {a, b}
            s == <<b>>
            w == Cat(<<a>>, s)
            n == 1
<1>1. a \in S /\ s \in Seq(S) /\ n \in Nat /\ Len(s) = n /\ s[1] = b
  OBVIOUS
<1>2. <<>> \o s = s
  BY <1>1, ConcatEmptySeq
<1>3. w \in Seq(S) /\ Len(w) = n + 1 /\ w[1] = a /\ \A k \in 1 .. n : w[k + 1] = s[k]
  <2>. HIDE DEF S, s, n
  <2>. QED  BY <1>1, OneInFront
<1>. HIDE DEF w
<1>4. w = <<a, b>>
  <2>1. Len(w) = 2 /\ w[1] = a /\ w[2] = b
    BY <1>1, <1>3
  <2>2. w = [i \in 1 .. 2 |-> w[i]]
    BY <1>3, <2>1
  <2>3. <<a, b>> = [i \in 1 .. 2 |-> <<a, b>>[i]] /\ <<a, b>>[1] = a /\ <<a, b>>[2] = b
    OBVIOUS
  <2>4. \A i \in 1 .. 2 : i = 1 \/ i = 2
    OBVIOUS
  <2>. QED  BY <2>1, <2>2, <2>3, <2>4
<1>. QED  BY <1>2, <1>4 DEF w, Cat

\* mapPath returns the path along all of them.
LEMMA MapPathFacts ==
  ASSUME NEW S, NEW b \in S, NEW e \in S, NEW xs \in Seq(S), NEW n \in Nat, Len(xs) = n
  PROVE  /\ MapPath(xs, b, e) \in Seq(Seq(S))
         /\ IsPath(MapPath(xs, b, e), Sandwich(b, xs, e), n + 1)
<1>. DEFINE X == Sandwich(b, xs, e)
            V(i) == << <<X[i]>> >>
            E(i) == << <<X[i], X[i + 1]>> >>
            tt == [i \in 1 .. n + 1 |-> (IF i > 1 THEN V(i) ELSE <<>>) \o E(i)]
            T == Seq(S)
            P == {k \in Nat : k <= n => IsPath(Flat(tt, k + 1), X, k + 1)}
<1>1. X \in Seq(S) /\ Len(X) = n + 2
  BY SandwichFacts
<1>2. MapPath(xs, b, e) = FlattenSeq(tt)
  <2>1. Len(X) - 1 = n + 1
    BY <1>1
  <2>. QED  BY <2>1 DEF MapPath
<1>. HIDE DEF X
<1>3. ASSUME NEW i \in 1 .. n + 1
      PROVE  /\ i > 1 => tt[i] = << <<X[i]>>, <<X[i], X[i + 1]>> >>
             /\ i = 1 => tt[i] = << <<X[i], X[i + 1]>> >>
             /\ <<X[i]>> \in T /\ <<X[i], X[i + 1]>> \in T
  <2>1. X[i] \in S /\ X[i + 1] \in S
    BY <1>1
  <2>2. tt[i] = (IF i > 1 THEN V(i) ELSE <<>>) \o E(i)
    OBVIOUS
  <2>. DEFINE v == <<X[i]>>
              w == <<X[i], X[i + 1]>>
  <2>3. <<v>> \o <<w>> = <<v, w>> /\ <<>> \o <<w>> = <<w>>
    <3>. HIDE DEF v, w
    <3>. QED  BY Pairs
  <2>4. i > 1 => tt[i] = << <<X[i]>>, <<X[i], X[i + 1]>> >>
    BY <2>2, <2>3
  <2>5. i = 1 => tt[i] = << <<X[i], X[i + 1]>> >>
    BY <2>2, <2>3
  <2>. QED  BY <2>1, <2>4, <2>5
<1>4. tt \in Seq(Seq(T)) /\ Len(tt) = n + 1
  <2>1. Len(tt) = n + 1 /\ tt = [i \in 1 .. n + 1 |-> tt[i]]
    OBVIOUS
  <2>. HIDE DEF tt, T
  <2>2. ASSUME NEW i \in 1 .. n + 1 PROVE tt[i] \in Seq(T)
    <3>. DEFINE v == <<X[i]>>
                w == <<X[i], X[i + 1]>>
    <3>1. v \in T /\ w \in T /\ (tt[i] = <<v, w>> \/ tt[i] = <<w>>)
      <4>1. i > 1 \/ i = 1
        OBVIOUS
      <4>. QED  BY <1>3, <4>1
    <3>. HIDE DEF v, w, tt, T
    <3>2. <<v, w>> \in Seq(T) /\ <<w>> \in Seq(T)
      BY <3>1
    <3>. QED  BY <3>1, <3>2
  <2>. QED  BY <2>1, <2>2
<1>. HIDE DEF tt, T
<1>5. 0 \in P
  <2>. DEFINE o == 1
  <2>1. tt[o] = << <<X[o], X[o + 1]>> >> /\ <<X[o], X[o + 1]>> \in T
    <3>1. o \in 1 .. n + 1 /\ o = 1
      OBVIOUS
    <3>. HIDE DEF o
    <3>. QED  BY <1>3, <3>1
  <2>2. Flat(tt, 0) = <<>> /\ Flat(tt, 1) = Cat(Flat(tt, 0), tt[1])
    <3>1. o \in 1 .. Len(tt) /\ o - 1 = 0 /\ o = 1
      BY <1>4
    <3>. HIDE DEF o
    <3>. QED  BY <1>4, <3>1, FlatSteps
  <2>3. Flat(tt, 1) = tt[1]
    <3>1. tt[1] \in Seq(T)
      BY <2>1
    <3>2. Cat(<<>>, tt[1]) = tt[1]
      BY <3>1, CatFacts
    <3>. QED  BY <2>2, <3>2
  <2>4. IsPath(tt[1], X, 1)
    BY <2>1 DEF IsPath
  <2>. QED  BY <2>3, <2>4
<1>6. ASSUME NEW j \in Nat, j \in P PROVE j + 1 \in P
  <2>. SUFFICES ASSUME j + 1 <= n PROVE IsPath(Flat(tt, (j + 1) + 1), X, (j + 1) + 1)
    OBVIOUS
  <2>. DEFINE k == j + 1
              m == k + 1
              f == Flat(tt, k)
              g == tt[m]
              v == <<X[m]>>
              w == <<X[m], X[m + 1]>>
              h == Cat(f, g)
  <2>1. k \in 1 .. n /\ m \in 1 .. n + 1 /\ m > 1 /\ k \in 0 .. n + 1 /\ m - 1 = k
    OBVIOUS
  <2>2. IsPath(f, X, k)
    BY <1>6, <2>1
  <2>. HIDE DEF k, m, P
  <2>3. g = <<v, w>> /\ v \in T /\ w \in T
    BY <1>3, <2>1
  <2>4. Flat(tt, m) = h /\ f \in Seq(T)
    <3>1. k = m - 1
      BY <2>1
    <3>. QED  BY <1>4, <2>1, <3>1, FlatSteps
  <2>. HIDE DEF f, g, v, w
  <2>5. g \in Seq(T) /\ Len(g) = 2 /\ g[1] = v /\ g[2] = w /\ Len(f) = 2 * k - 1
    BY <2>2, <2>3 DEF IsPath
  <2>6. /\ Len(h) = Len(f) + Len(g)
        /\ \A i \in 1 .. Len(f) + Len(g) : h[i] = IF i <= Len(f) THEN f[i] ELSE g[i - Len(f)]
    <3>1. \A p, q \in Seq(T) :
            /\ Len(Cat(p, q)) = Len(p) + Len(q)
            /\ \A i \in 1 .. Len(p) + Len(q) : Cat(p, q)[i] = IF i <= Len(p) THEN p[i] ELSE q[i - Len(p)]
      BY CatFacts
    <3>. QED  BY <2>4, <2>5, <3>1
  <2>. HIDE DEF h
  <2>7. /\ Len(h) = 2 * m - 1
        /\ \A i \in 1 .. 2 * k - 1 : h[i] = f[i]
        /\ h[2 * k] = v /\ h[2 * m - 1] = w
    <3>1. /\ 2 * k \in 1 .. Len(f) + Len(g) /\ ~(2 * k <= Len(f)) /\ 2 * k - Len(f) = 1
          /\ 2 * m - 1 \in 1 .. Len(f) + Len(g) /\ ~(2 * m - 1 <= Len(f)) /\ 2 * m - 1 - Len(f) = 2
          /\ \A i \in 1 .. 2 * k - 1 : i \in 1 .. Len(f) + Len(g) /\ i <= Len(f)
      BY <2>1, <2>5
    <3>2. h[2 * k] = v
      BY <2>5, <2>6, <3>1
    <3>3. h[2 * m - 1] = w
      BY <2>5, <2>6, <3>1
    <3>4. \A i \in 1 .. 2 * k - 1 : h[i] = f[i]
      BY <2>6, <3>1
    <3>5. Len(h) = 2 * m - 1
      BY <2>1, <2>5, <2>6
    <3>. QED  BY <3>2, <3>3, <3>4, <3>5
  <2>8. ASSUME NEW i \in 1 .. m PROVE h[2 * i - 1] = <<X[i], X[i + 1]>>
    <3>1. CASE i = m
      BY <2>7, <3>1 DEF w
    <3>2. CASE i # m
      <4>1. i \in 1 .. k /\ 2 * i - 1 \in 1 .. 2 * k - 1
        BY <2>1, <3>2
      <4>2. f[2 * i - 1] = <<X[i], X[i + 1]>>
        BY <2>2, <4>1 DEF IsPath
      <4>. QED  BY <2>7, <4>1, <4>2
    <3>. QED  BY <3>1, <3>2
  <2>9. ASSUME NEW i \in 1 .. m - 1 PROVE h[2 * i] = <<X[i + 1]>>
    <3>1. CASE i = k
      <4>1. m = i + 1
        BY <2>1, <3>1
      <4>. QED  BY <2>7, <3>1, <4>1 DEF v
    <3>2. CASE i # k
      <4>1. i \in 1 .. k - 1 /\ 2 * i \in 1 .. 2 * k - 1
        BY <2>1, <3>2
      <4>2. f[2 * i] = <<X[i + 1]>>
        BY <2>2, <4>1 DEF IsPath
      <4>. QED  BY <2>7, <4>1, <4>2
    <3>. QED  BY <3>1, <3>2
  <2>10. IsPath(h, X, m)
    BY <2>7, <2>8, <2>9 DEF IsPath
  <2>. QED  BY <2>4, <2>10 DEF k, m
<1>. HIDE DEF P
<1>7. n \in P
  BY <1>5, <1>6, Induction
<1>8. IsPath(Flat(tt, n + 1), X, n + 1)
  BY <1>7 DEF P
<1>9. Flat(tt, n + 1) = FlattenSeq(tt)
  BY <1>4, FlatSteps
<1>10. MapPath(xs, b, e) \in Seq(T)
  BY <1>2, <1>4, FlattenSeqType
<1>. QED  BY <1>2, <1>8, <1>9, <1>10 DEF X, T

-----------------------------------------------------------------------------
(***************************************************************************)
(* The nodes of a line, and where they lie in it.                          *)
(***************************************************************************)
BeginGhost    == GapRange(0, 0)
EndGhost(s)   == GapRange(Len(s) + 1, 0)
VerticesOf(s) == Sandwich(BeginGhost, FindAll(s), EndGhost(s))

\* X are m gaps of s, one behind the other, between the ghosts.
AreVertices(X, m, s) ==
  /\ X \in Seq(Ranges) /\ Len(X) = m + 2
  /\ X[1].end = 0 /\ X[m + 2].begin = Len(s) + 1
  /\ \A i \in 1 .. m + 1 : X[i].end < X[i + 1].begin
  /\ \A i \in 1 .. m : X[i + 1].end <= Len(s) /\ IsGap(s, X[i + 1].begin, X[i + 1].end)

\* These are the vertices of the path of a line.
LEMMA VertexFacts ==
  ASSUME NEW S, NEW s \in Seq(S), NEW m \in Nat, m = Len(FindAll(s))
  PROVE  /\ AreVertices(VerticesOf(s), m, s)
         /\ \A i \in 1 .. m : VerticesOf(s)[i + 1] = FindAll(s)[i]
<1>. DEFINE R == FindAll(s)
            X == VerticesOf(s)
            n == Len(s)
<1>1. n \in Nat /\ GapsFrom(s, 1, R) /\ Len(R) = m
  BY FindAllGaps
<1>2. R \in Seq(Ranges) /\ BeginGhost \in Ranges /\ EndGhost(s) \in Ranges
  BY <1>1 DEF GapsFrom, BeginGhost, EndGhost, GapRange, Ranges
<1>. HIDE DEF R
<1>3. /\ X \in Seq(Ranges) /\ Len(X) = m + 2 /\ X[1] = BeginGhost /\ X[m + 2] = EndGhost(s)
      /\ \A i \in 1 .. m : X[i + 1] = R[i]
  BY <1>1, <1>2, SandwichFacts DEF VerticesOf, R
<1>. HIDE DEF X, n
<1>4. X[1].end = 0 /\ X[m + 2].begin = n + 1
  BY <1>3 DEF BeginGhost, EndGhost, GapRange, n
<1>5. ASSUME NEW i \in 1 .. m
      PROVE  X[i + 1].end <= n /\ IsGap(s, X[i + 1].begin, X[i + 1].end) /\ 1 <= X[i + 1].begin
  BY <1>1, <1>3 DEF GapsFrom, n
<1>6. ASSUME NEW i \in 1 .. m + 1 PROVE X[i].end < X[i + 1].begin
  <2>1. \A k \in 1 .. m + 2 : X[k].begin \in Nat /\ X[k].end \in Nat
    <3>1. \A k \in 1 .. m + 2 : X[k] \in Ranges
      BY <1>3
    <3>. QED  BY <3>1 DEF Ranges
  <2>2. CASE i = m + 1
    <3>1. i + 1 = m + 2
      BY <2>2
    <3>2. X[i].end <= n
      <4>1. CASE m = 0
        BY <1>1, <1>4, <2>2, <4>1
      <4>2. CASE m # 0
        <5>1. m \in 1 .. m
          BY <4>2
        <5>. QED  BY <1>5, <2>2, <5>1
      <4>. QED  BY <4>1, <4>2
    <3>. QED  BY <1>1, <1>4, <2>1, <3>1, <3>2
  <2>3. CASE i # m + 1 /\ i = 1
    <3>1. 1 \in 1 .. m
      BY <2>3
    <3>. QED  BY <1>4, <1>5, <2>1, <2>3, <3>1
  <2>4. CASE i # m + 1 /\ i # 1
    <3>. DEFINE k == i - 1
    <3>1. k \in 1 .. m - 1 /\ k \in 1 .. m /\ k + 1 = i /\ i \in 1 .. m
      BY <2>4
    <3>. HIDE DEF k
    <3>2. R[k].end < R[k + 1].begin
      BY <1>1, <3>1 DEF GapsFrom
    <3>. QED  BY <1>3, <3>1, <3>2
  <2>. QED  BY <2>2, <2>3, <2>4
<1>7. AreVertices(X, m, s)
  BY <1>3, <1>4, <1>5, <1>6 DEF AreVertices, n
<1>. QED  BY <1>3, <1>7 DEF R, X

\* N are the texts between the gaps and the gaps of s, in their order.
AreNodes(N, X, m, s) ==
  /\ DOMAIN N = 1 .. 2 * m + 1
  /\ \A i \in 1 .. m + 1 : N[2 * i - 1] = TextNode(SubSeq(s, X[i].end + 1, X[i + 1].begin - 1))
  /\ \A i \in 1 .. m : N[2 * i] = GapNode(SubSeq(s, X[i + 1].begin + 2, X[i + 1].end - 2))

\* parseNormalizedLine returns these nodes.
LEMMA ParsedNodes ==
  ASSUME NEW S, NEW s \in Seq(S), NEW m \in Nat, m = Len(FindAll(s))
  PROVE  AreNodes(ParseNormalizedLine(s), VerticesOf(s), m, s)
<1>. DEFINE R == FindAll(s)
            X == VerticesOf(s)
            p == MapPath(R, BeginGhost, EndGhost(s))
            N == ParseNormalizedLine(s)
            Vertex(v)  == GapNode(SubSeq(s, v.begin + 2, v.end - 2))
            Edge(u, v) == TextNode(SubSeq(s, u.end + 1, v.begin - 1))
<1>1. R \in Seq(Ranges) /\ BeginGhost \in Ranges /\ EndGhost(s) \in Ranges
  BY FindAllGaps DEF GapsFrom, BeginGhost, EndGhost, GapRange, Ranges
<1>2. p \in Seq(Seq(Ranges)) /\ IsPath(p, X, m + 1)
  <2>. HIDE DEF R
  <2>. QED  BY <1>1, MapPathFacts DEF VerticesOf, R
<1>3. N = [i \in DOMAIN p |-> IF Len(p[i]) = 1 THEN Vertex(p[i][1]) ELSE Edge(p[i][1], p[i][2])]
  BY DEF ParseNormalizedLine, BeginGhost, EndGhost
<1>. HIDE DEF p, X, N
<1>4. DOMAIN p = 1 .. 2 * m + 1
  <2>1. Len(p) = 2 * m + 1
    BY <1>2 DEF IsPath
  <2>. QED  BY <1>2, <2>1
<1>5. ASSUME NEW i \in 1 .. m + 1
      PROVE  N[2 * i - 1] = TextNode(SubSeq(s, X[i].end + 1, X[i + 1].begin - 1))
  <2>. DEFINE k == 2 * i - 1
  <2>1. k \in 1 .. 2 * m + 1
    OBVIOUS
  <2>2. p[k] = <<X[i], X[i + 1]>>
    BY <1>2 DEF IsPath
  <2>. HIDE DEF k
  <2>3. Len(p[k]) # 1 /\ p[k][1] = X[i] /\ p[k][2] = X[i + 1]
    BY <2>2
  <2>4. N[k] = Edge(X[i], X[i + 1])
    BY <1>3, <1>4, <2>1, <2>3
  <2>. QED  BY <2>4 DEF k
<1>6. ASSUME NEW i \in 1 .. m
      PROVE  N[2 * i] = GapNode(SubSeq(s, X[i + 1].begin + 2, X[i + 1].end - 2))
  <2>. DEFINE k == 2 * i
  <2>1. k \in 1 .. 2 * m + 1 /\ i \in 1 .. (m + 1) - 1
    OBVIOUS
  <2>2. p[k] = <<X[i + 1]>>
    BY <1>2, <2>1 DEF IsPath
  <2>. HIDE DEF k
  <2>3. Len(p[k]) = 1 /\ p[k][1] = X[i + 1]
    BY <2>2
  <2>4. N[k] = Vertex(X[i + 1])
    BY <1>3, <1>4, <2>1, <2>3
  <2>. QED  BY <2>4 DEF k
<1>. QED  BY <1>3, <1>4, <1>5, <1>6 DEF AreNodes, N, X

\* Each node is a text or a gap, and the first and the last are texts.
LEMMA Parity ==
  ASSUME NEW m \in Nat, NEW k \in 1 .. 2 * m + 1
  PROVE  \/ \E i \in 1 .. m + 1 : k = 2 * i - 1 /\ k % 2 = 1
         \/ \E i \in 1 .. m : k = 2 * i /\ k % 2 = 0
<1>1. CASE k % 2 = 1
  <2>. DEFINE i == (k + 1) \div 2
  <2>1. i \in 1 .. m + 1 /\ k = 2 * i - 1
    BY <1>1
  <2>. QED  BY <1>1, <2>1
<1>2. CASE k % 2 = 0
  <2>. DEFINE i == k \div 2
  <2>1. i \in 1 .. m /\ k = 2 * i
    BY <1>2
  <2>. QED  BY <1>2, <2>1
<1>. QED  BY <1>1, <1>2

\* q is what e gives for the texts between the vertices X and for the vertices.
Follow(q, X, m, n, e) ==
  /\ q = [k \in 1 .. 2 * m + 1 |-> q[k]]
  /\ \A i \in 1 .. m + 1 : q[2 * i - 1] = Mask(n, X[i].end + 1 .. X[i + 1].begin - 1, e)
  /\ \A i \in 1 .. m : q[2 * i] = Mask(n, X[i + 1].begin .. X[i + 1].end, e)

\* Together, it is what e gives for the line.
LEMMA AlongPath ==
  ASSUME NEW S, NEW s, NEW n \in Nat, Len(s) = n, NEW m \in Nat, NEW X, AreVertices(X, m, s),
         NEW e, Pieces(e, n, S), NEW q, Follow(q, X, m, n, e)
  PROVE  FlattenSeq(q) = Mask(n, 1 .. n, e)
<1>. DEFINE l == 2 * m + 1
            c == [k \in 0 .. l |-> IF k % 2 = 0 THEN X[k \div 2 + 1].end
                                                ELSE X[(k + 1) \div 2 + 1].begin - 1]
<1>1. l \in Nat
  OBVIOUS
<1>2. \A i \in 1 .. m + 2 : X[i].begin \in Nat /\ X[i].end \in Nat
  <2>1. \A i \in 1 .. m + 2 : X[i] \in Ranges
    BY DEF AreVertices
  <2>. QED  BY <2>1 DEF Ranges
<1>3. /\ X[1].end = 0 /\ X[m + 2].begin = n + 1
      /\ \A i \in 1 .. m + 1 : X[i].end < X[i + 1].begin
      /\ \A i \in 1 .. m : X[i + 1].begin < X[i + 1].end /\ X[i + 1].end <= n
  BY <1>2 DEF AreVertices, IsGap
<1>4. ASSUME NEW i \in 0 .. m PROVE c[2 * i] = X[i + 1].end
  <2>1. 2 * i \in 0 .. l /\ (2 * i) % 2 = 0 /\ (2 * i) \div 2 = i
    OBVIOUS
  <2>. QED  BY <2>1
<1>5. ASSUME NEW i \in 1 .. m + 1 PROVE c[2 * i - 1] = X[i + 1].begin - 1
  <2>1. 2 * i - 1 \in 0 .. l /\ (2 * i - 1) % 2 = 1 /\ (2 * i - 1 + 1) \div 2 = i
    OBVIOUS
  <2>. QED  BY <2>1
<1>6. c[0] = 0 /\ c[l] = n
  <2>1. c[2 * 0] = X[0 + 1].end
    <3>1. 0 \in 0 .. m
      OBVIOUS
    <3>. QED  BY <1>4, <3>1
  <2>2. c[2 * (m + 1) - 1] = X[m + 1 + 1].begin - 1
    BY <1>5
  <2>3. 2 * (m + 1) - 1 = l /\ m + 1 + 1 = m + 2
    OBVIOUS
  <2>. HIDE DEF c, l
  <2>4. c[l] = X[m + 2].begin - 1
    BY <2>2, <2>3
  <2>. QED  BY <1>3, <2>1, <2>4
<1>7. DOMAIN c = 0 .. l /\ c = [k \in 0 .. l |-> c[k]]
  OBVIOUS
<1>. HIDE DEF c
<1>8. ASSUME NEW i \in 1 .. m + 1
      PROVE  X[i].end \in 0 .. n /\ X[i + 1].begin - 1 \in 0 .. n /\ X[i].end <= X[i + 1].begin - 1
  <2>1. X[i].end \in Nat /\ X[i + 1].begin \in Nat /\ X[i].end < X[i + 1].begin
    BY <1>2, <1>3
  <2>2. X[i + 1].begin - 1 <= n
    <3>1. CASE i = m + 1
      <4>1. i + 1 = m + 2
        BY <3>1
      <4>. QED  BY <1>3, <4>1
    <3>2. CASE i # m + 1
      <4>1. i \in 1 .. m
        BY <3>2
      <4>2. X[i + 1].begin < X[i + 1].end /\ X[i + 1].end <= n /\ X[i + 1].end \in Nat
        BY <1>2, <1>3, <4>1
      <4>. QED  BY <2>1, <4>2
    <3>. QED  BY <3>1, <3>2
  <2>. QED  BY <2>1, <2>2
<1>9. ASSUME NEW k \in 1 .. l
      PROVE  c[k] \in 0 .. n /\ c[k - 1] <= c[k] /\ q[k] = Mask(n, c[k - 1] + 1 .. c[k], e)
  <2>1. ASSUME NEW i \in 1 .. m + 1, k = 2 * i - 1
        PROVE  c[k] \in 0 .. n /\ c[k - 1] <= c[k] /\ q[k] = Mask(n, c[k - 1] + 1 .. c[k], e)
    <3>. DEFINE h == i - 1
    <3>1. h \in 0 .. m /\ 2 * h = k - 1 /\ h + 1 = i
      BY <2>1
    <3>. HIDE DEF h
    <3>2. c[k - 1] = X[i].end
      BY <1>4, <3>1
    <3>3. c[k] = X[i + 1].begin - 1 /\ q[k] = Mask(n, X[i].end + 1 .. X[i + 1].begin - 1, e)
      BY <1>5, <2>1 DEF Follow
    <3>. QED  BY <1>8, <3>2, <3>3
  <2>2. ASSUME NEW i \in 1 .. m, k = 2 * i
        PROVE  c[k] \in 0 .. n /\ c[k - 1] <= c[k] /\ q[k] = Mask(n, c[k - 1] + 1 .. c[k], e)
    <3>1. i \in 0 .. m /\ i \in 1 .. m + 1
      OBVIOUS
    <3>2. c[k - 1] = X[i + 1].begin - 1
      BY <1>5, <2>2, <3>1
    <3>3. c[k] = X[i + 1].end /\ q[k] = Mask(n, X[i + 1].begin .. X[i + 1].end, e)
      BY <1>4, <2>2, <3>1 DEF Follow
    <3>4. /\ X[i + 1].begin \in Nat /\ X[i + 1].end \in Nat
          /\ X[i + 1].begin < X[i + 1].end /\ X[i + 1].end <= n
      <4>1. i + 1 \in 1 .. m + 2
        OBVIOUS
      <4>. QED  BY <1>2, <1>3, <4>1
    <3>5. X[i + 1].begin - 1 + 1 = X[i + 1].begin
      BY <3>4
    <3>. QED  BY <3>2, <3>3, <3>4, <3>5
  <2>. QED  BY <2>1, <2>2, Parity DEF l
<1>10. c \in [0 .. l -> 0 .. n]
  <2>1. \A k \in 0 .. l : k = 0 \/ k \in 1 .. l
    BY <1>1
  <2>2. \A k \in 0 .. l : c[k] \in 0 .. n
    BY <1>6, <1>9, <2>1
  <2>. QED  BY <1>7, <2>2
<1>. HIDE DEF l
<1>11. Cuts(c, l, n)
  BY <1>6, <1>9, <1>10 DEF Cuts
<1>12. q \in Seq(Seq(S)) /\ Len(q) = l
  <2>1. \A A : Mask(n, A, e) \in Seq(S)
    BY MaskedType
  <2>2. \A k \in 1 .. l : q[k] \in Seq(S)
    BY <1>9, <2>1
  <2>3. q = [k \in 1 .. l |-> q[k]]
    BY DEF Follow, l
  <2>. QED  BY <1>1, <2>2, <2>3
<1>13. Segments(q, c, l, n, e)
  BY <1>9, <1>12 DEF Segments
<1>. QED  BY <1>1, <1>11, <1>12, <1>13, MaskCuts

\* From h + 1 to k, e gives the characters of s.
Copies(e, s, h, k) == \A i \in h + 1 .. k : e[i] = <<s[i]>>

\* Then it gives the text between.
LEMMA TextSegment ==
  ASSUME NEW S, NEW s \in Seq(S), NEW n \in Nat, Len(s) = n, NEW e, Pieces(e, n, S),
         NEW h \in 0 .. n, NEW k \in h .. n, Copies(e, s, h, k)
  PROVE  Mask(n, h + 1 .. k, e) = SubSeq(s, h + 1, k)
<1>. DEFINE t == SubSeq(s, h + 1, k)
            l == k - h
<1>1. t \in Seq(S) /\ Len(t) = l /\ \A i \in 1 .. l : t[i] = s[h + i]
  OBVIOUS
<1>2. l \in Nat /\ h \in Nat /\ h + l = k /\ h + l <= n /\ \A i \in 1 .. l : h + i \in h + 1 .. k
  OBVIOUS
<1>. HIDE DEF t, l
<1>3. Singles(e, h, t)
  BY <1>1, <1>2 DEF Singles, Copies
<1>4. Mask(n, h + 1 .. h + l, e) = t
  <2>1. h + Len(t) <= n
    BY <1>1, <1>2
  <2>2. Mask(n, h + 1 .. h + Len(t), e) = t
    BY <1>1, <1>2, <1>3, <2>1, MaskSegment
  <2>. QED  BY <1>1, <2>2
<1>. QED  BY <1>2, <1>4 DEF t

-----------------------------------------------------------------------------
(***************************************************************************)
(* A parsed line is still the line.                                        *)
(***************************************************************************)
Spelled(node) == IF node.type = "gap" THEN Underscores(2) \o node.content \o Underscores(2)
                                      ELSE node.content

\* The positions a vertex and a text can have in a line.
LEMMA VertexRange ==
  ASSUME NEW s, NEW n \in Nat, Len(s) = n, NEW m \in Nat, NEW X, AreVertices(X, m, s)
  PROVE  /\ \A i \in 1 .. m + 1 :
              X[i].end \in 0 .. n /\ X[i + 1].begin - 1 \in X[i].end .. n /\ X[i + 1].begin \in Nat
         /\ \A i \in 1 .. m : X[i + 1].begin \in 1 .. n /\ X[i + 1].end \in 1 .. n
<1>1. \A i \in 1 .. m + 2 : X[i].begin \in Nat /\ X[i].end \in Nat
  <2>1. \A i \in 1 .. m + 2 : X[i] \in Ranges
    BY DEF AreVertices
  <2>. QED  BY <2>1 DEF Ranges
<1>2. ASSUME NEW i \in 1 .. m
      PROVE  /\ X[i].end < X[i + 1].begin /\ X[i + 1].begin < X[i + 1].end /\ X[i + 1].end <= n
             /\ X[i + 1].begin \in 1 .. n /\ X[i + 1].end \in 1 .. n
  <2>1. i \in 1 .. m + 2 /\ i + 1 \in 1 .. m + 2 /\ i \in 1 .. m + 1
    OBVIOUS
  <2>2. PICK h \in Nat, b \in Nat, k \in Nat : h = X[i].end /\ b = X[i + 1].begin /\ k = X[i + 1].end
    BY <1>1, <2>1
  <2>3. h < b /\ k <= n /\ IsGap(s, b, k)
    BY <2>1, <2>2 DEF AreVertices
  <2>4. b < k /\ b \in 1 .. n /\ k \in 1 .. n
    BY <2>3 DEF IsGap
  <2>. QED  BY <2>2, <2>3, <2>4
<1>3. ASSUME NEW i \in 1 .. m + 1
      PROVE  X[i].end \in 0 .. n /\ X[i + 1].begin - 1 \in X[i].end .. n /\ X[i + 1].begin \in Nat
  <2>1. X[i].end \in Nat /\ X[i + 1].begin \in Nat /\ X[i].end < X[i + 1].begin
    <3>1. i \in 1 .. m + 2 /\ i + 1 \in 1 .. m + 2
      OBVIOUS
    <3>. QED  BY <1>1, <3>1 DEF AreVertices
  <2>2. X[i + 1].begin - 1 <= n
    <3>1. CASE i = m + 1
      <4>1. i + 1 = m + 2
        BY <3>1
      <4>. QED  BY <4>1 DEF AreVertices
    <3>2. CASE i # m + 1
      <4>1. i \in 1 .. m
        BY <3>2
      <4>2. X[i + 1].begin \in 1 .. n
        BY <1>2, <4>1
      <4>. QED  BY <4>2
    <3>. QED  BY <3>1, <3>2
  <2>. QED  BY <2>1, <2>2
<1>. QED  BY <1>2, <1>3

\* A gap with its markers put back is what stands in the line.
LEMMA GapSpelled ==
  ASSUME NEW S, Underscore \in S, NEW s \in Seq(S), NEW b \in 1 .. Len(s), NEW k \in 1 .. Len(s),
         IsGap(s, b, k)
  PROVE  Underscores(2) \o SubSeq(s, b + 2, k - 2) \o Underscores(2) = SubSeq(s, b, k)
<1>. DEFINE u == Underscores(2)
            t == SubSeq(s, b + 2, k - 2)
            l == k - b - 3
            v == Cat(u, t)
            w == Cat(v, u)
            r == SubSeq(s, b, k)
<1>1. k - b >= 4 /\ l \in Nat /\ l + 4 = k - b + 1
  BY DEF IsGap
<1>2. u \in Seq(S) /\ Len(u) = 2 /\ u[1] = Underscore /\ u[2] = Underscore
  BY DEF Underscores
<1>3. t \in Seq(S) /\ Len(t) = l /\ \A i \in 1 .. l : t[i] = s[b + 1 + i]
  BY <1>1
<1>4. r \in Seq(S) /\ Len(r) = l + 4 /\ \A i \in 1 .. l + 4 : r[i] = s[b - 1 + i]
  BY <1>1
<1>. DEFINE a == 2
            c == 2 + l
<1>5. a \in Nat /\ c \in Nat /\ Len(u) = a /\ a + l = c
  BY <1>1, <1>2
<1>. HIDE DEF u, t, l, r, a
<1>6. /\ v \in Seq(S) /\ Len(v) = c
      /\ \A i \in 1 .. a : v[i] = u[i]
      /\ \A i \in 1 .. l : v[a + i] = t[i]
  BY <1>1, <1>2, <1>3, <1>5, CatAt
<1>. HIDE DEF v, c
<1>7. /\ w \in Seq(S) /\ Len(w) = c + a
      /\ \A i \in 1 .. c : w[i] = v[i]
      /\ \A i \in 1 .. a : w[c + i] = u[i]
  <2>1. v \in Seq(S) /\ u \in Seq(S) /\ c \in Nat /\ a \in Nat /\ Len(v) = c /\ Len(u) = a
    BY <1>2, <1>5, <1>6
  <2>. QED  BY <2>1, CatAt
<1>. HIDE DEF w
<1>8. ASSUME NEW i \in 1 .. l + 4 PROVE w[i] = r[i]
  <2>1. s[b] = Underscore /\ s[b + 1] = Underscore /\ s[k - 1] = Underscore /\ s[k] = Underscore
    BY DEF IsGap
  <2>2. CASE i \in 1 .. 2
    <3>1. i \in 1 .. c /\ i \in 1 .. a /\ (i = 1 \/ i = 2)
      BY <1>1, <2>2 DEF a, c
    <3>2. w[i] = Underscore
      BY <1>2, <1>6, <1>7, <3>1
    <3>3. b - 1 + i = b \/ b - 1 + i = b + 1
      BY <2>2
    <3>. QED  BY <1>4, <2>1, <3>2, <3>3
  <2>3. CASE i \in 3 .. l + 2
    <3>. DEFINE j == i - 2
    <3>1. j \in 1 .. l /\ b + 1 + j = b - 1 + i /\ i \in 1 .. c /\ a + j = i
      BY <1>1, <2>3 DEF a, c
    <3>. HIDE DEF j
    <3>2. w[i] = t[j]
      BY <1>6, <1>7, <3>1
    <3>. QED  BY <1>3, <1>4, <3>1, <3>2
  <2>4. CASE i \in l + 3 .. l + 4
    <3>. DEFINE j == i - (l + 2)
    <3>1. j \in 1 .. a /\ c + j = i /\ (j = 1 \/ j = 2)
      BY <1>1, <2>4 DEF a, c
    <3>. HIDE DEF j
    <3>2. w[i] = Underscore
      BY <1>2, <1>7, <3>1
    <3>3. b - 1 + i = k - 1 \/ b - 1 + i = k
      BY <1>1, <2>4
    <3>. QED  BY <1>4, <2>1, <3>2, <3>3
  <2>. QED  BY <1>1, <2>2, <2>3, <2>4
<1>9. w = [i \in 1 .. l + 4 |-> w[i]] /\ r = [i \in 1 .. l + 4 |-> r[i]]
  <2>1. Len(w) = l + 4
    BY <1>1, <1>7 DEF a, c
  <2>. QED  BY <1>4, <1>7, <2>1
<1>10. w = r
  BY <1>8, <1>9
<1>. QED  BY <1>10 DEF w, v, u, t, r, Cat

\* How a text and a gap are spelled.
LEMMA Spelling ==
  ASSUME NEW t
  PROVE  /\ TextNode(t).type = "text" /\ Spelled(TextNode(t)) = t
         /\ GapNode(t).type = "gap" /\ Spelled(GapNode(t)) = Underscores(2) \o t \o Underscores(2)
BY DEF TextNode, GapNode, Spelled

\* The texts and gaps of a line spell it.
LEMMA LineSpelled ==
  ASSUME NEW S, NEW s \in Seq(S), NEW N, N = ParseNormalizedLine(s)
  PROVE  FlattenSeq([i \in DOMAIN N |-> Spelled(N[i])]) = s
<1>. DEFINE T == S \cup {Underscore}
            n == Len(s)
            m == Len(FindAll(s))
            X == VerticesOf(s)
            e == [i \in 1 .. n |-> <<s[i]>>]
            q == [i \in DOMAIN N |-> Spelled(N[i])]
<1>1. n \in Nat /\ m \in Nat /\ s \in Seq(T) /\ Underscore \in T
  <2>1. Len(FindAll(s)) \in Nat
    BY FindAllGaps DEF GapsFrom
  <2>2. s \in Seq(T)
    OBVIOUS
  <2>. QED  BY <2>1, <2>2
<1>. HIDE DEF T
<1>2. Pieces(e, n, T) /\ \A i \in 1 .. n : e[i] = <<s[i]>>
  BY <1>1 DEF Pieces
<1>. HIDE DEF n, m, e
<1>3. AreVertices(X, m, s) /\ AreNodes(N, X, m, s)
  BY <1>1, VertexFacts, ParsedNodes DEF m
<1>. HIDE DEF X
<1>4. DOMAIN N = 1 .. 2 * m + 1 /\ Len(s) = n
  BY <1>3 DEF AreNodes, n
<1>5. ASSUME NEW i \in 1 .. m + 1
      PROVE  Spelled(N[2 * i - 1]) = Mask(n, X[i].end + 1 .. X[i + 1].begin - 1, e)
  <2>1. PICK h \in 0 .. n, k \in 0 .. n : h = X[i].end /\ k = X[i + 1].begin - 1 /\ k \in h .. n
    <3>1. X[i].end \in 0 .. n /\ X[i + 1].begin - 1 \in X[i].end .. n
      BY <1>1, <1>3, <1>4, VertexRange
    <3>2. X[i + 1].begin - 1 \in 0 .. n
      BY <1>1, <3>1
    <3>. QED  BY <3>1, <3>2
  <2>2. N[2 * i - 1] = TextNode(SubSeq(s, h + 1, k))
    BY <1>3, <2>1 DEF AreNodes
  <2>3. Spelled(N[2 * i - 1]) = SubSeq(s, h + 1, k)
    BY <2>2, Spelling
  <2>4. Copies(e, s, h, k)
    BY <1>1, <1>2 DEF Copies
  <2>5. Mask(n, h + 1 .. k, e) = SubSeq(s, h + 1, k)
    <3>1. Pieces(e, n, T) /\ n \in Nat /\ s \in Seq(T) /\ Len(s) = n /\ k \in h .. n
      BY <1>1, <1>2, <1>4, <2>1
    <3>. QED  BY <2>4, <3>1, TextSegment
  <2>. QED  BY <2>1, <2>3, <2>5
<1>6. ASSUME NEW i \in 1 .. m
      PROVE  Spelled(N[2 * i]) = Mask(n, X[i + 1].begin .. X[i + 1].end, e)
  <2>1. PICK b \in 1 .. n, k \in 1 .. n : b = X[i + 1].begin /\ k = X[i + 1].end
    BY <1>1, <1>3, <1>4, VertexRange
  <2>2. IsGap(s, b, k)
    BY <1>3, <2>1 DEF AreVertices
  <2>3. N[2 * i] = GapNode(SubSeq(s, b + 2, k - 2))
    BY <1>3, <2>1 DEF AreNodes
  <2>4. Spelled(N[2 * i]) = SubSeq(s, b, k)
    <3>1. Spelled(N[2 * i]) = Underscores(2) \o SubSeq(s, b + 2, k - 2) \o Underscores(2)
      BY <2>3, Spelling
    <3>. QED  BY <1>1, <1>4, <2>2, <3>1, GapSpelled
  <2>5. PICK h \in 0 .. n : k \in h .. n /\ h + 1 = b
    <3>1. b - 1 \in 0 .. n /\ k \in b - 1 .. n /\ b - 1 + 1 = b
      BY <1>1, <2>2 DEF IsGap
    <3>. QED  BY <3>1
  <2>6. Copies(e, s, h, k)
    BY <1>1, <1>2, <2>5 DEF Copies
  <2>7. Mask(n, h + 1 .. k, e) = SubSeq(s, h + 1, k)
    BY <1>1, <1>2, <1>4, <2>5, <2>6, TextSegment
  <2>. QED  BY <2>1, <2>4, <2>5, <2>7
<1>7. Follow(q, X, m, n, e)
  <2>1. /\ \A i \in 1 .. m + 1 : 2 * i - 1 \in 1 .. 2 * m + 1
        /\ \A i \in 1 .. m : 2 * i \in 1 .. 2 * m + 1
    BY <1>1
  <2>. QED  BY <1>4, <1>5, <1>6, <2>1 DEF Follow
<1>. HIDE DEF q
<1>8. FlattenSeq(q) = Mask(n, 1 .. n, e)
  BY <1>1, <1>2, <1>3, <1>4, <1>7, AlongPath
<1>9. Mask(n, 1 .. n, e) = s
  <2>. DEFINE h == 0
  <2>1. h \in 0 .. n /\ n \in h .. n /\ h + 1 = 1 /\ Copies(e, s, h, n)
    BY <1>1, <1>2 DEF Copies
  <2>. HIDE DEF h
  <2>2. Mask(n, h + 1 .. n, e) = SubSeq(s, h + 1, n)
    BY <1>1, <1>2, <1>4, <2>1, TextSegment
  <2>3. SubSeq(s, 1, n) = s
    BY DEF n
  <2>. QED  BY <2>1, <2>2, <2>3
<1>. QED  BY <1>8, <1>9 DEF q

\* A parsed line still is the line, whatever gaps it has and wherever they are
\* (parseNormalizedLine over mapPath and findAll).
THEOREM NodesSpellTheirLine == Spec => []NodesSpellLine
<1>1. ASSUME text \in Seq(Char), NEW n \in DOMAIN Lines
      PROVE  LET nodes == Template[n].nodes
                 Spell(node) == IF node.type = "gap"
                                  THEN Underscores(2) \o node.content \o Underscores(2)
                                  ELSE node.content
             IN /\ FlattenSeq([i \in DOMAIN nodes |-> Spell(nodes[i])]) = NormalizeLine(Lines[n]).content
                /\ \A i \in DOMAIN nodes : nodes[i].type = IF i % 2 = 0 THEN "gap" ELSE "text"
  <2>. DEFINE s == NormalizeLine(Lines[n]).content
              N == ParseNormalizedLine(s)
              m == Len(FindAll(s))
              X == VerticesOf(s)
  <2>1. s \in Seq(Char)
    BY <1>1, LineFacts
  <2>2. Template[n].nodes = N
    BY DEF Template, Lines, ParseProgramTemplate, ParseLineTemplate
  <2>. HIDE DEF s, N
  <2>3. FlattenSeq([i \in DOMAIN N |-> Spelled(N[i])]) = s
    BY <2>1, LineSpelled DEF N
  <2>4. m \in Nat /\ AreNodes(N, X, m, s)
    <3>1. Len(s) \in Nat
      BY <2>1
    <3>2. m \in Nat
      BY <3>1, FindAllGaps DEF GapsFrom
    <3>. QED  BY <2>1, <3>2, ParsedNodes DEF N
  <2>. HIDE DEF m, X
  <2>5. ASSUME NEW i \in DOMAIN N PROVE N[i].type = IF i % 2 = 0 THEN "gap" ELSE "text"
    <3>1. i \in 1 .. 2 * m + 1
      BY <2>4 DEF AreNodes
    <3>2. ASSUME NEW j \in 1 .. m + 1 PROVE N[2 * j - 1].type = "text"
      BY <2>4, Spelling DEF AreNodes
    <3>3. ASSUME NEW j \in 1 .. m PROVE N[2 * j].type = "gap"
      BY <2>4, Spelling DEF AreNodes
    <3>4. \/ \E j \in 1 .. m + 1 : i = 2 * j - 1 /\ i % 2 = 1
          \/ \E j \in 1 .. m : i = 2 * j /\ i % 2 = 0
      BY <2>4, <3>1, Parity
    <3>. QED  BY <3>2, <3>3, <3>4
  <2>. QED  BY <2>2, <2>3, <2>5 DEF Spelled, s
<1>2. text \in Seq(Char) => NodesSpellLine
  BY <1>1 DEF NodesSpellLine
<1>. QED  BY <1>2, TextType, PTL

-----------------------------------------------------------------------------
(***************************************************************************)
(* What the students see of a line.                                        *)
(***************************************************************************)

\* The vertices lie apart, not only from the next one.
LEMMA Apart ==
  ASSUME NEW S, NEW s \in Seq(S), NEW m \in Nat, NEW X, AreVertices(X, m, s)
  PROVE  /\ \A i \in 2 .. m + 1 : X[i].begin < X[i].end
         /\ \A i, j \in 1 .. m + 2 : i < j => X[i].end < X[j].begin
<1>1. \A i \in 1 .. m + 2 : X[i].begin \in Nat /\ X[i].end \in Nat
  <2>1. \A i \in 1 .. m + 2 : X[i] \in Ranges
    BY DEF AreVertices
  <2>. QED  BY <2>1 DEF Ranges
<1>2. ASSUME NEW i \in 2 .. m + 1 PROVE X[i].begin < X[i].end
  <2>1. PICK k \in 1 .. m : k + 1 = i
    <3>1. i - 1 \in 1 .. m /\ i - 1 + 1 = i
      OBVIOUS
    <3>. QED  BY <3>1
  <2>2. PICK b \in Nat, e \in Nat : b = X[i].begin /\ e = X[i].end
    BY <1>1
  <2>3. IsGap(s, b, e)
    BY <2>1, <2>2 DEF AreVertices
  <2>4. b < e
    BY <2>3 DEF IsGap
  <2>. QED  BY <2>2, <2>4
<1>. DEFINE P == {d \in Nat : \A i, j \in 1 .. m + 2 : j = i + d + 1 => X[i].end < X[j].begin}
<1>3. 0 \in P
  <2>1. ASSUME NEW i \in 1 .. m + 2, NEW j \in 1 .. m + 2, j = i + 0 + 1
        PROVE  X[i].end < X[j].begin
    <3>1. i \in 1 .. m + 1 /\ j = i + 1
      BY <2>1
    <3>. QED  BY <3>1 DEF AreVertices
  <2>. QED  BY <2>1
<1>4. ASSUME NEW d \in Nat, d \in P PROVE d + 1 \in P
  <2>1. ASSUME NEW i \in 1 .. m + 2, NEW j \in 1 .. m + 2, j = i + (d + 1) + 1
        PROVE  X[i].end < X[j].begin
    <3>1. PICK k \in 1 .. m + 2 : k = i + d + 1 /\ k \in 2 .. m + 1 /\ j = k + 1 /\ k \in 1 .. m + 1
      <4>1. i + d + 1 \in 2 .. m + 1 /\ j = (i + d + 1) + 1
        BY <2>1
      <4>. QED  BY <4>1
    <3>2. X[i].end < X[k].begin
      BY <1>4, <3>1
    <3>3. X[k].begin < X[k].end
      BY <1>2, <3>1
    <3>4. X[k].end < X[j].begin
      BY <3>1 DEF AreVertices
    <3>. QED  BY <1>1, <3>2, <3>3, <3>4
  <2>. QED  BY <2>1
<1>5. Nat \subseteq P
  <2>. HIDE DEF P
  <2>. QED  BY <1>3, <1>4, Induction
<1>6. ASSUME NEW i \in 1 .. m + 2, NEW j \in 1 .. m + 2, i < j PROVE X[i].end < X[j].begin
  <2>1. j - i - 1 \in Nat /\ j = i + (j - i - 1) + 1
    BY <1>6
  <2>. QED  BY <1>5, <2>1
<1>. QED  BY <1>2, <1>6

\* A position in a vertex, and one between the markers of one.
InVertex(X, m, p) == \E i \in 2 .. m + 1 : X[i].begin <= p /\ p <= X[i].end
InAnswer(X, m, p) == \E i \in 2 .. m + 1 : X[i].begin + 2 <= p /\ p <= X[i].end - 2

\* A text has no position in a vertex, and a vertex none in another one.
LEMMA VertexPositions ==
  ASSUME NEW S, NEW s \in Seq(S), NEW m \in Nat, NEW X, AreVertices(X, m, s), NEW p \in Nat
  PROVE  /\ \A i \in 1 .. m + 1 : p \in X[i].end + 1 .. X[i + 1].begin - 1 => ~InVertex(X, m, p)
         /\ \A i, j \in 2 .. m + 1 :
              p \in X[i].begin .. X[i].end /\ X[j].begin <= p /\ p <= X[j].end => i = j
<1>1. \A i \in 1 .. m + 2 : X[i].begin \in Nat /\ X[i].end \in Nat
  <2>1. \A i \in 1 .. m + 2 : X[i] \in Ranges
    BY DEF AreVertices
  <2>. QED  BY <2>1 DEF Ranges
<1>2. /\ \A i \in 2 .. m + 1 : X[i].begin < X[i].end
      /\ \A i, j \in 1 .. m + 2 : i < j => X[i].end < X[j].begin
  BY Apart
<1>3. ASSUME NEW i \in 1 .. m + 1, p \in X[i].end + 1 .. X[i + 1].begin - 1,
             NEW j \in 2 .. m + 1, X[j].begin <= p, p <= X[j].end
      PROVE  FALSE
  <2>1. PICK k \in 2 .. m + 2 : k = i + 1
    OBVIOUS
  <2>2. X[i].end < p /\ p < X[k].begin
    BY <1>1, <1>3, <2>1
  <2>3. CASE j < i
    <3>1. i \in 2 .. m + 1
      BY <2>3
    <3>2. X[j].end < X[i].begin /\ X[i].begin < X[i].end
      BY <1>2, <2>3, <3>1
    <3>. QED  BY <1>1, <1>3, <2>2, <3>2
  <2>4. CASE j = i
    BY <1>1, <1>3, <2>2, <2>4
  <2>5. CASE j = k
    BY <1>1, <1>3, <2>2, <2>5
  <2>6. CASE k < j
    <3>1. k \in 2 .. m + 1
      BY <2>6
    <3>2. X[k].end < X[j].begin /\ X[k].begin < X[k].end
      BY <1>2, <2>6, <3>1
    <3>. QED  BY SMTT(20), <1>1, <1>3, <2>2, <3>2
  <2>. QED  BY <2>1, <2>3, <2>4, <2>5, <2>6
<1>4. ASSUME NEW i \in 2 .. m + 1, NEW j \in 2 .. m + 1, p \in X[i].begin .. X[i].end,
             X[j].begin <= p, p <= X[j].end, i # j
      PROVE  FALSE
  <2>1. CASE i < j
    <3>1. X[i].end < X[j].begin
      BY <1>2, <2>1
    <3>. QED  BY <1>1, <1>4, <3>1
  <2>2. CASE j < i
    <3>1. X[j].end < X[i].begin
      BY <1>2, <2>2
    <3>. QED  BY <1>1, <1>4, <3>1
  <2>. QED  BY <1>4, <2>1, <2>2
<1>. QED  BY <1>3, <1>4 DEF InVertex

\* What a line without its answers has in place of the symbol at p.
HiddenAt(s, X, m, p) ==
  IF ~InAnswer(X, m, p) /\ InVertex(X, m, p) THEN <<>>
  ELSE IF InAnswer(X, m, p) THEN <<Underscore>> ELSE <<s[p]>>

\* In a text it has the symbol, in a marker nothing, in an answer an underscore.
LEMMA HiddenPieces ==
  ASSUME NEW S, NEW s \in Seq(S), NEW m \in Nat, NEW X, AreVertices(X, m, s), NEW p \in Nat
  PROVE  /\ \A i \in 1 .. m + 1 :
              p \in X[i].end + 1 .. X[i + 1].begin - 1 => HiddenAt(s, X, m, p) = <<s[p]>>
         /\ \A i \in 2 .. m + 1 : p \in X[i].begin .. X[i].end =>
              HiddenAt(s, X, m, p) = IF p \in X[i].begin + 2 .. X[i].end - 2
                                       THEN <<Underscore>> ELSE <<>>
<1>1. \A i \in 2 .. m + 1 : X[i].begin \in Nat /\ X[i].end \in Nat
  <2>1. \A i \in 2 .. m + 1 : X[i] \in Ranges
    BY DEF AreVertices
  <2>. QED  BY <2>1 DEF Ranges
<1>2. ASSUME InAnswer(X, m, p) PROVE InVertex(X, m, p)
  <2>1. PICK i \in 2 .. m + 1 : X[i].begin + 2 <= p /\ p <= X[i].end - 2
    BY <1>2 DEF InAnswer
  <2>2. X[i].begin <= p /\ p <= X[i].end
    BY <1>1, <2>1
  <2>. QED  BY <2>2 DEF InVertex
<1>3. ASSUME NEW i \in 1 .. m + 1, p \in X[i].end + 1 .. X[i + 1].begin - 1
      PROVE  HiddenAt(s, X, m, p) = <<s[p]>>
  <2>1. ~InVertex(X, m, p)
    BY <1>3, VertexPositions
  <2>. QED  BY <1>2, <2>1 DEF HiddenAt
<1>4. ASSUME NEW i \in 2 .. m + 1, p \in X[i].begin .. X[i].end
      PROVE  HiddenAt(s, X, m, p) = IF p \in X[i].begin + 2 .. X[i].end - 2
                                      THEN <<Underscore>> ELSE <<>>
  <2>1. X[i].begin <= p /\ p <= X[i].end
    BY <1>1, <1>4
  <2>2. InVertex(X, m, p)
    BY <2>1 DEF InVertex
  <2>3. InAnswer(X, m, p) <=> p \in X[i].begin + 2 .. X[i].end - 2
    <3>1. ASSUME p \in X[i].begin + 2 .. X[i].end - 2 PROVE InAnswer(X, m, p)
      <4>1. X[i].begin + 2 <= p /\ p <= X[i].end - 2
        BY <1>1, <3>1
      <4>. QED  BY <4>1 DEF InAnswer
    <3>2. ASSUME NEW j \in 2 .. m + 1, X[j].begin + 2 <= p, p <= X[j].end - 2
          PROVE  p \in X[i].begin + 2 .. X[i].end - 2
      <4>1. X[j].begin <= p /\ p <= X[j].end
        BY <1>1, <3>2
      <4>2. i = j
        BY <1>4, <4>1, VertexPositions
      <4>. QED  BY <1>1, <3>2, <4>2
    <3>. QED  BY <3>1, <3>2 DEF InAnswer
  <2>. QED  BY <2>2, <2>3 DEF HiddenAt
<1>. QED  BY <1>3, <1>4

\* From b to k, e gives an underscore for each position but the first and last two.
Blanks(e, b, k) ==
  \A p \in b .. k : e[p] = IF p \in b + 2 .. k - 2 THEN <<Underscore>> ELSE <<>>

\* Then it gives those underscores.
LEMMA AnswerHidden ==
  ASSUME NEW S, Underscore \in S, NEW n \in Nat, NEW e, Pieces(e, n, S),
         NEW b \in 1 .. n, NEW k \in 1 .. n, k - b >= 4, Blanks(e, b, k)
  PROVE  Mask(n, b .. k, e) = Underscores(k - b - 3)
<1>. DEFINE A == b .. b + 1
            M == b + 2 .. k - 2
            B == k - 1 .. k
            l == k - b - 3
            h == b + 1
            t == Underscores(l)
<1>1. /\ A \in SUBSET (1 .. n) /\ M \in SUBSET (1 .. n) /\ B \in SUBSET (1 .. n)
      /\ M \cup B \in SUBSET (1 .. n)
      /\ b .. k = A \cup (M \cup B)
      /\ \A i \in A, j \in M \cup B : i < j
      /\ \A i \in M, j \in B : i < j
  OBVIOUS
<1>2. Mask(n, A, e) = <<>>
  <2>1. \A p \in 1 .. n : p \in A => e[p] = <<>>
    BY DEF Blanks
  <2>. QED  BY <2>1, MaskOfEmpty
<1>3. Mask(n, B, e) = <<>>
  <2>1. \A p \in 1 .. n : p \in B => e[p] = <<>>
    BY DEF Blanks
  <2>. QED  BY <2>1, MaskOfEmpty
<1>4. Mask(n, M, e) = t
  <2>1. l \in Nat /\ h \in Nat /\ h + l = k - 2 /\ h + l <= n /\ h + 1 .. h + l = M
        /\ \A i \in 1 .. l : h + i \in b .. k /\ h + i \in b + 2 .. k - 2
    OBVIOUS
  <2>2. t \in Seq(S) /\ Len(t) = l /\ \A i \in 1 .. l : t[i] = Underscore
    BY <2>1 DEF Underscores
  <2>. HIDE DEF t, l, h
  <2>3. Singles(e, h, t)
    BY <2>1, <2>2 DEF Singles, Blanks
  <2>4. h + Len(t) <= n
    BY <2>1, <2>2
  <2>5. Mask(n, h + 1 .. h + Len(t), e) = t
    BY <2>1, <2>2, <2>3, <2>4, MaskSegment
  <2>. QED  BY <2>1, <2>2, <2>5
<1>5. t \in Seq(S)
  <2>1. l \in Nat
    OBVIOUS
  <2>. QED  BY <2>1 DEF Underscores
<1>. HIDE DEF A, M, B, t, l
<1>6. Mask(n, A \cup (M \cup B), e) = Cat(Mask(n, A, e), Mask(n, M \cup B, e))
  BY <1>1, MaskUnion
<1>7. Mask(n, M \cup B, e) = Cat(Mask(n, M, e), Mask(n, B, e))
  BY <1>1, MaskUnion
<1>8. Cat(t, <<>>) = t /\ Cat(<<>>, t) = t
  BY <1>5, CatFacts
<1>. QED  BY <1>1, <1>2, <1>3, <1>4, <1>6, <1>7, <1>8 DEF t, l

\* What a text and a gap are for students.
LEMMA ForStudents ==
  ASSUME NEW t
  PROVE  /\ RealizeNode(TextNode(t), "STUDENT") = t
         /\ RealizeNode(GapNode(t), "STUDENT") = Underscores(Len(t))
BY DEF TextNode, GapNode, RealizeNode

\* The realized nodes of a line are the line without its answers.
LEMMA LineHidden ==
  ASSUME NEW S, NEW s \in Seq(S), NEW N, N = ParseNormalizedLine(s),
         NEW m \in Nat, m = Len(FindAll(s)), NEW X, X = VerticesOf(s)
  PROVE  FlattenSeq([i \in DOMAIN N |-> RealizeNode(N[i], "STUDENT")])
           = FlattenSeq([p \in DOMAIN s |-> HiddenAt(s, X, m, p)])
<1>. DEFINE T == S \cup {Underscore}
            n == Len(s)
            e == [p \in DOMAIN s |-> HiddenAt(s, X, m, p)]
            q == [i \in DOMAIN N |-> RealizeNode(N[i], "STUDENT")]
<1>1. n \in Nat /\ s \in Seq(T) /\ Underscore \in T
  OBVIOUS
<1>2. \A p \in 1 .. n : p \in Nat /\ s[p] \in T /\ e[p] = HiddenAt(s, X, m, p)
  BY <1>1
<1>3. Pieces(e, n, T)
  <2>. HIDE DEF T, e, n
  <2>1. ASSUME NEW p \in 1 .. n PROVE e[p] \in Seq(T)
    <3>1. <<>> \in Seq(T) /\ <<Underscore>> \in Seq(T) /\ <<s[p]>> \in Seq(T)
      BY <1>1, <1>2
    <3>. QED  BY <1>2, <3>1 DEF HiddenAt
  <2>. QED  BY <2>1 DEF Pieces
<1>4. AreVertices(X, m, s) /\ AreNodes(N, X, m, s)
  BY VertexFacts, ParsedNodes
<1>5. DOMAIN N = 1 .. 2 * m + 1
  BY <1>4 DEF AreNodes
<1>6. FlattenSeq(e) = Mask(n, 1 .. n, e)
  <2>1. Masked(n, 1 .. n, e) = [p \in 1 .. n |-> e[p]]
    BY DEF Masked
  <2>2. e = [p \in 1 .. n |-> e[p]]
    BY <1>1
  <2>. QED  BY <2>1, <2>2 DEF Mask
<1>7. Len(s) = n
  OBVIOUS
<1>. HIDE DEF T, n, e
<1>8. ASSUME NEW i \in 1 .. m + 1
      PROVE  q[2 * i - 1] = Mask(n, X[i].end + 1 .. X[i + 1].begin - 1, e)
  <2>1. PICK h \in 0 .. n, k \in 0 .. n : h = X[i].end /\ k = X[i + 1].begin - 1 /\ k \in h .. n
    <3>1. X[i].end \in 0 .. n /\ X[i + 1].begin - 1 \in X[i].end .. n
      BY <1>1, <1>4, <1>7, VertexRange
    <3>2. X[i + 1].begin - 1 \in 0 .. n
      BY <1>1, <3>1
    <3>. QED  BY <3>1, <3>2
  <2>2. N[2 * i - 1] = TextNode(SubSeq(s, h + 1, k))
    BY <1>4, <2>1 DEF AreNodes
  <2>3. q[2 * i - 1] = SubSeq(s, h + 1, k)
    <3>1. 2 * i - 1 \in DOMAIN N
      BY <1>5
    <3>. QED  BY <2>2, <3>1, ForStudents
  <2>4. Copies(e, s, h, k)
    <3>1. ASSUME NEW p \in h + 1 .. k PROVE e[p] = <<s[p]>>
      <4>1. p \in 1 .. n /\ p \in Nat
        BY <1>1
      <4>2. p \in X[i].end + 1 .. X[i + 1].begin - 1
        BY <2>1
      <4>3. HiddenAt(s, X, m, p) = <<s[p]>>
        BY <1>4, <4>1, <4>2, HiddenPieces
      <4>. QED  BY <1>2, <4>1, <4>3
    <3>. QED  BY <3>1 DEF Copies
  <2>5. Mask(n, h + 1 .. k, e) = SubSeq(s, h + 1, k)
    <3>1. Pieces(e, n, T) /\ n \in Nat /\ s \in Seq(T) /\ Len(s) = n /\ k \in h .. n
      BY <1>1, <1>3, <1>7, <2>1
    <3>. QED  BY <2>4, <3>1, TextSegment
  <2>. QED  BY <2>1, <2>3, <2>5
<1>9. ASSUME NEW i \in 1 .. m
      PROVE  q[2 * i] = Mask(n, X[i + 1].begin .. X[i + 1].end, e)
  <2>1. PICK b \in 1 .. n, k \in 1 .. n : b = X[i + 1].begin /\ k = X[i + 1].end
    BY <1>1, <1>4, <1>7, VertexRange
  <2>2. k - b >= 4
    <3>1. IsGap(s, b, k)
      BY <1>4, <2>1 DEF AreVertices
    <3>. QED  BY <3>1 DEF IsGap
  <2>3. N[2 * i] = GapNode(SubSeq(s, b + 2, k - 2))
    BY <1>4, <2>1 DEF AreNodes
  <2>4. q[2 * i] = Underscores(k - b - 3)
    <3>1. 2 * i \in DOMAIN N
      BY <1>5
    <3>2. Len(SubSeq(s, b + 2, k - 2)) = k - b - 3
      BY <1>1, <1>7, <2>2
    <3>. QED  BY <2>3, <3>1, <3>2, ForStudents
  <2>5. Blanks(e, b, k)
    <3>1. ASSUME NEW p \in b .. k
          PROVE  e[p] = IF p \in b + 2 .. k - 2 THEN <<Underscore>> ELSE <<>>
      <4>1. p \in 1 .. n /\ p \in Nat
        BY <1>1
      <4>2. PICK j \in 2 .. m + 1 : j = i + 1
        OBVIOUS
      <4>3. p \in X[j].begin .. X[j].end
        BY <2>1, <4>2
      <4>4. HiddenAt(s, X, m, p) = IF p \in X[j].begin + 2 .. X[j].end - 2
                                     THEN <<Underscore>> ELSE <<>>
        BY <1>4, <4>1, <4>3, HiddenPieces
      <4>. QED  BY <1>2, <2>1, <4>1, <4>2, <4>4
    <3>. QED  BY <3>1 DEF Blanks
  <2>6. Mask(n, b .. k, e) = Underscores(k - b - 3)
    BY <1>1, <1>3, <2>2, <2>5, AnswerHidden
  <2>. QED  BY <2>1, <2>4, <2>6
<1>10. Follow(q, X, m, n, e)
  <2>1. q = [k \in 1 .. 2 * m + 1 |-> q[k]]
    BY <1>5
  <2>. QED  BY <1>8, <1>9, <2>1 DEF Follow
<1>. HIDE DEF q
<1>11. FlattenSeq(q) = Mask(n, 1 .. n, e)
  BY <1>1, <1>3, <1>4, <1>7, <1>10, AlongPath
<1>. QED  BY <1>6, <1>11 DEF q, e

\* HiddenAt is what the property demands.
LEMMA HiddenIs ==
  ASSUME NEW S, NEW s \in Seq(S), NEW m \in Nat, m = Len(FindAll(s))
  PROVE  Hidden(s) = FlattenSeq([p \in DOMAIN s |-> HiddenAt(s, VerticesOf(s), m, p)])
<1>. DEFINE R == FindAll(s)
            X == VerticesOf(s)
            InGap(p)    == \E k \in DOMAIN R : R[k].begin + 2 <= p /\ p <= R[k].end - 2
            InMarker(p) == ~InGap(p) /\ \E k \in DOMAIN R : R[k].begin <= p /\ p <= R[k].end
<1>1. DOMAIN R = 1 .. m
  <2>1. R \in Seq(Ranges)
    BY FindAllGaps DEF GapsFrom
  <2>. QED  BY <2>1
<1>2. \A i \in 1 .. m : X[i + 1] = R[i]
  BY VertexFacts
<1>3. Hidden(s) = FlattenSeq([p \in DOMAIN s |->
         IF InMarker(p) THEN <<>> ELSE IF InGap(p) THEN <<Underscore>> ELSE <<s[p]>>])
  BY DEF Hidden
<1>. HIDE DEF R, X
<1>4. ASSUME NEW p
      PROVE  (InGap(p) <=> InAnswer(X, m, p))
             /\ ((\E k \in DOMAIN R : R[k].begin <= p /\ p <= R[k].end) <=> InVertex(X, m, p))
  <2>1. ASSUME NEW i \in 1 .. m PROVE i + 1 \in 2 .. m + 1 /\ X[i + 1] = R[i]
    BY <1>2
  <2>2. ASSUME NEW i \in 2 .. m + 1 PROVE \E j \in 1 .. m : i = j + 1 /\ X[i] = R[j]
    <3>1. i - 1 \in 1 .. m /\ i - 1 + 1 = i
      OBVIOUS
    <3>. QED  BY <1>2, <3>1
  <2>. QED  BY ZenonT(30), <1>1, <2>1, <2>2 DEF InAnswer, InVertex
<1>5. \A p : (IF InMarker(p) THEN <<>> ELSE IF InGap(p) THEN <<Underscore>> ELSE <<s[p]>>)
               = HiddenAt(s, X, m, p)
  <2>. HIDE DEF InGap
  <2>. QED  BY <1>4 DEF HiddenAt
<1>. HIDE DEF InGap, InMarker
<1>. QED  BY <1>3, <1>5 DEF X

\* Students see no symbol of an answer, and everything else of the line, in lines of any
\* length with any gaps (realizeLineTemplateNodes on what parseNormalizedLine returns).
THEOREM AnswersAreHidden == Spec => []StudentSeesNoAnswer
<1>1. ASSUME text \in Seq(Char), NEW n \in DOMAIN Lines
      PROVE  LET line == [Template[n] EXCEPT !.kind = "NORMAL"]
             IN RealizeLineTemplateNodes(line, "STUDENT") = Hidden(NormalizeLine(Lines[n]).content)
  <2>. DEFINE s == NormalizeLine(Lines[n]).content
              line == [Template[n] EXCEPT !.kind = "NORMAL"]
              N == ParseNormalizedLine(s)
              m == Len(FindAll(s))
  <2>1. s \in Seq(Char) /\ Len(s) \in Nat
    BY <1>1, LineFacts
  <2>2. line.nodes = N
    <3>1. Template[n] = [nodes |-> N, kind |-> NormalizeLine(Lines[n]).kind,
                         group |-> NormalizeLine(Lines[n]).group]
      BY DEF Template, Lines, ParseProgramTemplate, ParseLineTemplate
    <3>. HIDE DEF s, N
    <3>. QED  BY <3>1
  <2>3. m \in Nat
    BY <2>1, FindAllGaps DEF GapsFrom
  <2>. HIDE DEF s, line
  <2>4. RealizeLineTemplateNodes(line, "STUDENT")
          = FlattenSeq([i \in DOMAIN N |-> RealizeNode(N[i], "STUDENT")])
    BY <2>2 DEF RealizeLineTemplateNodes
  <2>. HIDE DEF N, m
  <2>5. FlattenSeq([i \in DOMAIN N |-> RealizeNode(N[i], "STUDENT")])
          = FlattenSeq([p \in DOMAIN s |-> HiddenAt(s, VerticesOf(s), m, p)])
    BY <2>1, <2>3, LineHidden DEF N, m
  <2>6. Hidden(s) = FlattenSeq([p \in DOMAIN s |-> HiddenAt(s, VerticesOf(s), m, p)])
    BY <2>1, <2>3, HiddenIs DEF m
  <2>. QED  BY <2>4, <2>5, <2>6 DEF s, line
<1>2. text \in Seq(Char) => StudentSeesNoAnswer
  BY <1>1 DEF StudentSeesNoAnswer
<1>. QED  BY <1>2, TextType, PTL

-----------------------------------------------------------------------------
(***************************************************************************)
(* The shape of what students and teachers see.                            *)
(***************************************************************************)

\* A line is as long for students as for teachers.
LEMMA LineShape ==
  ASSUME NEW S, NEW s \in Seq(S), NEW N, N = ParseNormalizedLine(s)
  PROVE  LET student == FlattenSeq([i \in DOMAIN N |-> RealizeNode(N[i], "STUDENT")])
             teacher == FlattenSeq([i \in DOMAIN N |-> RealizeNode(N[i], "TEACHER")])
         IN /\ student \in Seq(S \cup {Underscore}) /\ teacher \in Seq(S \cup {Underscore})
            /\ Len(student) = Len(teacher)
<1>. DEFINE T == S \cup {Underscore}
            n == Len(s)
            m == Len(FindAll(s))
            X == VerticesOf(s)
            a == [i \in DOMAIN N |-> RealizeNode(N[i], "STUDENT")]
            b == [i \in DOMAIN N |-> RealizeNode(N[i], "TEACHER")]
<1>1. n \in Nat /\ s \in Seq(T) /\ Underscore \in T
  OBVIOUS
<1>2. m \in Nat
  BY FindAllGaps DEF GapsFrom
<1>3. AreVertices(X, m, s) /\ AreNodes(N, X, m, s)
  BY <1>2, VertexFacts, ParsedNodes
<1>4. DOMAIN N = 1 .. 2 * m + 1 /\ Len(s) = n
  BY <1>3 DEF AreNodes
<1>. HIDE DEF T, n, m, X
<1>5. ASSUME NEW j \in DOMAIN N PROVE \E t \in Seq(T) : N[j] = TextNode(t) \/ N[j] = GapNode(t)
  <2>1. ASSUME NEW i \in 1 .. m + 1, j = 2 * i - 1 PROVE \E t \in Seq(T) : N[j] = TextNode(t)
    <3>1. PICK h \in 0 .. n, k \in 0 .. n : h = X[i].end /\ k = X[i + 1].begin - 1
      <4>1. X[i].end \in 0 .. n /\ X[i + 1].begin - 1 \in X[i].end .. n
        BY <1>1, <1>2, <1>3, <1>4, VertexRange
      <4>2. X[i + 1].begin - 1 \in 0 .. n
        BY <1>1, <4>1
      <4>. QED  BY <4>1, <4>2
    <3>2. N[2 * i - 1] = TextNode(SubSeq(s, h + 1, k))
      BY <1>3, <3>1 DEF AreNodes
    <3>3. SubSeq(s, h + 1, k) \in Seq(T)
      BY <1>1, <1>4
    <3>. QED  BY <2>1, <3>2, <3>3
  <2>2. ASSUME NEW i \in 1 .. m, j = 2 * i PROVE \E t \in Seq(T) : N[j] = GapNode(t)
    <3>1. PICK h \in 1 .. n, k \in 1 .. n : h = X[i + 1].begin /\ k = X[i + 1].end
      BY <1>1, <1>2, <1>3, <1>4, VertexRange
    <3>2. N[2 * i] = GapNode(SubSeq(s, h + 2, k - 2))
      BY <1>3, <3>1 DEF AreNodes
    <3>3. SubSeq(s, h + 2, k - 2) \in Seq(T)
      BY <1>1, <1>4
    <3>. QED  BY <2>2, <3>2, <3>3
  <2>3. (\E i \in 1 .. m + 1 : j = 2 * i - 1) \/ (\E i \in 1 .. m : j = 2 * i)
    BY <1>2, <1>4, Parity
  <2>. QED  BY <2>1, <2>2, <2>3
<1>6. ASSUME NEW j \in 1 .. 2 * m + 1
      PROVE  a[j] \in Seq(T) /\ b[j] \in Seq(T) /\ Len(a[j]) = Len(b[j])
  <2>1. PICK t \in Seq(T) : N[j] = TextNode(t) \/ N[j] = GapNode(t)
    BY <1>4, <1>5
  <2>2. a[j] = t \/ a[j] = Underscores(Len(t))
    BY <1>4, <2>1, ForStudents
  <2>3. b[j] = t
    <3>1. RealizeNode(N[j], "TEACHER") = t
      BY <2>1 DEF RealizeNode, TextNode, GapNode
    <3>. QED  BY <1>4, <3>1
  <2>4. Underscores(Len(t)) \in Seq(T) /\ Len(Underscores(Len(t))) = Len(t)
    BY <1>1 DEF Underscores
  <2>. QED  BY <2>2, <2>3, <2>4
<1>7. a = [j \in 1 .. 2 * m + 1 |-> a[j]] /\ b = [j \in 1 .. 2 * m + 1 |-> b[j]]
  BY <1>4
<1>. HIDE DEF a, b
<1>8. a \in Seq(Seq(T)) /\ b \in Seq(Seq(T)) /\ Len(a) = 2 * m + 1 /\ Len(b) = 2 * m + 1
  <2>. DEFINE l == 2 * m + 1
  <2>1. l \in Nat
    BY <1>2
  <2>2. \A j \in 1 .. l : a[j] \in Seq(T)
    BY <1>6
  <2>3. \A j \in 1 .. l : b[j] \in Seq(T)
    BY <1>6
  <2>4. a = [j \in 1 .. l |-> a[j]] /\ b = [j \in 1 .. l |-> b[j]]
    BY <1>7
  <2>. HIDE DEF l
  <2>5. a \in Seq(Seq(T)) /\ Len(a) = l
    BY <2>1, <2>2, <2>4
  <2>6. b \in Seq(Seq(T)) /\ Len(b) = l
    BY <2>1, <2>3, <2>4
  <2>. QED  BY <2>5, <2>6 DEF l
<1>9. Len(FlattenSeq(a)) = Len(FlattenSeq(b))
  BY <1>6, <1>8, FlattenSeqLength
<1>10. FlattenSeq(a) \in Seq(T) /\ FlattenSeq(b) \in Seq(T)
  BY <1>8, FlattenSeqType
<1>. QED  BY <1>9, <1>10 DEF a, b, T

\* The students' and the teacher's source have the same shape, whatever lines, gaps,
\* kinds and groups a template has (realizeProgramTemplate), so that both documents of
\* an exam are filled or neither is.
THEOREM SourcesHaveTheSameShape == Spec => []SameShape
<1>1. ASSUME text \in Seq(Char), NEW g \in GroupMarker
      PROVE  LET student == RealizeProgramTemplate(Template, "STUDENT", g)
                 teacher == RealizeProgramTemplate(Template, "TEACHER", g)
             IN /\ Len(student) = Len(teacher)
                /\ \A i \in DOMAIN student : Len(student[i]) = Len(teacher[i])
  <2>. DEFINE T == Char \cup {Underscore}
              l == Len(Lines)
              Line(v, i) == RealizeLineTemplateNodes(Template[i], v)
              Has(v, i) == IsRealized(Template[i], v, g)
              a == [i \in DOMAIN Template |-> IF Has("STUDENT", i) THEN <<Line("STUDENT", i)>> ELSE <<>>]
              b == [i \in DOMAIN Template |-> IF Has("TEACHER", i) THEN <<Line("TEACHER", i)>> ELSE <<>>]
  <2>1. DOMAIN Template = 1 .. l /\ l \in Nat
    <3>1. Lines \in Seq(Seq(Char))
      BY <1>1, SplitType DEF Lines, LinesOf
    <3>2. DOMAIN Template = DOMAIN Lines
      BY DEF Template, Lines, ParseProgramTemplate
    <3>. QED  BY <3>1, <3>2
  <2>. HIDE DEF T, l
  <2>2. ASSUME NEW i \in 1 .. l
        PROVE  /\ Line("STUDENT", i) \in Seq(T) /\ Line("TEACHER", i) \in Seq(T)
               /\ Len(Line("STUDENT", i)) = Len(Line("TEACHER", i))
    <3>. DEFINE s == NormalizeLine(Lines[i]).content
                N == ParseNormalizedLine(s)
    <3>1. s \in Seq(Char)
      <4>1. i \in DOMAIN Lines
        BY <2>1 DEF Template, Lines, ParseProgramTemplate
      <4>. QED  BY <1>1, <4>1, LineFacts
    <3>2. Template[i].nodes = N
      <4>1. i \in DOMAIN Lines
        BY <2>1 DEF Template, Lines, ParseProgramTemplate
      <4>. QED  BY <4>1 DEF Template, Lines, ParseProgramTemplate, ParseLineTemplate
    <3>3. \A v : Line(v, i) = FlattenSeq([j \in DOMAIN N |-> RealizeNode(N[j], v)])
      BY <3>2 DEF RealizeLineTemplateNodes
    <3>. HIDE DEF Line, s
    <3>4. /\ FlattenSeq([j \in DOMAIN N |-> RealizeNode(N[j], "STUDENT")]) \in Seq(T)
          /\ FlattenSeq([j \in DOMAIN N |-> RealizeNode(N[j], "TEACHER")]) \in Seq(T)
          /\ Len(FlattenSeq([j \in DOMAIN N |-> RealizeNode(N[j], "STUDENT")]))
               = Len(FlattenSeq([j \in DOMAIN N |-> RealizeNode(N[j], "TEACHER")]))
      <4>. HIDE DEF N
      <4>. QED  BY <3>1, LineShape DEF N, T
    <3>. HIDE DEF N
    <3>. QED  BY <3>3, <3>4
  <2>3. \A i : Has("STUDENT", i) <=> Has("TEACHER", i)
    BY DEF IsRealized
  <2>4. /\ RealizeProgramTemplate(Template, "STUDENT", g) = FlattenSeq(a)
        /\ RealizeProgramTemplate(Template, "TEACHER", g) = FlattenSeq(b)
    BY DEF RealizeProgramTemplate
  <2>. HIDE DEF Line, Has
  <2>5. ASSUME NEW i \in 1 .. l
        PROVE  /\ a[i] \in Seq(Seq(T)) /\ b[i] \in Seq(Seq(T)) /\ SameLengths(a[i], b[i])
    <3>. DEFINE x == Line("STUDENT", i)
                y == Line("TEACHER", i)
    <3>1. x \in Seq(T) /\ y \in Seq(T) /\ Len(x) = Len(y)
      BY <2>2
    <3>2. (a[i] = <<x>> /\ b[i] = <<y>>) \/ (a[i] = <<>> /\ b[i] = <<>>)
      BY <2>1, <2>3
    <3>. HIDE DEF x, y, a, b
    <3>3. SameLengths(<<x>>, <<y>>) /\ SameLengths(<<>>, <<>>)
      BY <3>1 DEF SameLengths
    <3>4. <<x>> \in Seq(Seq(T)) /\ <<y>> \in Seq(Seq(T)) /\ <<>> \in Seq(Seq(T))
      BY <3>1
    <3>. QED  BY <3>2, <3>3, <3>4
  <2>6. a = [i \in 1 .. l |-> a[i]] /\ b = [i \in 1 .. l |-> b[i]]
    BY <2>1
  <2>. HIDE DEF a, b
  <2>7. a \in Seq(Seq(Seq(T))) /\ b \in Seq(Seq(Seq(T))) /\ Len(a) = l /\ Len(b) = l
    <3>1. \A i \in 1 .. l : a[i] \in Seq(Seq(T))
      BY <2>5
    <3>2. \A i \in 1 .. l : b[i] \in Seq(Seq(T))
      BY <2>5
    <3>3. a \in Seq(Seq(Seq(T))) /\ Len(a) = l
      BY <2>1, <2>6, <3>1
    <3>4. b \in Seq(Seq(Seq(T))) /\ Len(b) = l
      BY <2>1, <2>6, <3>2
    <3>. QED  BY <3>3, <3>4
  <2>8. SameLengths(FlattenSeq(a), FlattenSeq(b))
    <3>1. \A i \in 1 .. Len(a) : SameLengths(a[i], b[i])
      BY <2>5, <2>7
    <3>. QED  BY <2>7, <3>1, FlattenSeqShape
  <2>9. FlattenSeq(a) \in Seq(Seq(T))
    BY <2>7, FlattenSeqType
  <2>10. DOMAIN FlattenSeq(a) = 1 .. Len(FlattenSeq(a))
    BY <2>9
  <2>. QED  BY <2>4, <2>8, <2>10 DEF SameLengths
<1>2. text \in Seq(Char) => SameShape
  BY <1>1 DEF SameShape
<1>. QED  BY <1>2, TextType, PTL

-----------------------------------------------------------------------------
(***************************************************************************)
(* The nodes of a paragraph, and what a reader sees of them.               *)
(***************************************************************************)

\* No space follows another one.
NoRow(d) == \A k \in 2 .. Len(d) : ~(d[k] = Space /\ d[k - 1] = Space)

\* The nodes of lines over the characters in S: a text is not empty and has no row of
\* spaces, of which the format would drop all but one.
Solid(S)    == {d \in Seq(S) : d # <<>> /\ NoRow(d)}
NodesOf(S)  == {Text(d) : d \in Solid(S)} \cup {Spaces(n) : n \in Nat} \cup {LineBreak}
SeenOf(S)   == S \cup {Space, LineEnd}
Seen(nodes) == FlattenSeq([i \in DOMAIN nodes |-> Shown(nodes[i])])

\* A symbol, counted spaces and a line break are shown as they are.
LEMMA ShownSimply ==
  ASSUME NEW S
  PROVE  /\ \A n \in Nat : Shown(Spaces(n)) = [i \in 1 .. n |-> Space]
         /\ Shown(LineBreak) = <<LineEnd>>
<1>1. ASSUME NEW n \in Nat PROVE Shown(Spaces(n)) = [i \in 1 .. n |-> Space]
  <2>. DEFINE x == Spaces(n)
  <2>1. x.type = "spaces" /\ x.type # "text" /\ x.count = n
    BY DEF Spaces
  <2>. HIDE DEF x
  <2>2. Shown(x) = [i \in 1 .. x.count |-> Space]
    BY <2>1, Zenon DEF Shown
  <2>. QED  BY <2>1, <2>2 DEF x
<1>2. Shown(LineBreak) = <<LineEnd>>
  <2>1. LineBreak.type # "spaces" /\ LineBreak.type # "text"
    BY DEF LineBreak
  <2>. QED  BY <2>1, Zenon DEF Shown
<1>. QED  BY <1>1, <1>2

\* So is a text without a row of spaces.
LEMMA ShownText ==
  ASSUME NEW S, NEW d \in Seq(S), NoRow(d)
  PROVE  Shown(Text(d)) = d
<1>. DEFINE x == Text(d)
            n == Len(d)
            Dropped(k) == k > 1 /\ d[k] = Space /\ d[k - 1] = Space
            ss == [k \in DOMAIN d |-> IF Dropped(k) THEN <<>> ELSE <<d[k]>>]
            e == [k \in 1 .. n |-> <<d[k]>>]
            h == 0
<1>1. x.type = "text" /\ x.data = d
  BY DEF Text
<1>2. Shown(x) = FlattenSeq(ss)
  <2>. HIDE DEF x
  <2>. QED  BY <1>1, Zenon DEF Shown
<1>3. n \in Nat /\ Len(d) = n /\ h \in 0 .. n /\ n \in h .. n /\ h + 1 = 1
  OBVIOUS
<1>4. ss = e
  <2>1. DOMAIN d = 1 .. n
    OBVIOUS
  <2>2. \A k \in 1 .. n : ~Dropped(k)
    <3>1. \A k \in 1 .. n : k > 1 => k \in 2 .. n
      OBVIOUS
    <3>. QED  BY <3>1 DEF NoRow
  <2>. HIDE DEF Dropped, n
  <2>. QED  BY <2>1, <2>2
<1>5. \A k \in 1 .. n : e[k] = <<d[k]>> /\ d[k] \in S
  OBVIOUS
<1>6. FlattenSeq(e) = Mask(n, 1 .. n, e)
  <2>1. Masked(n, 1 .. n, e) = [k \in 1 .. n |-> e[k]]
    BY DEF Masked
  <2>2. e = [k \in 1 .. n |-> e[k]]
    OBVIOUS
  <2>. QED  BY <2>1, <2>2 DEF Mask
<1>. HIDE DEF e, ss, x, h
<1>7. Pieces(e, n, S) /\ Copies(e, d, h, n)
  <2>1. ASSUME NEW k \in 1 .. n PROVE e[k] \in Seq(S)
    <3>1. d[k] \in S /\ e[k] = <<d[k]>>
      BY <1>5
    <3>. QED  BY <3>1
  <2>2. h = 0
    BY DEF h
  <2>. HIDE DEF n
  <2>3. \A k \in h + 1 .. n : e[k] = <<d[k]>>
    BY <1>3, <1>5, <2>2
  <2>. QED  BY <2>1, <2>3 DEF Pieces, Copies
<1>8. Mask(n, h + 1 .. n, e) = SubSeq(d, h + 1, n)
  <2>. HIDE DEF n
  <2>. QED  BY <1>3, <1>7, TextSegment
<1>9. SubSeq(d, 1, n) = d
  OBVIOUS
<1>. QED  BY <1>2, <1>3, <1>4, <1>6, <1>8, <1>9 DEF x

\* What is shown of a node is a sequence of characters.
LEMMA ShownType ==
  ASSUME NEW S, NEW x \in NodesOf(S)
  PROVE  Shown(x) \in Seq(SeenOf(S))
<1>1. ASSUME NEW d \in Solid(S), x = Text(d) PROVE Shown(x) \in Seq(SeenOf(S))
  <2>1. d \in Seq(S) /\ NoRow(d)
    BY DEF Solid
  <2>2. Shown(x) = d
    BY <1>1, <2>1, ShownText
  <2>. QED  BY <2>1, <2>2 DEF SeenOf
<1>2. ASSUME NEW n \in Nat, x = Spaces(n) PROVE Shown(x) \in Seq(SeenOf(S))
  <2>1. Shown(x) = [i \in 1 .. n |-> Space]
    BY <1>2, ShownSimply
  <2>. QED  BY <2>1 DEF SeenOf
<1>3. ASSUME x = LineBreak PROVE Shown(x) \in Seq(SeenOf(S))
  <2>1. Shown(x) = <<LineEnd>>
    BY <1>3, ShownSimply
  <2>. QED  BY <2>1 DEF SeenOf
<1>. QED  BY <1>1, <1>2, <1>3 DEF NodesOf

\* What is shown of each of some nodes.
ShownOf(nodes) == [i \in DOMAIN nodes |-> Shown(nodes[i])]

\* One sequence for each node, and together a sequence of characters.
LEMMA ShownOfType ==
  ASSUME NEW S, NEW nodes \in Seq(NodesOf(S))
  PROVE  /\ ShownOf(nodes) \in Seq(Seq(SeenOf(S))) /\ Len(ShownOf(nodes)) = Len(nodes)
         /\ \A i \in 1 .. Len(nodes) : ShownOf(nodes)[i] = Shown(nodes[i])
         /\ Seen(nodes) \in Seq(SeenOf(S))
<1>1. \A i \in 1 .. Len(nodes) : Shown(nodes[i]) \in Seq(SeenOf(S))
  BY ShownType
<1>2. ShownOf(nodes) \in Seq(Seq(SeenOf(S))) /\ Len(ShownOf(nodes)) = Len(nodes)
  BY <1>1 DEF ShownOf
<1>3. Seen(nodes) \in Seq(SeenOf(S))
  BY <1>2, FlattenSeqType DEF Seen, ShownOf
<1>. QED  BY <1>2, <1>3 DEF ShownOf

\* Nodes one behind the other are shown one behind the other.
LEMMA SeenCat ==
  ASSUME NEW S, NEW x \in Seq(NodesOf(S)), NEW y \in Seq(NodesOf(S))
  PROVE  Seen(Cat(x, y)) = Cat(Seen(x), Seen(y))
<1>. DEFINE a == Len(x)
            b == Len(y)
            z == Cat(x, y)
            U == Seq(SeenOf(S))
            p == ShownOf(x)
            q == ShownOf(y)
            r == ShownOf(z)
            w == Cat(p, q)
<1>1. a \in Nat /\ b \in Nat /\ Len(x) = a /\ Len(y) = b
  OBVIOUS
<1>2. /\ z \in Seq(NodesOf(S)) /\ Len(z) = a + b
      /\ \A i \in 1 .. a : z[i] = x[i]
      /\ \A i \in 1 .. b : z[a + i] = y[i]
  <2>. HIDE DEF a, b
  <2>. QED  BY <1>1, CatAt
<1>3. p \in Seq(U) /\ Len(p) = a /\ \A i \in 1 .. a : p[i] = Shown(x[i])
  BY ShownOfType
<1>4. q \in Seq(U) /\ Len(q) = b /\ \A i \in 1 .. b : q[i] = Shown(y[i])
  BY ShownOfType
<1>. HIDE DEF z
<1>5. r \in Seq(U) /\ Len(r) = Len(z) /\ \A i \in 1 .. Len(z) : r[i] = Shown(z[i])
  BY <1>2, ShownOfType
<1>. HIDE DEF a, b, U, p, q, r
<1>6. /\ w \in Seq(U) /\ Len(w) = a + b
      /\ \A i \in 1 .. a : w[i] = p[i]
      /\ \A i \in 1 .. b : w[a + i] = q[i]
  BY <1>1, <1>3, <1>4, CatAt
<1>. HIDE DEF w
<1>7. ASSUME NEW i \in 1 .. a + b PROVE r[i] = w[i]
  <2>1. CASE i <= a
    <3>1. i \in 1 .. a
      BY <1>1, <2>1
    <3>. QED  BY <1>2, <1>3, <1>5, <1>6, <3>1
  <2>2. CASE ~(i <= a)
    <3>1. PICK j \in 1 .. b : a + j = i
      <4>1. i - a \in 1 .. b /\ a + (i - a) = i
        BY <1>1, <2>2
      <4>. QED  BY <4>1
    <3>2. r[a + j] = Shown(z[a + j])
      BY <1>2, <1>5, <3>1
    <3>. QED  BY <1>2, <1>4, <1>6, <3>1, <3>2
  <2>. QED  BY <2>1, <2>2
<1>8. r = w
  <2>1. r = [i \in 1 .. a + b |-> r[i]]
    BY <1>1, <1>2, <1>5
  <2>2. w = [i \in 1 .. a + b |-> w[i]]
    BY <1>1, <1>6
  <2>. QED  BY <1>7, <2>1, <2>2
<1>9. FlattenSeq(Cat(p, q)) = Cat(FlattenSeq(p), FlattenSeq(q))
  BY <1>3, <1>4, FlattenSeqCat DEF U
<1>. QED  BY <1>8, <1>9 DEF Seen, ShownOf, p, q, r, w, z

\* A single node is shown as it is.
LEMMA SeenSingle ==
  ASSUME NEW S, NEW x \in NodesOf(S)
  PROVE  Seen(<<x>>) = Shown(x)
<1>. DEFINE y == <<x>>
            ss == ShownOf(y)
            n == 1
<1>1. y \in Seq(NodesOf(S)) /\ Len(y) = 1 /\ y[1] = x
  OBVIOUS
<1>. HIDE DEF y
<1>2. /\ ss \in Seq(Seq(SeenOf(S))) /\ Len(ss) = 1
      /\ \A i \in 1 .. Len(y) : ss[i] = Shown(y[i])
  BY <1>1, ShownOfType
<1>. HIDE DEF ss
<1>3. ss[1] = Shown(x) /\ Shown(x) \in Seq(SeenOf(S))
  BY <1>1, <1>2, ShownType
<1>4. n \in 1 .. Len(ss) /\ n - 1 = 0 /\ Len(ss) = n
  BY <1>2
<1>. HIDE DEF n
<1>5. Flat(ss, n) = Cat(Flat(ss, 0), ss[n]) /\ Flat(ss, 0) = <<>> /\ Flat(ss, n) = FlattenSeq(ss)
  BY <1>2, <1>4, FlatSteps
<1>6. Cat(<<>>, Shown(x)) = Shown(x)
  BY <1>3, CatFacts
<1>. QED  BY <1>3, <1>5, <1>6 DEF Seen, ShownOf, ss, y, n

\* One more node, of which a reader sees c.
LEMMA NodeBehind ==
  ASSUME NEW S, NEW nodes \in Seq(NodesOf(S)), NEW y \in NodesOf(S), NEW c, Shown(y) = <<c>>
  PROVE  /\ Append(nodes, y) \in Seq(NodesOf(S))
         /\ Seen(Append(nodes, y)) = Cat(Seen(nodes), <<c>>)
<1>. DEFINE K == NodesOf(S)
            o == <<y>>
<1>1. Append(nodes, y) = Cat(nodes, o) /\ Append(nodes, y) \in Seq(K)
  BY AppendIs
<1>2. o \in Seq(K)
  OBVIOUS
<1>3. Seen(o) = Shown(y)
  BY SeenSingle
<1>. HIDE DEF o
<1>4. Seen(Cat(nodes, o)) = Cat(Seen(nodes), Seen(o))
  BY <1>2, SeenCat
<1>. QED  BY <1>1, <1>3, <1>4

\* Another last node, of which a reader sees c behind what the last one showed.
LEMMA NodeChanged ==
  ASSUME NEW S, NEW nodes \in Seq(NodesOf(S)), nodes # <<>>, NEW y \in NodesOf(S),
         NEW c \in SeenOf(S), Shown(y) = Cat(Shown(Last(nodes)), <<c>>)
  PROVE  /\ ChangeLast(nodes, y) \in Seq(NodesOf(S))
         /\ Seen(ChangeLast(nodes, y)) = Cat(Seen(nodes), <<c>>)
<1>. DEFINE K == NodesOf(S)
            U == SeenOf(S)
            f == Front(nodes)
            x == Last(nodes)
            o == <<x>>
            p == <<y>>
            e == <<c>>
<1>1. f \in Seq(K) /\ x \in K
  <2>. DEFINE n == Len(nodes)
  <2>1. n \in Nat /\ n >= 1 /\ f = SubSeq(nodes, 1, n - 1) /\ x = nodes[n]
    BY DEF Front, Last
  <2>. QED  BY <2>1
<1>2. nodes = Append(f, x)
  BY DEF Front, Last
<1>. HIDE DEF f, x
<1>3. o \in Seq(K) /\ p \in Seq(K) /\ e \in Seq(U)
  BY <1>1
<1>4. Seen(o) = Shown(x) /\ Seen(p) = Shown(y)
  BY <1>1, SeenSingle
<1>5. nodes = Cat(f, o) /\ Append(f, y) = Cat(f, p) /\ Append(f, y) \in Seq(K)
  BY <1>1, <1>2, AppendIs
<1>6. Shown(x) \in Seq(U)
  BY <1>1, ShownType
<1>7. Shown(y) = Cat(Shown(x), e)
  BY DEF x
<1>. HIDE DEF o, p, e
<1>8. Seen(nodes) = Cat(Seen(f), Seen(o)) /\ Seen(Append(f, y)) = Cat(Seen(f), Seen(p))
  BY <1>1, <1>3, <1>5, SeenCat
<1>9. Seen(f) \in Seq(U)
  BY <1>1, ShownOfType
<1>10. Cat(Seen(f), Cat(Shown(x), e)) = Cat(Cat(Seen(f), Shown(x)), e)
  BY <1>3, <1>6, <1>9, CatFacts
<1>11. ChangeLast(nodes, y) = Append(f, y)
  BY DEF ChangeLast, f
<1>. QED  BY <1>4, <1>5, <1>7, <1>8, <1>10, <1>11 DEF e

\* A text or counted spaces, by the type of the node.
LEMMA NodeKinds ==
  ASSUME NEW S, NEW x \in NodesOf(S)
  PROVE  /\ x.type = "text" => \E d \in Solid(S) : x = Text(d) /\ x.data = d
         /\ x.type = "spaces" => \E n \in Nat : x = Spaces(n) /\ x.count = n
<1>1. CASE \E d \in Solid(S) : x = Text(d)
  BY <1>1 DEF Text
<1>2. CASE \E n \in Nat : x = Spaces(n)
  BY <1>2 DEF Spaces
<1>3. CASE x = LineBreak
  BY <1>3 DEF LineBreak
<1>. QED  BY <1>1, <1>2, <1>3 DEF NodesOf

\* A text with one more character that is not a space behind a space.
LEMMA TextGrows ==
  ASSUME NEW S, NEW d \in Solid(S), NEW c \in S, c = Space => Last(d) # Space
  PROVE  /\ Text(Append(d, c)) \in NodesOf(S)
         /\ Shown(Text(Append(d, c))) = Cat(Shown(Text(d)), <<c>>)
<1>. DEFINE n == Len(d)
            e == Append(d, c)
<1>1. d \in Seq(S) /\ d # <<>> /\ NoRow(d)
  BY DEF Solid
<1>2. n \in Nat /\ n >= 1 /\ Last(d) = d[n]
  BY <1>1 DEF Last
<1>3. /\ e \in Seq(S) /\ Len(e) = n + 1 /\ e[n + 1] = c
      /\ \A k \in 1 .. n : e[k] = d[k]
  BY <1>1
<1>4. e = Cat(d, <<c>>)
  BY <1>1, AppendIs
<1>. HIDE DEF e
<1>5. NoRow(e)
  <2>. SUFFICES ASSUME NEW k \in 2 .. n + 1, e[k] = Space, e[k - 1] = Space PROVE FALSE
    BY <1>3 DEF NoRow
  <2>1. CASE k = n + 1
    <3>1. k - 1 = n /\ n \in 1 .. n
      BY <1>2, <2>1
    <3>. QED  BY <1>2, <1>3, <2>1, <3>1
  <2>2. CASE k # n + 1
    <3>1. k \in 2 .. Len(d) /\ k \in 1 .. n /\ k - 1 \in 1 .. n
      BY <1>2, <2>2
    <3>. QED  BY <1>1, <1>3, <3>1 DEF NoRow
  <2>. QED  BY <2>1, <2>2
<1>6. e # <<>>
  BY <1>2, <1>3
<1>7. Shown(Text(e)) = e /\ Shown(Text(d)) = d
  BY <1>1, <1>3, <1>5, ShownText
<1>8. Text(e) \in NodesOf(S)
  BY <1>3, <1>5, <1>6 DEF Solid, NodesOf
<1>. QED  BY <1>4, <1>7, <1>8 DEF e

\* One character more is shown behind what the nodes showed.
LEMMA CombineStep ==
  ASSUME NEW S, NEW nodes \in Seq(NodesOf(S)), NEW c \in S
  PROVE  /\ CombineNodesWithChar(nodes, c) \in Seq(NodesOf(S))
         /\ Seen(CombineNodesWithChar(nodes, c)) = Cat(Seen(nodes), <<c>>)
<1>. DEFINE x == Last(nodes)
            OnText == LastIs(nodes, "text")
            OnSpaces == LastIs(nodes, "spaces")
            new == CombineNodesWithChar(nodes, c)
<1>1. nodes # <<>> => x \in NodesOf(S)
  BY DEF Last
<1>2. OnText => nodes # <<>> /\ \E d \in Solid(S) : x = Text(d) /\ x.data = d
  BY <1>1, NodeKinds DEF LastIs
<1>3. OnSpaces => ~OnText /\ nodes # <<>> /\ \E n \in Nat : x = Spaces(n) /\ x.count = n
  BY <1>1, NodeKinds DEF LastIs
<1>4. c \in SeenOf(S) /\ Space \in SeenOf(S)
  BY DEF SeenOf
<1>. HIDE DEF OnText, OnSpaces
<1>5. CASE c = Space /\ OnText /\ Last(x.data) = Space
  <2>. DEFINE y == Spaces(1)
  <2>1. new = Append(nodes, y)
    BY <1>3, <1>5, Zenon DEF CombineNodesWithChar, OnText, OnSpaces
  <2>2. y \in NodesOf(S)
    BY DEF NodesOf
  <2>3. Shown(y) = <<c>>
    <3>1. Shown(y) = [i \in 1 .. 1 |-> Space]
      BY ShownSimply
    <3>2. [i \in 1 .. 1 |-> Space] = <<Space>>
      OBVIOUS
    <3>. QED  BY <1>5, <3>1, <3>2
  <2>. HIDE DEF y
  <2>. QED  BY <2>1, <2>2, <2>3, NodeBehind
<1>6. CASE c = Space /\ OnSpaces
  <2>1. PICK n \in Nat : x = Spaces(n) /\ x.count = n
    BY <1>3, <1>6
  <2>. DEFINE y == Spaces(n + 1)
  <2>2. new = ChangeLast(nodes, Spaces(x.count + 1))
    BY <1>3, <1>6, Zenon DEF CombineNodesWithChar, OnText, OnSpaces
  <2>3. y \in NodesOf(S)
    <3>1. n + 1 \in Nat
      OBVIOUS
    <3>. QED  BY <3>1 DEF NodesOf
  <2>4. Shown(y) = Cat(Shown(x), <<c>>)
    <3>. DEFINE s == [i \in 1 .. n |-> Space]
    <3>1. n + 1 \in Nat
      OBVIOUS
    <3>2. Shown(y) = [i \in 1 .. n + 1 |-> Space]
      BY <3>1, ShownSimply
    <3>3. Shown(x) = s
      BY <2>1, ShownSimply
    <3>4. s \in Seq(SeenOf(S))
      BY <1>4
    <3>5. Append(s, Space) = Cat(s, <<Space>>)
      <4>. HIDE DEF s
      <4>. QED  BY <1>4, <3>4, AppendIs
    <3>6. Append(s, Space) = [i \in 1 .. n + 1 |-> Space]
      OBVIOUS
    <3>. QED  BY <1>6, <3>2, <3>3, <3>5, <3>6
  <2>. HIDE DEF y
  <2>5. new = ChangeLast(nodes, y)
    BY <2>1, <2>2 DEF y
  <2>. HIDE DEF new
  <2>6. nodes # <<>>
    BY <1>3, <1>6
  <2>7. new \in Seq(NodesOf(S)) /\ Seen(new) = Cat(Seen(nodes), <<c>>)
    BY <1>4, <2>3, <2>4, <2>5, <2>6, NodeChanged DEF x
  <2>. QED  BY <2>7 DEF new
<1>7. CASE OnText /\ (c = Space => Last(x.data) # Space)
  <2>1. PICK d \in Solid(S) : x = Text(d) /\ x.data = d
    BY <1>2, <1>7
  <2>. DEFINE y == Text(Append(d, c))
  <2>2. new = ChangeLast(nodes, Text(Append(x.data, c)))
    BY <1>3, <1>7, Zenon DEF CombineNodesWithChar, OnText, OnSpaces
  <2>3. y \in NodesOf(S) /\ Shown(y) = Cat(Shown(Text(d)), <<c>>)
    BY <1>7, <2>1, TextGrows
  <2>4. new = ChangeLast(nodes, y) /\ Shown(y) = Cat(Shown(x), <<c>>)
    BY <2>1, <2>2, <2>3
  <2>. HIDE DEF y, new
  <2>5. nodes # <<>>
    BY <1>2, <1>7
  <2>6. new \in Seq(NodesOf(S)) /\ Seen(new) = Cat(Seen(nodes), <<c>>)
    BY <1>4, <2>3, <2>4, <2>5, NodeChanged DEF x
  <2>. QED  BY <2>6 DEF new
<1>8. CASE ~OnText /\ ~(c = Space /\ OnSpaces)
  <2>. DEFINE d == <<c>>
              y == Text(d)
  <2>1. new = Append(nodes, y)
    BY <1>8, Zenon DEF CombineNodesWithChar, OnText, OnSpaces
  <2>2. d \in Seq(S) /\ d # <<>> /\ NoRow(d)
    BY DEF NoRow
  <2>3. y \in NodesOf(S)
    BY <2>2 DEF Solid, NodesOf
  <2>4. Shown(y) = <<c>>
    BY <2>2, ShownText
  <2>. HIDE DEF y
  <2>. QED  BY <2>1, <2>3, <2>4, NodeBehind
<1>. QED  BY <1>5, <1>6, <1>7, <1>8

\* lineToNodes, character by character.
LEMMA LineSteps ==
  ASSUME NEW S, NEW line \in Seq(S)
  PROVE  \E f \in [0 .. Len(line) -> Seq(NodesOf(S))] :
           /\ f[0] = <<>> /\ LineToNodes(line) = f[Len(line)]
           /\ \A i \in 1 .. Len(line) : f[i] = CombineNodesWithChar(f[i - 1], line[i])
<1>. DEFINE n == Len(line)
            X == Seq(NodesOf(S))
            g == [p \in (1 .. n) \X X |-> CombineNodesWithChar(p[2], line[p[1]])]
            b == <<>>
            C == CHOOSE f : f = [i \in 0 .. n |->
                                  IF i = 0 THEN <<>> ELSE CombineNodesWithChar(f[i - 1], line[i])]
<1>1. n \in Nat /\ b \in X /\ \A i \in 1 .. n : line[i] \in S
  OBVIOUS
<1>2. \A i \in 1 .. n : \A x \in X :
        g[<<i, x>>] = CombineNodesWithChar(x, line[i]) /\ g[<<i, x>>] \in X
  BY <1>1, CombineStep
<1>. HIDE DEF g, n, X
<1>3. PICK f \in [0 .. n -> X] : f[0] = b /\ \A i \in 1 .. n : f[i] = g[<<i, f[i - 1]>>]
  <2>1. LeadsOn(g, n, X)
    BY <1>2 DEF LeadsOn
  <2>. HIDE DEF b
  <2>2. \E f : GoesOn(f, b, g, n, X)
    BY <1>1, <2>1, StepByStep
  <2>. QED  BY <2>2 DEF GoesOn
<1>4. \A i \in 1 .. n :
        i - 1 \in 0 .. n /\ f[i - 1] \in X /\ f[i] = CombineNodesWithChar(f[i - 1], line[i])
  <2>1. \A i \in 1 .. n : i - 1 \in 0 .. n
    BY <1>1
  <2>. QED  BY <1>2, <1>3, <2>1
<1>5. f = [i \in 0 .. n |-> IF i = 0 THEN <<>> ELSE CombineNodesWithChar(f[i - 1], line[i])]
  <2>1. \A i \in 0 .. n : i = 0 \/ i \in 1 .. n
    BY <1>1
  <2>2. \A i \in 1 .. n : i # 0
    BY <1>1
  <2>. QED  BY <1>3, <1>4, <2>1, <2>2
<1>6. C = [i \in 0 .. n |-> IF i = 0 THEN <<>> ELSE CombineNodesWithChar(C[i - 1], line[i])]
  BY <1>5
<1>7. LineToNodes(line) = C[n]
  BY DEF LineToNodes, n
<1>. HIDE DEF C
<1>8. C[0] = b /\ \A i \in 1 .. n : C[i] = CombineNodesWithChar(C[i - 1], line[i])
  <2>1. 0 \in 0 .. n /\ \A i \in 1 .. n : i \in 0 .. n /\ i # 0
    BY <1>1
  <2>. QED  BY <1>6, <2>1
<1>9. \A i \in 0 .. n : C[i] \in X
  <2>. DEFINE P == {i \in Nat : i <= n => C[i] \in X}
  <2>1. 0 \in P
    BY <1>1, <1>8
  <2>2. ASSUME NEW i \in Nat, i \in P PROVE i + 1 \in P
    <3>. SUFFICES ASSUME i + 1 <= n PROVE C[i + 1] \in X
      OBVIOUS
    <3>1. i + 1 \in 1 .. n /\ (i + 1) - 1 = i /\ i <= n
      BY <1>1
    <3>2. C[i] \in X /\ line[i + 1] \in S
      BY <1>1, <2>2, <3>1
    <3>3. CombineNodesWithChar(C[i], line[i + 1]) \in X
      BY <3>2, CombineStep DEF X
    <3>. QED  BY <1>8, <3>1, <3>3
  <2>. HIDE DEF P
  <2>3. \A i \in Nat : i \in P
    BY <2>1, <2>2, Induction
  <2>. QED  BY <2>3 DEF P
<1>10. C \in [0 .. n -> X]
  BY <1>6, <1>9
<1>. QED  BY <1>7, <1>8, <1>10 DEF n, X

\* No nodes show nothing.
LEMMA SeenNothing == Seen(<<>>) = <<>>
<1>. DEFINE S == {}
            e == <<>>
<1>1. e \in Seq(NodesOf(S)) /\ Len(e) = 0
  OBVIOUS
<1>. HIDE DEF e
<1>2. ShownOf(e) \in Seq(Seq(SeenOf(S))) /\ Len(ShownOf(e)) = 0
  BY <1>1, ShownOfType
<1>3. FlattenSeq(ShownOf(e)) = <<>>
  BY <1>2, FlatSteps
<1>. QED  BY <1>3 DEF Seen, ShownOf, e

\* The nodes of a line show the line, with every space of it.
LEMMA LineSeen ==
  ASSUME NEW S, NEW line \in Seq(S)
  PROVE  LineToNodes(line) \in Seq(NodesOf(S)) /\ Seen(LineToNodes(line)) = line
<1>. DEFINE n == Len(line)
            X == Seq(NodesOf(S))
<1>1. n \in Nat /\ Len(line) = n /\ \A i \in 1 .. n : line[i] \in S
  OBVIOUS
<1>2. PICK f \in [0 .. n -> X] :
        /\ f[0] = <<>> /\ LineToNodes(line) = f[n]
        /\ \A i \in 1 .. n : f[i] = CombineNodesWithChar(f[i - 1], line[i])
  BY LineSteps
<1>. DEFINE P == {k \in Nat : k <= n => Seen(f[k]) = First(line, k)}
<1>. HIDE DEF n
<1>3. 0 \in P
  <2>1. First(line, 0) = <<>>
    BY DEF First
  <2>. QED  BY <1>2, <2>1, SeenNothing
<1>4. ASSUME NEW k \in Nat, k \in P PROVE k + 1 \in P
  <2>. SUFFICES ASSUME k + 1 <= n PROVE Seen(f[k + 1]) = First(line, k + 1)
    OBVIOUS
  <2>1. k + 1 \in 1 .. n /\ (k + 1) - 1 = k /\ k \in 0 .. n /\ k + 1 <= Len(line)
    BY <1>1
  <2>2. f[k] \in X /\ line[k + 1] \in S /\ f[k + 1] = CombineNodesWithChar(f[k], line[k + 1])
    BY <1>1, <1>2, <2>1
  <2>3. Seen(f[k + 1]) = Cat(Seen(f[k]), <<line[k + 1]>>)
    BY <2>2, CombineStep
  <2>4. First(line, k + 1) = Cat(First(line, k), <<line[k + 1]>>)
    BY <2>1, FirstStep
  <2>5. Seen(f[k]) = First(line, k)
    BY <1>4, <2>1
  <2>. QED  BY <2>3, <2>4, <2>5
<1>. HIDE DEF P
<1>5. n \in P
  BY <1>1, <1>3, <1>4, Induction
<1>6. Seen(f[n]) = First(line, n)
  BY <1>1, <1>5 DEF P
<1>7. First(line, n) = line
  BY <1>1 DEF First
<1>. QED  BY <1>1, <1>2, <1>6, <1>7

\* What is shown of each of some sequences of nodes.
SeenOfAll(xss) == [i \in 1 .. Len(xss) |-> Seen(xss[i])]

\* The nodes of several sequences show what each of them shows.
LEMMA SeenFlat ==
  ASSUME NEW S, NEW xss \in Seq(Seq(NodesOf(S)))
  PROVE  Seen(FlattenSeq(xss)) = FlattenSeq(SeenOfAll(xss))
<1>. DEFINE n == Len(xss)
            K == NodesOf(S)
            U == SeenOf(S)
            yss == SeenOfAll(xss)
            P == {k \in Nat : k <= n => Seen(Flat(xss, k)) = Flat(yss, k)}
<1>1. n \in Nat /\ Len(xss) = n /\ \A i \in 1 .. n : xss[i] \in Seq(K)
  OBVIOUS
<1>2. /\ yss \in Seq(Seq(U)) /\ Len(yss) = n
      /\ \A i \in 1 .. n : yss[i] = Seen(xss[i])
  <2>1. \A i \in 1 .. n : Seen(xss[i]) \in Seq(U)
    BY <1>1, ShownOfType
  <2>. QED  BY <1>1, <2>1 DEF SeenOfAll
<1>. HIDE DEF n, yss
<1>3. /\ Flat(xss, 0) = <<>> /\ Flat(xss, n) = FlattenSeq(xss)
      /\ \A k \in 0 .. n : Flat(xss, k) \in Seq(K)
      /\ \A k \in 1 .. n : Flat(xss, k) = Cat(Flat(xss, k - 1), xss[k])
  BY <1>1, FlatSteps
<1>4. /\ Flat(yss, 0) = <<>> /\ Flat(yss, n) = FlattenSeq(yss)
      /\ \A k \in 1 .. n : Flat(yss, k) = Cat(Flat(yss, k - 1), yss[k])
  BY <1>2, FlatSteps
<1>5. 0 \in P
  BY <1>3, <1>4, SeenNothing
<1>6. ASSUME NEW k \in Nat, k \in P PROVE k + 1 \in P
  <2>. SUFFICES ASSUME k + 1 <= n PROVE Seen(Flat(xss, k + 1)) = Flat(yss, k + 1)
    OBVIOUS
  <2>1. PICK m \in 1 .. n : m = k + 1 /\ m - 1 = k /\ k \in 0 .. n
    <3>1. k + 1 \in 1 .. n /\ (k + 1) - 1 = k /\ k \in 0 .. n
      BY <1>1
    <3>. QED  BY <3>1
  <2>2. Flat(xss, k) \in Seq(K) /\ xss[m] \in Seq(K) /\ Flat(xss, m) = Cat(Flat(xss, k), xss[m])
    BY <1>1, <1>3, <2>1
  <2>3. Seen(Flat(xss, m)) = Cat(Seen(Flat(xss, k)), Seen(xss[m]))
    BY <2>2, SeenCat
  <2>4. Seen(Flat(xss, k)) = Flat(yss, k)
    BY <1>1, <1>6, <2>1
  <2>5. Flat(yss, m) = Cat(Flat(yss, k), yss[m]) /\ yss[m] = Seen(xss[m])
    BY <1>2, <1>4, <2>1
  <2>. QED  BY <2>1, <2>3, <2>4, <2>5
<1>. HIDE DEF P
<1>7. n \in P
  BY <1>1, <1>5, <1>6, Induction
<1>8. Seen(Flat(xss, n)) = Flat(yss, n)
  BY <1>1, <1>7 DEF P
<1>. QED  BY <1>3, <1>4, <1>8 DEF yss

-----------------------------------------------------------------------------
(***************************************************************************)
(* The lines of a text, put together again, are the text.                  *)
(***************************************************************************)

\* The lines, each but the last with sep behind it; join puts them together.
Ended(xs, sep) == [i \in 1 .. Len(xs) |-> IF i # Len(xs) THEN Cat(xs[i], sep) ELSE xs[i]]

\* join is these, one behind the other.
LEMMA JoinIs ==
  ASSUME NEW S, NEW xs \in Seq(Seq(S)), NEW sep \in Seq(S)
  PROVE  /\ Join(xs, sep) = FlattenSeq(Ended(xs, sep))
         /\ Ended(xs, sep) \in Seq(Seq(S)) /\ Len(Ended(xs, sep)) = Len(xs)
<1>1. DOMAIN xs = 1 .. Len(xs)
  OBVIOUS
<1>2. ASSUME NEW i \in 1 .. Len(xs)
      PROVE  (IF i # Len(xs) THEN Cat(xs[i], sep) ELSE xs[i]) \in Seq(S)
  <2>1. xs[i] \in Seq(S)
    OBVIOUS
  <2>2. Cat(xs[i], sep) \in Seq(S)
    BY <2>1, CatFacts
  <2>. QED  BY <2>1, <2>2
<1>3. Ended(xs, sep) \in Seq(Seq(S)) /\ Len(Ended(xs, sep)) = Len(xs)
  BY <1>2 DEF Ended
<1>4. Join(xs, sep) = FlattenSeq(Ended(xs, sep))
  BY <1>1 DEF Join, Ended, Cat
<1>. QED  BY <1>3, <1>4

\* One more character of the text is one more behind the lines put together.
LEMMA JoinStep ==
  ASSUME NEW lines \in LinesOf(Char), NEW c \in Char
  PROVE  FlattenSeq(Ended(AddToLines(lines, c), <<LineEnd>>))
           = Cat(FlattenSeq(Ended(lines, <<LineEnd>>)), <<c>>)
<1>. DEFINE S == Char \cup {LineEnd}
            n == Len(lines)
            new == AddToLines(lines, c)
            sep == <<LineEnd>>
            t == <<c>>
            ss == Ended(lines, sep)
            tt == Ended(new, sep)
<1>1. /\ lines \in Seq(Seq(S)) /\ n \in Nat /\ n # 0 /\ Len(lines) = n
      /\ \A i \in 1 .. n : lines[i] \in Seq(Char) /\ lines[i] \in Seq(S)
  BY DEF LinesOf
<1>2. new \in Seq(Seq(S))
  <2>1. new \in Seq(Seq(Char))
    BY AddToLinesType DEF LinesOf
  <2>. QED  BY <2>1
<1>3. sep \in Seq(S) /\ t \in Seq(S)
  OBVIOUS
<1>4. /\ ss \in Seq(Seq(S)) /\ Len(ss) = n
      /\ \A i \in 1 .. n : ss[i] = IF i # n THEN Cat(lines[i], sep) ELSE lines[i]
  <2>. HIDE DEF sep, S
  <2>1. ss \in Seq(Seq(S)) /\ Len(ss) = Len(lines)
    BY <1>1, <1>3, JoinIs
  <2>. QED  BY <2>1 DEF Ended
<1>5. CASE c = LineEnd
  <2>. DEFINE m == n + 1
  <2>1. new = Append(lines, <<>>)
    BY <1>5 DEF AddToLines
  <2>2. Len(new) = m /\ new[m] = <<>> /\ \A i \in 1 .. n : new[i] = lines[i]
    BY <1>1, <2>1
  <2>3. m \in Nat /\ m \in 1 .. m /\ m - 1 = n /\ n \in 1 .. n /\ n <= m /\ n # m /\ n \in 1 .. m
        /\ \A i \in 1 .. n - 1 : i \in 1 .. n /\ i \in 1 .. m /\ i # n /\ i # m
    BY <1>1
  <2>. HIDE DEF m, new, sep, S, t, ss
  <2>4. /\ tt \in Seq(Seq(S)) /\ Len(tt) = m
        /\ \A i \in 1 .. m : tt[i] = IF i # m THEN Cat(new[i], sep) ELSE new[i]
    <3>1. tt \in Seq(Seq(S)) /\ Len(tt) = Len(new)
      BY <1>2, <1>3, JoinIs
    <3>. QED  BY <2>2, <3>1 DEF Ended
  <2>. HIDE DEF tt, n
  <2>5. (\A i \in 1 .. n - 1 : tt[i] = ss[i]) /\ tt[n] = Cat(ss[n], t)
    <3>1. t = sep
      BY <1>5 DEF t, sep
    <3>. QED  BY <1>4, <2>2, <2>3, <2>4, <3>1
  <2>6. Flat(tt, n) = Cat(FlattenSeq(ss), t)
    <3>1. n <= Len(tt)
      BY <2>3, <2>4
    <3>2. ss \in Seq(Seq(S)) /\ Len(ss) = n /\ tt \in Seq(Seq(S))
      BY <1>4, <2>4
    <3>3. n \in Nat /\ n # 0 /\ t \in Seq(S)
      BY <1>1, <1>3
    <3>. QED  BY <2>5, <3>1, <3>2, <3>3, FlatGrows
  <2>7. Flat(tt, m) = Cat(Flat(tt, n), tt[m]) /\ Flat(tt, m) = FlattenSeq(tt) /\ tt[m] = <<>>
    BY <2>2, <2>3, <2>4, FlatSteps
  <2>8. Flat(tt, n) \in Seq(S)
    <3>1. n \in 0 .. Len(tt)
      BY <1>1, <2>3, <2>4
    <3>. QED  BY <2>4, <3>1, FlatSteps
  <2>9. Cat(Flat(tt, n), <<>>) = Flat(tt, n)
    BY <2>8, CatFacts
  <2>. QED  BY <2>6, <2>7, <2>9 DEF ss, tt, t, new, sep
<1>6. CASE c # LineEnd
  <2>1. new = [lines EXCEPT ![n] = Append(lines[n], c)]
    BY <1>6 DEF AddToLines
  <2>2. Len(new) = n /\ new[n] = Append(lines[n], c) /\ \A i \in 1 .. n - 1 : new[i] = lines[i]
    BY <1>1, <2>1
  <2>3. n \in 1 .. n /\ n <= n /\ \A i \in 1 .. n - 1 : i \in 1 .. n /\ i # n
    BY <1>1
  <2>4. new[n] = Cat(lines[n], t)
    BY <1>1, <2>2, <2>3, AppendIs
  <2>. HIDE DEF new, sep, S, t, ss
  <2>5. /\ tt \in Seq(Seq(S)) /\ Len(tt) = n
        /\ \A i \in 1 .. n : tt[i] = IF i # n THEN Cat(new[i], sep) ELSE new[i]
    <3>1. tt \in Seq(Seq(S)) /\ Len(tt) = Len(new)
      BY <1>2, <1>3, JoinIs
    <3>. QED  BY <2>2, <3>1 DEF Ended
  <2>. HIDE DEF tt, n
  <2>6. (\A i \in 1 .. n - 1 : tt[i] = ss[i]) /\ tt[n] = Cat(ss[n], t)
    BY <1>4, <2>2, <2>3, <2>4, <2>5
  <2>7. Flat(tt, n) = Cat(FlattenSeq(ss), t)
    <3>1. n <= Len(tt)
      BY <2>3, <2>5
    <3>2. ss \in Seq(Seq(S)) /\ Len(ss) = n /\ tt \in Seq(Seq(S))
      BY <1>4, <2>5
    <3>3. n \in Nat /\ n # 0 /\ t \in Seq(S)
      BY <1>1, <1>3
    <3>. QED  BY <2>6, <3>1, <3>2, <3>3, FlatGrows
  <2>8. Flat(tt, n) = FlattenSeq(tt)
    BY <2>5, FlatSteps
  <2>. QED  BY <2>7, <2>8 DEF ss, tt, t, new, sep
<1>. QED  BY <1>5, <1>6

\* The lines of a text, put together again, are the text.
LEMMA LinesOfText ==
  ASSUME NEW str \in Seq(Char)
  PROVE  FlattenSeq(Ended(SplitByNewline(str), <<LineEnd>>)) = str
<1>. DEFINE n == Len(str)
            sep == <<LineEnd>>
<1>1. n \in Nat /\ Len(str) = n /\ \A i \in 1 .. n : str[i] \in Char
  OBVIOUS
<1>2. PICK f \in [0 .. n -> LinesOf(Char)] :
        /\ f[0] = << <<>> >> /\ SplitByNewline(str) = f[n]
        /\ \A i \in 1 .. n : f[i] = AddToLines(f[i - 1], str[i])
  BY SplitSteps
<1>. DEFINE P == {k \in Nat : k <= n => FlattenSeq(Ended(f[k], sep)) = First(str, k)}
<1>. HIDE DEF n
<1>3. 0 \in P
  <2>. DEFINE l == << <<>> >>
              e == Ended(l, sep)
              o == 1
  <2>1. First(str, 0) = <<>>
    BY DEF First
  <2>2. e \in Seq(Seq({})) /\ Len(e) = o /\ o \in Nat /\ o \in 0 .. Len(e)
        /\ \A i \in 1 .. o : e[i] = <<>>
    <3>1. l \in Seq(Seq({})) /\ Len(l) = 1 /\ l[1] = <<>>
      OBVIOUS
    <3>. HIDE DEF l
    <3>2. e = [i \in 1 .. 1 |-> <<>>]
      BY <3>1 DEF Ended
    <3>3. Len([i \in 1 .. 1 |-> <<>>]) = 1 /\ [i \in 1 .. 1 |-> <<>>] \in Seq(Seq({}))
      OBVIOUS
    <3>. HIDE DEF e
    <3>. QED  BY <3>2, <3>3
  <2>. HIDE DEF e, o
  <2>3. Flat(e, o) = <<>>
    BY <2>2, FlatOfEmpty
  <2>4. FlattenSeq(e) = <<>>
    BY <2>2, <2>3, FlatSteps
  <2>. QED  BY <1>2, <2>1, <2>4 DEF e
<1>4. ASSUME NEW k \in Nat, k \in P PROVE k + 1 \in P
  <2>. SUFFICES ASSUME k + 1 <= n PROVE FlattenSeq(Ended(f[k + 1], sep)) = First(str, k + 1)
    OBVIOUS
  <2>. HIDE DEF sep
  <2>1. k + 1 \in 1 .. n /\ (k + 1) - 1 = k /\ k \in 0 .. n /\ k + 1 <= Len(str)
    BY <1>1
  <2>2. f[k] \in LinesOf(Char) /\ str[k + 1] \in Char /\ f[k + 1] = AddToLines(f[k], str[k + 1])
    BY <1>1, <1>2, <2>1
  <2>3. FlattenSeq(Ended(f[k + 1], sep)) = Cat(FlattenSeq(Ended(f[k], sep)), <<str[k + 1]>>)
    BY <2>2, JoinStep DEF sep
  <2>4. First(str, k + 1) = Cat(First(str, k), <<str[k + 1]>>)
    BY <2>1, FirstStep
  <2>5. FlattenSeq(Ended(f[k], sep)) = First(str, k)
    BY <1>4, <2>1
  <2>. QED  BY <2>3, <2>4, <2>5
<1>. HIDE DEF P
<1>5. n \in P
  BY <1>1, <1>3, <1>4, Induction
<1>6. FlattenSeq(Ended(f[n], sep)) = First(str, n)
  BY <1>1, <1>5 DEF P
<1>7. First(str, n) = str
  BY <1>1 DEF First
<1>. QED  BY <1>1, <1>2, <1>6, <1>7

\* The first node is not one of counted spaces: these stand behind a text.
Leads(nodes) == nodes # <<>> => nodes[1].type # "spaces"

\* One more node behind others, or another last node, keeps the first one.
LEMMA FirstStays ==
  ASSUME NEW S, NEW nodes \in Seq(NodesOf(S)), nodes # <<>>, NEW y \in NodesOf(S)
  PROVE  /\ Append(nodes, y)[1] = nodes[1]
         /\ Len(nodes) = 1 => ChangeLast(nodes, y)[1] = y /\ Last(nodes) = nodes[1]
         /\ Len(nodes) # 1 => ChangeLast(nodes, y)[1] = nodes[1]
<1>. DEFINE K == NodesOf(S)
            n == Len(nodes)
<1>1. n \in Nat /\ n >= 1 /\ Len(nodes) = n
  OBVIOUS
<1>2. ChangeLast(nodes, y) = Append(SubSeq(nodes, 1, n - 1), y) /\ Last(nodes) = nodes[n]
  BY DEF ChangeLast, Front, Last
<1>3. nodes \in Seq(K) /\ y \in K
  OBVIOUS
<1>. HIDE DEF K, n
<1>4. Append(nodes, y)[1] = nodes[1]
  BY <1>1, <1>3
<1>5. n = 1 => Append(SubSeq(nodes, 1, n - 1), y)[1] = y
  <2>. SUFFICES ASSUME n = 1 PROVE Append(SubSeq(nodes, 1, 0), y)[1] = y
    BY <1>1
  <2>1. SubSeq(nodes, 1, 0) = <<>>
    BY <1>3
  <2>. QED  BY <1>3, <2>1
<1>6. n # 1 => Append(SubSeq(nodes, 1, n - 1), y)[1] = nodes[1]
  <2>. DEFINE f == SubSeq(nodes, 1, n - 1)
  <2>. SUFFICES ASSUME n # 1 PROVE Append(f, y)[1] = nodes[1]
    OBVIOUS
  <2>1. f \in Seq(K) /\ Len(f) = n - 1 /\ 1 \in 1 .. Len(f) /\ f[1] = nodes[1]
    BY <1>1, <1>3
  <2>. HIDE DEF f
  <2>. QED  BY <1>3, <2>1
<1>. QED  BY <1>1, <1>2, <1>4, <1>5, <1>6 DEF n

\* A character more does not put counted spaces in front.
LEMMA CombineLeads ==
  ASSUME NEW S, NEW nodes \in Seq(NodesOf(S)), Leads(nodes), NEW c \in S
  PROVE  Leads(CombineNodesWithChar(nodes, c))
<1>. DEFINE x == Last(nodes)
            OnText == LastIs(nodes, "text")
            OnSpaces == LastIs(nodes, "spaces")
            new == CombineNodesWithChar(nodes, c)
<1>1. /\ OnText => nodes # <<>> /\ x.type = "text"
      /\ OnSpaces => nodes # <<>> /\ x.type = "spaces"
  BY DEF LastIs
<1>2. /\ nodes # <<>> => x \in NodesOf(S)
      /\ Spaces(1) \in NodesOf(S) /\ \A d : Text(d).type # "spaces"
  BY DEF Last, NodesOf, Text
<1>. HIDE DEF OnText, OnSpaces
<1>3. CASE c = Space /\ OnText /\ Last(x.data) = Space
  <2>1. new = Append(nodes, Spaces(1))
    BY <1>1, <1>3, Zenon DEF CombineNodesWithChar, OnText, OnSpaces
  <2>. HIDE DEF new
  <2>2. new[1] = nodes[1]
    BY <1>1, <1>2, <1>3, <2>1, FirstStays
  <2>. QED  BY <1>1, <1>3, <2>2 DEF Leads, new
<1>4. CASE c = Space /\ OnSpaces
  <2>1. OnSpaces => ~OnText
    BY <1>1
  <2>2. new = ChangeLast(nodes, Spaces(x.count + 1))
    BY <1>4, <2>1, Zenon DEF CombineNodesWithChar, OnText, OnSpaces
  <2>3. PICK n \in Nat : x = Spaces(n) /\ x.count = n
    BY <1>1, <1>2, <1>4, NodeKinds
  <2>4. Spaces(x.count + 1) \in NodesOf(S)
    <3>1. n + 1 \in Nat
      OBVIOUS
    <3>. QED  BY <2>3, <3>1 DEF NodesOf
  <2>. HIDE DEF new
  <2>5. nodes # <<>> /\ nodes[1].type # "spaces" /\ x.type = "spaces"
    BY <1>1, <1>4 DEF Leads
  <2>6. Len(nodes) # 1
    BY <2>4, <2>5, FirstStays DEF x
  <2>7. new[1] = nodes[1]
    BY <2>2, <2>4, <2>5, <2>6, FirstStays
  <2>. QED  BY <2>5, <2>7 DEF Leads, new
<1>5. CASE OnText /\ (c = Space => Last(x.data) # Space)
  <2>1. OnText => ~OnSpaces
    BY <1>1
  <2>. DEFINE y == Text(Append(x.data, c))
  <2>2. new = ChangeLast(nodes, y)
    BY <1>5, <2>1, Zenon DEF CombineNodesWithChar, OnText, OnSpaces
  <2>3. y \in NodesOf(S)
    BY <1>1, <1>2, <1>5, NodeKinds, TextGrows
  <2>4. nodes # <<>> /\ nodes[1].type # "spaces" /\ y.type # "spaces"
    BY <1>1, <1>2, <1>5 DEF Leads
  <2>. HIDE DEF new, y
  <2>5. new[1] = y \/ new[1] = nodes[1]
    BY <2>2, <2>3, <2>4, FirstStays
  <2>. QED  BY <2>4, <2>5 DEF Leads, new
<1>6. CASE ~OnText /\ ~(c = Space /\ OnSpaces)
  <2>. DEFINE d == <<c>>
              y == Text(d)
  <2>1. new = Append(nodes, y)
    BY <1>6, Zenon DEF CombineNodesWithChar, OnText, OnSpaces
  <2>2. d \in Seq(S) /\ d # <<>> /\ NoRow(d)
    BY DEF NoRow
  <2>3. y \in NodesOf(S) /\ y.type # "spaces"
    BY <1>2, <2>2 DEF Solid, NodesOf
  <2>. HIDE DEF new, y
  <2>4. CASE nodes = <<>>
    <3>1. new[1] = y
      BY <2>1, <2>4
    <3>. QED  BY <2>3, <3>1 DEF Leads, new
  <2>5. CASE nodes # <<>>
    <3>1. new[1] = nodes[1] /\ nodes[1].type # "spaces"
      BY <2>1, <2>3, <2>5, FirstStays DEF Leads
    <3>. QED  BY <3>1 DEF Leads, new
  <2>. QED  BY <2>4, <2>5
<1>. QED  BY <1>3, <1>4, <1>5, <1>6

\* The nodes of a line do not begin with counted spaces.
LEMMA LineLeads ==
  ASSUME NEW S, NEW line \in Seq(S)
  PROVE  Leads(LineToNodes(line))
<1>. DEFINE n == Len(line)
            X == Seq(NodesOf(S))
<1>1. n \in Nat /\ Len(line) = n /\ \A i \in 1 .. n : line[i] \in S
  OBVIOUS
<1>2. PICK f \in [0 .. n -> X] :
        /\ f[0] = <<>> /\ LineToNodes(line) = f[n]
        /\ \A i \in 1 .. n : f[i] = CombineNodesWithChar(f[i - 1], line[i])
  BY LineSteps
<1>. DEFINE P == {k \in Nat : k <= n => Leads(f[k])}
<1>. HIDE DEF n
<1>3. 0 \in P
  BY <1>2 DEF Leads
<1>4. ASSUME NEW k \in Nat, k \in P PROVE k + 1 \in P
  <2>. SUFFICES ASSUME k + 1 <= n PROVE Leads(f[k + 1])
    OBVIOUS
  <2>1. k + 1 \in 1 .. n /\ (k + 1) - 1 = k /\ k \in 0 .. n
    BY <1>1
  <2>2. f[k] \in X /\ line[k + 1] \in S /\ f[k + 1] = CombineNodesWithChar(f[k], line[k + 1])
    BY <1>1, <1>2, <2>1
  <2>3. Leads(f[k])
    BY <1>4, <2>1
  <2>. QED  BY <2>2, <2>3, CombineLeads
<1>. HIDE DEF P
<1>5. n \in P
  BY <1>1, <1>3, <1>4, Induction
<1>. QED  BY <1>1, <1>2, <1>5 DEF P

\* Nor do nodes of which each part does not.
LEMMA LeadsCat ==
  ASSUME NEW S, NEW x \in Seq(NodesOf(S)), NEW y \in Seq(NodesOf(S)), Leads(x), Leads(y)
  PROVE  Leads(Cat(x, y))
<1>1. CASE x = <<>>
  <2>1. Cat(x, y) = y
    BY <1>1, CatFacts
  <2>. QED  BY <2>1
<1>2. CASE x # <<>>
  <2>. DEFINE a == Len(x)
              b == Len(y)
  <2>1. a \in Nat /\ b \in Nat /\ Len(x) = a /\ Len(y) = b /\ 1 \in 1 .. a
    BY <1>2
  <2>. HIDE DEF a, b
  <2>2. Cat(x, y)[1] = x[1]
    BY <2>1, CatAt
  <2>. QED  BY <1>2, <2>2 DEF Leads
<1>. QED  BY <1>1, <1>2

\* Nor do those of several such sequences.
LEMMA LeadsFlat ==
  ASSUME NEW S, NEW xss \in Seq(Seq(NodesOf(S))), \A i \in 1 .. Len(xss) : Leads(xss[i])
  PROVE  Leads(FlattenSeq(xss))
<1>. DEFINE n == Len(xss)
            K == NodesOf(S)
            P == {k \in Nat : k <= n => Leads(Flat(xss, k))}
<1>1. n \in Nat /\ Len(xss) = n /\ \A i \in 1 .. n : xss[i] \in Seq(K) /\ Leads(xss[i])
  OBVIOUS
<1>. HIDE DEF n
<1>2. /\ Flat(xss, 0) = <<>> /\ Flat(xss, n) = FlattenSeq(xss)
      /\ \A k \in 0 .. n : Flat(xss, k) \in Seq(K)
      /\ \A k \in 1 .. n : Flat(xss, k) = Cat(Flat(xss, k - 1), xss[k])
  BY <1>1, FlatSteps
<1>3. 0 \in P
  BY <1>2 DEF Leads
<1>4. ASSUME NEW k \in Nat, k \in P PROVE k + 1 \in P
  <2>. SUFFICES ASSUME k + 1 <= n PROVE Leads(Flat(xss, k + 1))
    OBVIOUS
  <2>1. PICK m \in 1 .. n : m = k + 1 /\ m - 1 = k /\ k \in 0 .. n
    <3>1. k + 1 \in 1 .. n /\ (k + 1) - 1 = k /\ k \in 0 .. n
      BY <1>1
    <3>. QED  BY <3>1
  <2>2. Flat(xss, k) \in Seq(K) /\ xss[m] \in Seq(K) /\ Flat(xss, m) = Cat(Flat(xss, k), xss[m])
    BY <1>1, <1>2, <2>1
  <2>3. Leads(Flat(xss, k)) /\ Leads(xss[m])
    BY <1>1, <1>4, <2>1
  <2>. QED  BY <2>1, <2>2, <2>3, LeadsCat
<1>. HIDE DEF P
<1>5. n \in P
  BY <1>1, <1>3, <1>4, Induction
<1>. QED  BY <1>1, <1>2, <1>5 DEF P

\* The nodes of a text show all of it, but for what is dropped at its beginning.
LEMMA NodesSeen ==
  ASSUME text \in Seq(Char)
  PROVE  Nodes \in Seq(NodesOf(Char)) /\ Seen(Nodes) = text /\ Leads(Nodes)
<1>. DEFINE n == Len(Lines)
            S == Char
            U == SeenOf(S)
            K == NodesOf(S)
            L == [i \in DOMAIN Lines |-> LineToNodes(Lines[i])]
            sep == <<LineBreak>>
            end == <<LineEnd>>
            xss == Ended(L, sep)
            yss == Ended(Lines, end)
<1>1. Lines \in LinesOf(Char) /\ FlattenSeq(yss) = text
  BY SplitType, LinesOfText DEF Lines
<1>2. /\ n \in Nat /\ Len(Lines) = n /\ DOMAIN Lines = 1 .. n
      /\ \A i \in 1 .. n : Lines[i] \in Seq(S)
  BY <1>1 DEF LinesOf
<1>. HIDE DEF n, S
<1>3. \A i \in 1 .. n : LineToNodes(Lines[i]) \in Seq(K) /\ Seen(LineToNodes(Lines[i])) = Lines[i]
  BY <1>2, LineSeen
<1>4. L \in Seq(Seq(K)) /\ Len(L) = n /\ \A i \in 1 .. n : L[i] \in Seq(K) /\ Seen(L[i]) = Lines[i]
  BY <1>2, <1>3
<1>5. LineBreak \in K /\ sep \in Seq(K)
  BY DEF NodesOf
<1>6. Nodes = Join(L, sep)
  BY DEF Nodes, LineStringToParagraph
<1>7. Seen(sep) = end
  BY <1>5, SeenSingle, ShownSimply
<1>. HIDE DEF L, sep
<1>8. Nodes = FlattenSeq(xss) /\ xss \in Seq(Seq(K)) /\ Len(xss) = n
  BY <1>4, <1>5, <1>6, JoinIs
<1>9. Seen(Nodes) = FlattenSeq(SeenOfAll(xss))
  BY <1>8, SeenFlat
<1>10. ASSUME NEW i \in 1 .. n PROVE Seen(xss[i]) = yss[i]
  <2>1. xss[i] = IF i # n THEN Cat(L[i], sep) ELSE L[i]
    BY <1>4 DEF Ended
  <2>2. yss[i] = IF i # n THEN Cat(Lines[i], end) ELSE Lines[i]
    BY <1>2 DEF Ended
  <2>3. L[i] \in Seq(K) /\ Seen(L[i]) = Lines[i]
    BY <1>4
  <2>4. Seen(Cat(L[i], sep)) = Cat(Lines[i], end)
    BY <1>5, <1>7, <2>3, SeenCat
  <2>. HIDE DEF xss, yss, end
  <2>. QED  BY <2>1, <2>2, <2>3, <2>4
<1>11. yss = [i \in 1 .. n |-> yss[i]] /\ Len(xss) = n
  BY <1>2, <1>8 DEF Ended
<1>. HIDE DEF xss, yss
<1>12. SeenOfAll(xss) = yss
  BY <1>10, <1>11 DEF SeenOfAll
<1>13. Nodes \in Seq(K)
  BY <1>8, FlattenSeqType
<1>14. Leads(sep) /\ \A i \in 1 .. n : Leads(L[i])
  <2>1. \A i \in 1 .. n : Leads(LineToNodes(Lines[i]))
    BY <1>2, LineLeads
  <2>2. sep[1] = LineBreak /\ LineBreak.type # "spaces"
    BY DEF sep, LineBreak
  <2>3. \A i \in 1 .. n : L[i] = LineToNodes(Lines[i])
    BY <1>2 DEF L
  <2>. QED  BY <2>1, <2>2, <2>3 DEF Leads
<1>15. \A i \in 1 .. n : Leads(xss[i])
  <2>. TAKE i \in 1 .. n
  <2>1. xss[i] = IF i # n THEN Cat(L[i], sep) ELSE L[i]
    BY <1>4 DEF Ended, xss
  <2>2. Leads(Cat(L[i], sep))
    BY <1>4, <1>5, <1>14, LeadsCat
  <2>. QED  BY <1>14, <2>1, <2>2
<1>16. Leads(Nodes)
  BY <1>8, <1>15, LeadsFlat
<1>. QED  BY <1>1, <1>9, <1>12, <1>13, <1>16 DEF S

\* They begin with a text that begins with a space where the text does, and nowhere else.
LEMMA FirstSpace ==
  ASSUME NEW nodes \in Seq(NodesOf(Char)), Leads(nodes)
  PROVE  SpaceInFront(nodes) <=> Seen(nodes) # <<>> /\ Seen(nodes)[1] = Space
<1>. DEFINE S == Char
            K == NodesOf(S)
            x == nodes[1]
            o == <<x>>
            r == SubSeq(nodes, 2, Len(nodes))
            s == Shown(x)
            t == Seen(r)
<1>1. CASE nodes = <<>>
  BY <1>1, SeenNothing DEF SpaceInFront
<1>2. CASE nodes # <<>>
  <2>1. x \in K /\ o \in Seq(K) /\ r \in Seq(K) /\ x.type # "spaces"
    BY <1>2 DEF Leads
  <2>2. nodes = Cat(o, r)
    BY <1>2 DEF Cat
  <2>. HIDE DEF K, r
  <2>3. Seen(nodes) = Cat(s, t)
    <3>1. Seen(Cat(o, r)) = Cat(Seen(o), Seen(r))
      BY <2>1, SeenCat DEF K
    <3>2. Seen(o) = s
      BY <2>1, SeenSingle DEF K
    <3>. HIDE DEF o
    <3>. QED  BY <2>2, <3>1, <3>2
  <2>4. t \in Seq(SeenOf(S)) /\ s \in Seq(SeenOf(S))
    BY <2>1, ShownOfType, ShownType DEF K
  <2>5. s # <<>> => Seen(nodes) # <<>> /\ Seen(nodes)[1] = s[1]
    <3>. HIDE DEF s, t
    <3>. DEFINE a == Len(s)
                b == Len(t)
                z == Cat(s, t)
    <3>1. a \in Nat /\ b \in Nat /\ Len(s) = a /\ Len(t) = b /\ (s # <<>> => 1 \in 1 .. a)
      BY <2>4
    <3>. HIDE DEF a, b, z
    <3>2. z \in Seq(SeenOf(S)) /\ Len(z) = a + b /\ \A i \in 1 .. a : z[i] = s[i]
      BY <2>4, <3>1, CatAt DEF z
    <3>. QED  BY <2>3, <3>1, <3>2 DEF z
  <2>6. CASE \E d \in Solid(S) : x = Text(d)
    <3>1. PICK d \in Solid(S) : x = Text(d)
      BY <2>6
    <3>2. d \in Seq(S) /\ d # <<>> /\ NoRow(d)
      BY DEF Solid
    <3>3. s = d
      BY <3>1, <3>2, ShownText
    <3>4. x.type = "text" /\ x.data = d
      BY <3>1 DEF Text
    <3>. HIDE DEF x, s
    <3>. QED  BY <1>2, <2>5, <3>2, <3>3, <3>4 DEF SpaceInFront, x
  <2>7. CASE x = LineBreak
    <3>1. s = <<LineEnd>>
      BY <2>7, ShownSimply
    <3>2. x.type # "text" /\ LineEnd # Space
      BY <2>7 DEF LineBreak, LineEnd, Space
    <3>. HIDE DEF x, s
    <3>. QED  BY <2>5, <3>1, <3>2 DEF SpaceInFront, x
  <2>8. CASE \E n \in Nat : x = Spaces(n)
    BY <2>1, <2>8 DEF Spaces
  <2>. QED  BY <2>1, <2>6, <2>7, <2>8 DEF NodesOf, K
<1>. QED  BY <1>1, <1>2

\* The paragraph shows a reader every line of a text with every space of it, and no line
\* more or less, however long the text, but for a space that is its first symbol
\* (lineStringToParagraph).
THEOREM ParagraphKeepsTheText == Spec => []ParagraphShowsLines
<1>1. ASSUME text \in Seq(Char) PROVE ParagraphShowsLines
  <2>1. Nodes \in Seq(NodesOf(Char)) /\ Seen(Nodes) = text /\ Leads(Nodes)
    BY <1>1, NodesSeen
  <2>2. SpaceInFront(Nodes) <=> text # <<>> /\ text[1] = Space
    BY <2>1, FirstSpace
  <2>3. ShownParagraph(Nodes) = IF SpaceInFront(Nodes) THEN Tail(Seen(Nodes)) ELSE Seen(Nodes)
    BY DEF ShownParagraph, Seen
  <2>. QED  BY <2>1, <2>2, <2>3 DEF ParagraphShowsLines
<1>. QED  BY <1>1, TextType, PTL

-----------------------------------------------------------------------------
(***************************************************************************)
(* The markers behind a line.                                              *)
(***************************************************************************)

\* Two lines that differ in the white space behind them alone.
Alike(s, t) == LastSolid(s) = LastSolid(t) /\ \A i \in 1 .. LastSolid(s) : s[i] = t[i]

\* There is one last character that is not white space, or none.
LEMMA LastSolidIs ==
  ASSUME NEW s, Len(s) \in Nat, NEW k \in 0 .. Len(s), k # 0 => ~IsWhiteSpace(s[k]),
         \A i \in 1 .. Len(s) : k < i => IsWhiteSpace(s[i])
  PROVE  LastSolid(s) = k
<1>. DEFINE l == LastSolid(s)
<1>1. /\ l \in 0 .. Len(s) /\ (l # 0 => ~IsWhiteSpace(s[l]))
      /\ \A i \in 1 .. Len(s) : l < i => IsWhiteSpace(s[i])
  BY LastSolidType
<1>. HIDE DEF l
<1>2. ~(l < k)
  <2>1. l < k => k \in 1 .. Len(s) /\ k # 0
    BY <1>1
  <2>. QED  BY <1>1, <2>1
<1>3. ~(k < l)
  <2>1. k < l => l \in 1 .. Len(s) /\ l # 0
    BY <1>1
  <2>. QED  BY <1>1, <2>1
<1>. QED  BY <1>1, <1>2, <1>3 DEF l

\* The kind of a line, by the marker it ends with.
LEMMA KindIs ==
  ASSUME NEW s
  PROVE  /\ EndsWith(s, "%excluded") => KindOf(s) = "EXCLUDED"
         /\ EndsWith(s, "%hidden") => KindOf(s) = "HIDDEN"
         /\ ~EndsWith(s, "%excluded") /\ ~EndsWith(s, "%hidden") => KindOf(s) = "NORMAL"
<1>1. ~(EndsWith(s, "%excluded") /\ EndsWith(s, "%hidden"))
  BY DEF EndsWith
<1>2. EndsWith(s, "%excluded") => KindOf(s) = "EXCLUDED"
  BY <1>1, Zenon DEF KindOf
<1>3. EndsWith(s, "%hidden") => KindOf(s) = "HIDDEN"
  BY <1>1, Zenon DEF KindOf
<1>4. ~EndsWith(s, "%excluded") /\ ~EndsWith(s, "%hidden") => KindOf(s) = "NORMAL"
  BY Zenon DEF KindOf
<1>. QED  BY <1>2, <1>3, <1>4

\* The markers of such lines are the same, and so is what is left without them.
LEMMA AlikeFacts ==
  ASSUME NEW S, NEW s \in Seq(S), NEW t \in Seq(S), Alike(s, t)
  PROVE  /\ TrimEnd(s) = TrimEnd(t) /\ RemoveMarker(s) = RemoveMarker(t)
         /\ \A m : EndsWith(s, m) <=> EndsWith(t, m)
         /\ GroupOf(s) = GroupOf(t) /\ KindOf(s) = KindOf(t)
<1>. DEFINE l == LastSolid(s)
<1>1. /\ LastSolid(t) = l /\ l \in 0 .. Len(s) /\ l \in 0 .. Len(t)
      /\ \A i \in 1 .. l : s[i] = t[i]
  BY LastSolidType DEF Alike
<1>2. ASSUME NEW k \in Int, k <= l PROVE SubSeq(s, 1, k) = SubSeq(t, 1, k)
  <2>1. SubSeq(s, 1, k) = [i \in 1 .. k |-> s[i]] /\ SubSeq(t, 1, k) = [i \in 1 .. k |-> t[i]]
    BY <1>1, <1>2
  <2>2. \A i \in 1 .. k : s[i] = t[i]
    BY <1>1, <1>2
  <2>. QED  BY <2>1, <2>2
<1>3. l \in Int /\ l - 1 \in Int /\ l <= l /\ l - 1 <= l /\ (l > 0 => l \in 1 .. l)
  BY <1>1
<1>4. TrimEnd(s) = TrimEnd(t)
  BY <1>1, <1>2, <1>3 DEF TrimEnd
<1>5. RemoveMarker(s) = RemoveMarker(t)
  BY <1>1, <1>2, <1>3 DEF RemoveMarker
<1>6. \A m : EndsWith(s, m) <=> EndsWith(t, m)
  BY <1>1, <1>3 DEF EndsWith
<1>7. GroupOf(s) = GroupOf(t)
  <2>1. ASSUME NEW g, EndsWith(s, g) PROVE s[LastSolid(s)] = t[LastSolid(t)]
    BY <1>1, <1>3, <2>1 DEF EndsWith
  <2>. QED  BY <1>6, <2>1 DEF GroupOf
<1>8. KindOf(s) = KindOf(t)
  BY <1>6, KindIs
<1>. QED  BY <1>4, <1>5, <1>6, <1>7, <1>8

\* So is a line and the line without the white space behind it.
LEMMA TrimAlike ==
  ASSUME NEW S, NEW s \in Seq(S)
  PROVE  TrimEnd(s) \in Seq(S) /\ Alike(TrimEnd(s), s)
<1>. DEFINE l == LastSolid(s)
            t == TrimEnd(s)
<1>1. l \in 0 .. Len(s) /\ (l # 0 => ~IsWhiteSpace(s[l])) /\ Len(s) \in Nat
  BY LastSolidType
<1>. HIDE DEF l
<1>2. t \in Seq(S) /\ Len(t) = l /\ \A i \in 1 .. l : t[i] = s[i]
  BY <1>1 DEF TrimEnd, l
<1>. HIDE DEF t
<1>3. l \in 0 .. Len(t) /\ (l # 0 => ~IsWhiteSpace(t[l])) /\ Len(t) \in Nat
      /\ \A i \in 1 .. Len(t) : l < i => IsWhiteSpace(t[i])
  BY <1>1, <1>2
<1>4. LastSolid(t) = l
  BY <1>3, LastSolidIs
<1>. QED  BY <1>2, <1>4 DEF Alike, t, l

\* The white space of a line with markers: none, or one behind the line and each marker.
Spacing == {<<>>, <<Space>>}

\* White space behind a line.
LEMMA SpaceAlike ==
  ASSUME NEW S, Space \in S, NEW s \in Seq(S), NEW space \in Spacing
  PROVE  Cat(s, space) \in Seq(S) /\ Alike(Cat(s, space), s)
<1>. DEFINE n == Len(s)
            m == Len(space)
            x == Cat(s, space)
            l == LastSolid(s)
<1>1. /\ n \in Nat /\ Len(s) = n /\ m \in Nat /\ Len(space) = m /\ space \in Seq(S)
      /\ \A i \in 1 .. m : IsWhiteSpace(space[i])
  <2>1. IsWhiteSpace(Space)
    BY Zenon DEF IsWhiteSpace, Space
  <2>2. CASE space = <<>>
    BY <2>2
  <2>3. CASE space = <<Space>>
    BY <2>1, <2>3
  <2>. QED  BY <2>2, <2>3 DEF Spacing
<1>2. /\ l \in 0 .. n /\ (l # 0 => ~IsWhiteSpace(s[l]))
      /\ \A i \in 1 .. n : l < i => IsWhiteSpace(s[i])
  BY LastSolidType
<1>. HIDE DEF n, m, l
<1>3. /\ x \in Seq(S) /\ Len(x) = n + m
      /\ \A i \in 1 .. n : x[i] = s[i]
      /\ \A i \in 1 .. m : x[n + i] = space[i]
  BY <1>1, CatAt
<1>. HIDE DEF x
<1>4. ASSUME NEW i \in 1 .. n + m, l < i PROVE IsWhiteSpace(x[i])
  <2>1. CASE i <= n
    BY <1>1, <1>2, <1>3, <1>4, <2>1
  <2>2. CASE ~(i <= n)
    <3>1. PICK j \in 1 .. m : n + j = i
      <4>1. i - n \in 1 .. m /\ n + (i - n) = i
        BY <1>1, <2>2
      <4>. QED  BY <4>1
    <3>. QED  BY <1>1, <1>3, <3>1
  <2>. QED  BY <2>1, <2>2
<1>5. l \in 0 .. Len(x) /\ (l # 0 => ~IsWhiteSpace(x[l])) /\ Len(x) \in Nat
      /\ \A i \in 1 .. Len(x) : l < i => IsWhiteSpace(x[i])
  <2>1. l # 0 => l \in 1 .. n
    BY <1>1, <1>2
  <2>. QED  BY <1>1, <1>2, <1>3, <1>4, <2>1
<1>6. LastSolid(x) = l
  BY <1>5, LastSolidIs
<1>7. \A i \in 1 .. l : x[i] = s[i]
  BY <1>1, <1>2, <1>3
<1>. QED  BY <1>3, <1>6, <1>7 DEF Alike, x, l

\* A line with a marker behind it, and its white space.
With(s, marker, space) == Cat(Cat(s, space), <<marker>>)

\* It ends with that marker and no other, and without it the line is left.
LEMMA WithMarker ==
  ASSUME NEW S, Space \in S, NEW s \in Seq(S), NEW marker \in S, ~IsWhiteSpace(marker),
         NEW space \in Spacing
  PROVE  /\ With(s, marker, space) \in Seq(S)
         /\ \A m : EndsWith(With(s, marker, space), m) <=> m = marker
         /\ RemoveMarker(With(s, marker, space)) = TrimEnd(s)
         /\ marker \in GroupMarker => GroupOf(With(s, marker, space)) = marker
<1>. DEFINE p == Cat(s, space)
            x == With(s, marker, space)
            n == Len(p)
            l == n + 1
<1>1. p \in Seq(S) /\ Alike(p, s)
  BY SpaceAlike
<1>2. TrimEnd(p) = TrimEnd(s)
  BY <1>1, AlikeFacts
<1>. HIDE DEF p
<1>3. n \in Nat /\ Len(p) = n
  BY <1>1
<1>. HIDE DEF n
<1>4. x \in Seq(S) /\ Len(x) = n + 1 /\ x[n + 1] = marker /\ \A i \in 1 .. n : x[i] = p[i]
  BY <1>1, <1>3, OneBehind DEF With, p
<1>5. l \in Nat /\ l # 0 /\ l > 0 /\ Len(x) = l /\ x[l] = marker /\ l - 1 = n /\ l \in 0 .. Len(x)
      /\ \A i \in 1 .. Len(x) : ~(l < i)
  BY <1>3, <1>4
<1>. HIDE DEF l, x
<1>6. LastSolid(x) = l
  <2>1. Len(x) \in Nat /\ (l # 0 => ~IsWhiteSpace(x[l]))
        /\ \A i \in 1 .. Len(x) : l < i => IsWhiteSpace(x[i])
    BY <1>5
  <2>. QED  BY <1>5, <2>1, LastSolidIs
<1>7. SubSeq(x, 1, n) = p
  <2>1. SubSeq(x, 1, n) = [i \in 1 .. n |-> x[i]]
    BY <1>3, <1>4
  <2>2. p = [i \in 1 .. n |-> p[i]]
    BY <1>1, <1>3
  <2>. QED  BY <1>4, <2>1, <2>2
<1>8. RemoveMarker(x) = TrimEnd(s)
  BY <1>2, <1>5, <1>6, <1>7 DEF RemoveMarker
<1>9. \A m : EndsWith(x, m) <=> m = marker
  BY <1>5, <1>6 DEF EndsWith
<1>10. marker \in GroupMarker => GroupOf(x) = marker
  BY <1>5, <1>6, <1>9 DEF GroupOf
<1>. QED  BY <1>4, <1>8, <1>9, <1>10 DEF x

\* The symbols of the markers are neither white space nor line ends, and differ.
LEMMA MarkerFacts ==
  /\ ~IsWhiteSpace("%excluded") /\ ~IsWhiteSpace("%hidden")
  /\ \A g \in GroupMarker : ~IsWhiteSpace(g)
  /\ NoGroup \notin GroupMarker /\ "%excluded" \notin GroupMarker /\ "%hidden" \notin GroupMarker
  /\ "%excluded" # LineEnd /\ "%hidden" # LineEnd /\ Space # LineEnd /\ LineEnd \notin GroupMarker
<1>1. \A g \in GroupMarker : g # "none" /\ g # "%excluded" /\ g # "%hidden" /\ g # " " /\ g # "\n"
  BY TemplatesAssumption, Zenon DEF TemplatesAssumption
<1>2. ~IsWhiteSpace("%excluded") /\ ~IsWhiteSpace("%hidden")
  BY Zenon DEF IsWhiteSpace
<1>3. "%excluded" # LineEnd /\ "%hidden" # LineEnd /\ Space # LineEnd
  BY Zenon DEF LineEnd, Space
<1>4. \A g \in GroupMarker : ~IsWhiteSpace(g) /\ g # NoGroup /\ g # LineEnd
  BY <1>1, Zenon DEF IsWhiteSpace, NoGroup, LineEnd
<1>. QED  BY <1>1, <1>2, <1>3, <1>4

\* A line with the marker of its kind behind it.
OfKind(s, kind, space) ==
  IF kind = "EXCLUDED" THEN With(s, "%excluded", space)
  ELSE IF kind = "HIDDEN" THEN With(s, "%hidden", space) ELSE s

\* The markers written are that of the kind and that of the group.
LEMMA MarkedIs ==
  ASSUME NEW S, Space \in S, Marker \subseteq S, NEW s \in Seq(S), NEW kind \in LineKind,
         NEW group \in GroupMarker \cup {NoGroup}, NEW space \in Spacing
  PROVE  /\ OfKind(s, kind, space) \in Seq(S)
         /\ Marked(s, kind, group, space) =
              IF group = NoGroup THEN OfKind(s, kind, space)
              ELSE With(OfKind(s, kind, space), group, space)
<1>. DEFINE part == CASE kind = "EXCLUDED" -> space \o <<"%excluded">>
                      [] kind = "HIDDEN"   -> space \o <<"%hidden">>
                      [] OTHER             -> <<>>
            last == IF group = NoGroup THEN <<>> ELSE space \o <<group>>
            y == OfKind(s, kind, space)
<1>1. Marked(s, kind, group, space) = Cat(Cat(s, part), last)
  BY DEF Marked, Cat
<1>2. /\ kind = "EXCLUDED" => part = Cat(space, <<"%excluded">>)
      /\ kind = "HIDDEN" => part = Cat(space, <<"%hidden">>)
      /\ kind = "NORMAL" => part = <<>>
  BY Zenon DEF Cat
<1>3. last = IF group = NoGroup THEN <<>> ELSE Cat(space, <<group>>)
  BY DEF Cat
<1>. HIDE DEF part, last
<1>4. space \in Seq(S)
  <2>1. <<>> \in Seq(S) /\ <<Space>> \in Seq(S)
    OBVIOUS
  <2>. QED  BY <2>1 DEF Spacing
<1>5. ASSUME NEW t \in Seq(S), NEW m \in S
      PROVE  Cat(t, Cat(space, <<m>>)) = With(t, m, space) /\ With(t, m, space) \in Seq(S)
  <2>. DEFINE o == <<m>>
  <2>1. o \in Seq(S)
    OBVIOUS
  <2>. HIDE DEF o
  <2>2. Cat(t, Cat(space, o)) = Cat(Cat(t, space), o)
    BY <1>4, <2>1, CatFacts
  <2>3. Cat(Cat(t, space), o) \in Seq(S)
    BY <1>4, <2>1, CatFacts
  <2>. QED  BY <2>2, <2>3 DEF With, o
<1>6. Cat(s, part) = y /\ y \in Seq(S)
  <2>1. CASE kind = "EXCLUDED"
    <3>1. "%excluded" \in S
      BY DEF Marker
    <3>. QED  BY <1>2, <1>5, <2>1, <3>1 DEF OfKind
  <2>2. CASE kind = "HIDDEN"
    <3>1. "%hidden" \in S /\ kind # "EXCLUDED"
      BY <2>2 DEF Marker
    <3>. QED  BY <1>2, <1>5, <2>2, <3>1 DEF OfKind
  <2>3. CASE kind = "NORMAL"
    <3>1. y = s /\ part = <<>>
      BY <1>2, <2>3 DEF OfKind
    <3>. QED  BY <3>1, CatFacts
  <2>. QED  BY <2>1, <2>2, <2>3 DEF LineKind
<1>. HIDE DEF y
<1>7. CASE group = NoGroup
  <2>1. Cat(y, <<>>) = y
    BY <1>6, CatFacts
  <2>. QED  BY <1>1, <1>3, <1>6, <1>7, <2>1 DEF y
<1>8. CASE group # NoGroup
  <2>1. group \in S
    BY <1>8 DEF Marker
  <2>2. Cat(y, last) = With(y, group, space)
    BY <1>3, <1>5, <1>6, <1>8, <2>1
  <2>. QED  BY <1>1, <1>6, <1>8, <2>2 DEF y
<1>. QED  BY <1>7, <1>8

\* A line that ends in no marker.
Unmarked(s) == \A m \in Marker : ~EndsWith(s, m)

\* A line ends with the marker of its kind, or with none if it is unmarked, and without
\* that marker it is the line again.
LEMMA KindFound ==
  ASSUME NEW S, Space \in S, Marker \subseteq S, NEW s \in Seq(S), Unmarked(s),
         NEW kind \in LineKind, NEW space \in Spacing
  PROVE  /\ KindOf(OfKind(s, kind, space)) = kind
         /\ kind # "NORMAL" => RemoveMarker(OfKind(s, kind, space)) = TrimEnd(s)
         /\ kind = "NORMAL" => OfKind(s, kind, space) = s
         /\ \A g \in GroupMarker : ~EndsWith(OfKind(s, kind, space), g)
<1>1. "%excluded" \in S /\ "%hidden" \in S /\ "%excluded" \in Marker /\ "%hidden" \in Marker
      /\ GroupMarker \subseteq Marker
  BY DEF Marker
<1>2. CASE kind = "EXCLUDED"
  <2>. DEFINE x == With(s, "%excluded", space)
  <2>1. OfKind(s, kind, space) = x
    BY <1>2 DEF OfKind
  <2>2. (\A m : EndsWith(x, m) <=> m = "%excluded") /\ RemoveMarker(x) = TrimEnd(s)
    BY <1>1, MarkerFacts, WithMarker
  <2>. HIDE DEF x
  <2>. QED  BY <1>2, <2>1, <2>2, KindIs, MarkerFacts
<1>3. CASE kind = "HIDDEN"
  <2>. DEFINE x == With(s, "%hidden", space)
  <2>1. OfKind(s, kind, space) = x
    BY <1>3 DEF OfKind
  <2>2. (\A m : EndsWith(x, m) <=> m = "%hidden") /\ RemoveMarker(x) = TrimEnd(s)
    BY <1>1, MarkerFacts, WithMarker
  <2>. HIDE DEF x
  <2>. QED  BY <1>3, <2>1, <2>2, KindIs, MarkerFacts
<1>4. CASE kind = "NORMAL"
  <2>1. OfKind(s, kind, space) = s
    BY <1>4 DEF OfKind
  <2>2. ~EndsWith(s, "%excluded") /\ ~EndsWith(s, "%hidden")
    BY <1>1 DEF Unmarked
  <2>. QED  BY <1>1, <1>4, <2>1, <2>2, KindIs DEF Unmarked
<1>. QED  BY <1>2, <1>3, <1>4 DEF LineKind

\* A line with its markers and the white space behind the last of them.
MarkedLine(s, kind, group, space) == Cat(Marked(s, kind, group, space), space)

\* normalizeLine finds the markers that were written, and leaves the line.
LEMMA MarkersFound ==
  ASSUME NEW S, Space \in S, Marker \subseteq S, NEW s \in Seq(S), Unmarked(s),
         NEW kind \in LineKind,
         NEW group \in GroupMarker \cup {NoGroup}, NEW space \in Spacing
  PROVE  LET x == MarkedLine(s, kind, group, space)
         IN /\ x \in Seq(S)
            /\ NormalizeLine(x).kind = kind /\ NormalizeLine(x).group = group
            /\ kind # "NORMAL" \/ group # NoGroup => NormalizeLine(x).content = TrimEnd(s)
<1>. DEFINE x == MarkedLine(s, kind, group, space)
            y == OfKind(s, kind, space)
            inner == IF GroupOf(x) = NoGroup THEN x ELSE RemoveMarker(x)
<1>. SUFFICES /\ x \in Seq(S)
              /\ NormalizeLine(x).kind = kind /\ NormalizeLine(x).group = group
              /\ kind # "NORMAL" \/ group # NoGroup => NormalizeLine(x).content = TrimEnd(s)
  OBVIOUS
<1>1. /\ y \in Seq(S)
      /\ Marked(s, kind, group, space) = IF group = NoGroup THEN y ELSE With(y, group, space)
  BY MarkedIs
<1>2. /\ KindOf(y) = kind /\ (kind # "NORMAL" => RemoveMarker(y) = TrimEnd(s))
      /\ (kind = "NORMAL" => y = s) /\ \A g \in GroupMarker : ~EndsWith(y, g)
  BY KindFound
<1>3. /\ NormalizeLine(x).group = GroupOf(x) /\ NormalizeLine(x).kind = KindOf(inner)
      /\ NormalizeLine(x).content = IF KindOf(inner) = "NORMAL" THEN inner ELSE RemoveMarker(inner)
  BY DEF NormalizeLine
<1>. HIDE DEF y
<1>4. x = Cat(Marked(s, kind, group, space), space)
  BY DEF MarkedLine
<1>. HIDE DEF x
<1>5. CASE group = NoGroup
  <2>1. x \in Seq(S) /\ Alike(x, y)
    BY <1>1, <1>4, <1>5, SpaceAlike
  <2>2. GroupOf(x) = GroupOf(y) /\ KindOf(x) = KindOf(y) /\ RemoveMarker(x) = RemoveMarker(y)
    BY <1>1, <2>1, AlikeFacts
  <2>3. GroupOf(y) = NoGroup
    BY <1>2 DEF GroupOf
  <2>4. inner = x
    BY <2>2, <2>3
  <2>. QED  BY <1>2, <1>3, <1>5, <2>1, <2>2, <2>3, <2>4
<1>6. CASE group # NoGroup
  <2>. DEFINE w == With(y, group, space)
  <2>1. group \in GroupMarker /\ group \in S /\ ~IsWhiteSpace(group)
    BY <1>6, MarkerFacts DEF Marker
  <2>2. w \in Seq(S) /\ RemoveMarker(w) = TrimEnd(y) /\ GroupOf(w) = group
    BY <1>1, <2>1, WithMarker
  <2>. HIDE DEF w
  <2>3. x \in Seq(S) /\ Alike(x, w)
    <3>1. x = Cat(w, space)
      BY <1>1, <1>4, <1>6 DEF w
    <3>. QED  BY <2>2, <3>1, SpaceAlike
  <2>4. GroupOf(x) = group /\ RemoveMarker(x) = TrimEnd(y)
    BY <2>2, <2>3, AlikeFacts
  <2>. DEFINE t == TrimEnd(y)
  <2>5. inner = t
    BY <1>6, <2>4
  <2>6. t \in Seq(S) /\ Alike(t, y)
    BY <1>1, TrimAlike
  <2>. HIDE DEF t, inner
  <2>7. KindOf(t) = KindOf(y) /\ RemoveMarker(t) = RemoveMarker(y)
    BY <1>1, <2>6, AlikeFacts
  <2>8. kind = "NORMAL" => t = TrimEnd(s)
    BY <1>2 DEF t
  <2>. QED  BY <1>2, <1>3, <2>3, <2>4, <2>5, <2>7, <2>8
<1>. QED  BY <1>5, <1>6

\* A text without a line end is one line.
LEMMA OneLine ==
  ASSUME NEW S, NEW str \in Seq(S), \A i \in 1 .. Len(str) : str[i] # LineEnd
  PROVE  SplitByNewline(str) = <<str>>
<1>. DEFINE n == Len(str)
<1>1. n \in Nat /\ Len(str) = n /\ \A i \in 1 .. n : str[i] \in S /\ str[i] # LineEnd
  OBVIOUS
<1>2. PICK f \in [0 .. n -> LinesOf(S)] :
        /\ f[0] = << <<>> >> /\ SplitByNewline(str) = f[n]
        /\ \A i \in 1 .. n : f[i] = AddToLines(f[i - 1], str[i])
  BY SplitSteps
<1>. DEFINE P == {k \in Nat : k <= n => f[k] = <<First(str, k)>>}
<1>. HIDE DEF n
<1>3. 0 \in P
  <2>1. First(str, 0) = <<>>
    BY DEF First
  <2>. QED  BY <1>2, <2>1
<1>4. ASSUME NEW k \in Nat, k \in P PROVE k + 1 \in P
  <2>. SUFFICES ASSUME k + 1 <= n PROVE f[k + 1] = <<First(str, k + 1)>>
    OBVIOUS
  <2>. DEFINE u == First(str, k)
              c == str[k + 1]
              l == <<u>>
  <2>1. k + 1 \in 1 .. n /\ (k + 1) - 1 = k /\ k \in 0 .. Len(str) /\ k + 1 <= Len(str) /\ k <= n
    BY <1>1
  <2>2. u \in Seq(S) /\ c \in S /\ c # LineEnd
    <3>1. u \in Seq(S)
      BY <2>1, FirstType
    <3>. QED  BY <1>1, <2>1, <3>1
  <2>3. f[k] = l /\ f[k + 1] = AddToLines(f[k], c)
    BY <1>2, <1>4, <2>1
  <2>4. First(str, k + 1) = Cat(u, <<c>>)
    BY <2>1, FirstStep
  <2>. HIDE DEF u, c
  <2>5. Append(u, c) = Cat(u, <<c>>)
    BY <2>2, AppendIs
  <2>6. AddToLines(l, c) = <<Append(u, c)>>
    <3>1. AddToLines(l, c) = [l EXCEPT ![Len(l)] = Append(l[Len(l)], c)]
      BY <2>2 DEF AddToLines
    <3>2. Len(l) = 1 /\ l[1] = u
      OBVIOUS
    <3>3. [l EXCEPT ![1] = Append(u, c)] = <<Append(u, c)>>
      OBVIOUS
    <3>. QED  BY <3>1, <3>2, <3>3
  <2>. QED  BY <2>3, <2>4, <2>5, <2>6 DEF u, c
<1>. HIDE DEF P
<1>5. n \in P
  BY <1>1, <1>3, <1>4, Induction
<1>6. f[n] = <<First(str, n)>>
  BY <1>1, <1>5 DEF P
<1>7. First(str, n) = str
  BY <1>1 DEF First
<1>. QED  BY <1>1, <1>2, <1>6, <1>7

\* A program of one line is a line of the variant, or none.
LEMMA OneRealized ==
  ASSUME NEW line, NEW variant, NEW group
  PROVE  RealizeProgramTemplate(<<line>>, variant, group) # <<>>
           <=> IsRealized(line, variant, group)
<1>. DEFINE x == RealizeLineTemplateNodes(line, variant)
            here == IF IsRealized(line, variant, group) THEN <<x>> ELSE <<>>
            ss == [i \in 1 .. 1 |-> here]
            n == 1
<1>1. RealizeProgramTemplate(<<line>>, variant, group) = FlattenSeq(ss)
  <2>. DEFINE t == <<line>>
  <2>1. DOMAIN t = 1 .. 1 /\ t[1] = line
    OBVIOUS
  <2>. HIDE DEF t
  <2>2. \A i \in 1 .. 1 : t[i] = line
    BY <2>1
  <2>3. [i \in DOMAIN t |-> IF IsRealized(t[i], variant, group)
                              THEN <<RealizeLineTemplateNodes(t[i], variant)>> ELSE <<>>] = ss
    BY <2>1, <2>2
  <2>4. RealizeProgramTemplate(t, variant, group) = FlattenSeq(ss)
    BY <2>3 DEF RealizeProgramTemplate
  <2>. QED  BY <2>4 DEF t
<1>. HIDE DEF x
<1>2. here \in Seq({x}) /\ (here # <<>> <=> IsRealized(line, variant, group))
  <2>1. <<x>> \in Seq({x}) /\ <<>> \in Seq({x}) /\ <<x>> # <<>>
    OBVIOUS
  <2>2. CASE IsRealized(line, variant, group)
    <3>1. here = <<x>>
      BY <2>2
    <3>. QED  BY <2>1, <2>2, <3>1
  <2>3. CASE ~IsRealized(line, variant, group)
    <3>1. here = <<>>
      BY <2>3
    <3>. QED  BY <2>1, <2>3, <3>1
  <2>. QED  BY <2>2, <2>3
<1>. HIDE DEF here
<1>3. ss \in Seq(Seq({x})) /\ Len(ss) = n /\ n \in 1 .. Len(ss) /\ n - 1 = 0 /\ ss[n] = here
  BY <1>2
<1>. HIDE DEF ss, n
<1>4. Flat(ss, n) = Cat(Flat(ss, 0), ss[n]) /\ Flat(ss, 0) = <<>> /\ Flat(ss, n) = FlattenSeq(ss)
  BY <1>3, FlatSteps
<1>5. Cat(<<>>, here) = here
  BY <1>2, CatFacts
<1>. QED  BY <1>1, <1>2, <1>3, <1>4, <1>5

\* Markers behind a line decide whom the line reaches, and none stays in it, with and
\* without white space, whatever the line (parseLineTemplate, realizeProgramTemplate).
THEOREM MarkersDecideWhoReads == Spec => []MarkersDecide
<1>1. ASSUME text \in Seq(Char), IsUnmarked,
             NEW kind \in LineKind, NEW group \in GroupMarker \cup {NoGroup},
             NEW h \in GroupMarker, NEW space \in Spacing
      PROVE  Reaches(kind, group, h, space)
  <2>. DEFINE S == (Char \ {LineEnd}) \cup Marker \cup {Space}
              x == MarkedLine(text, kind, group, space)
              line == ParseLineTemplate(x)
              template == ParseProgramTemplate(x)
  <2>1. Space \in S /\ Marker \subseteq S
    OBVIOUS
  <2>2. LineEnd \notin S
    BY MarkerFacts DEF Marker
  <2>3. text \in Seq(S)
    <3>1. \A i \in 1 .. Len(text) : text[i] \in Char /\ text[i] # LineEnd
      BY <1>1 DEF IsUnmarked, Contains
    <3>. QED  BY <1>1, <3>1
  <2>4. Unmarked(text)
    BY <1>1 DEF IsUnmarked, Unmarked
  <2>. HIDE DEF S, x
  <2>5. /\ x \in Seq(S)
        /\ NormalizeLine(x).kind = kind /\ NormalizeLine(x).group = group
        /\ kind # "NORMAL" \/ group # NoGroup => NormalizeLine(x).content = TrimEnd(text)
    <3>1. /\ Space \in S /\ Marker \subseteq S /\ text \in Seq(S) /\ kind \in LineKind
          /\ group \in GroupMarker \cup {NoGroup} /\ space \in Spacing
          /\ Unmarked(text)
      BY <2>1, <2>3, <2>4
    <3>2. x = MarkedLine(text, kind, group, space)
      BY DEF x
    <3>3. x \in Seq(S) /\ NormalizeLine(x).kind = kind /\ NormalizeLine(x).group = group
      BY <3>1, <3>2, MarkersFound
    <3>4. ASSUME kind # "NORMAL" \/ group # NoGroup PROVE NormalizeLine(x).content = TrimEnd(text)
      <4>1. NormalizeLine(MarkedLine(text, kind, group, space)).content = TrimEnd(text)
        BY <3>1, <3>4, MarkersFound
      <4>. QED  BY <3>2, <4>1
    <3>. QED  BY <3>3, <3>4
  <2>6. SplitByNewline(x) = <<x>>
    <3>1. \A i \in 1 .. Len(x) : x[i] # LineEnd
      BY <2>2, <2>5
    <3>. QED  BY <2>5, <3>1, OneLine
  <2>7. template = <<line>> /\ template[1] = line
    <3>. DEFINE l == <<x>>
    <3>1. DOMAIN l = 1 .. 1 /\ l[1] = x
      OBVIOUS
    <3>2. template = [i \in DOMAIN l |-> ParseLineTemplate(l[i])]
      BY <2>6 DEF ParseProgramTemplate
    <3>. HIDE DEF l
    <3>3. template = [i \in 1 .. 1 |-> line]
      BY <3>1, <3>2
    <3>4. [i \in 1 .. 1 |-> line] = <<line>>
      OBVIOUS
    <3>. HIDE DEF template, line
    <3>. QED  BY <3>3, <3>4
  <2>8. /\ line.kind = kind /\ line.group = group
        /\ line.nodes = ParseNormalizedLine(NormalizeLine(x).content)
    BY <2>5 DEF ParseLineTemplate
  <2>. HIDE DEF line
  <2>9. \A variant : RealizeProgramTemplate(template, variant, h) # <<>>
                        <=> IsRealized(line, variant, h)
    BY <2>7, OneRealized
  <2>10. /\ IsRealized(line, "COMPILER", h) <=> kind # "EXCLUDED" /\ group \in {NoGroup, h}
         /\ \A variant \in {"STUDENT", "TEACHER"} :
              IsRealized(line, variant, h) <=> kind # "HIDDEN" /\ group \in {NoGroup, h}
    BY <2>8 DEF IsRealized
  <2>11. template = ParseProgramTemplate(Marked(text, kind, group, space) \o space)
    BY DEF x, MarkedLine, Cat
  <2>. HIDE DEF template
  <2>. QED  BY <2>5, <2>7, <2>8, <2>9, <2>10, <2>11 DEF Reaches
<1>2. ASSUME text \in Seq(Char) PROVE MarkersDecide
  <2>1. Spacing = {<<>>, <<" ">>}
    BY Zenon DEF Spacing, Space
  <2>. QED  BY <1>1, <1>2, <2>1, Zenon DEF MarkersDecide
<1>. QED  BY <1>2, TextType, PTL
=============================================================================
