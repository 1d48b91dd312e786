-------------------------- MODULE ContentTreeProofs --------------------------
(***************************************************************************)
(* What ContentTree promises, for templates of any number of nodes: what   *)
(* the descent finds, and what the document is when all of it is filled.   *)
(***************************************************************************)
EXTENDS ContentTree, SequenceLemmas

-----------------------------------------------------------------------------
(***************************************************************************)
(* Trees in the order of the document.                                     *)
(***************************************************************************)
IsTree(t) == t \in Seq(NodeRecord) /\ InDocumentOrder(t)

\* A node behind n, with nothing in between, itself included, that belongs before n.
Below(t, n, m) == n < m /\ \A k \in n + 1 .. m : t[k].parent >= n

\* A node and all that is below it.
Sub(t, n) == {m \in 1 .. Len(t) : m = n \/ Below(t, n, m)}

\* What IsTree says of the parents.
LEMMA TreeFacts ==
  ASSUME NEW t, IsTree(t)
  PROVE  /\ Len(t) \in Nat /\ DOMAIN t = 1 .. Len(t) /\ 1 \in 1 .. Len(t)
         /\ t[1].parent = 0
         /\ \A n \in 1 .. Len(t) : t[n].parent \in Nat /\ t[n].parent < n /\ t[n].text \in Seq(Piece)
         /\ \A n \in 1 .. Len(t) : n # 1 => t[n].parent \in 1 .. Len(t)
         /\ \A n \in 1 .. Len(t) : \A m \in t[n].parent + 1 .. n - 1 :
              n # 1 => t[m].parent >= t[n].parent
<1>1. t \in Seq(NodeRecord) /\ t # <<>>
  BY DEF IsTree, InDocumentOrder
<1>2. Len(t) \in Nat /\ DOMAIN t = 1 .. Len(t) /\ 1 \in 1 .. Len(t)
  BY <1>1
<1>3. \A n \in 1 .. Len(t) : t[n].parent \in Nat /\ t[n].text \in Seq(Piece)
  <2>1. \A n \in 1 .. Len(t) : t[n] \in NodeRecord
    BY <1>1
  <2>. QED  BY <2>1 DEF NodeRecord
<1>4. /\ t[1].parent = 0
      /\ \A n \in 1 .. Len(t) \ {1} :
           /\ t[n].parent \in 1 .. n - 1
           /\ \A m \in t[n].parent + 1 .. n - 1 : t[m].parent >= t[n].parent
  BY <1>2 DEF IsTree, InDocumentOrder, Root
<1>5. \A n \in 1 .. Len(t) : t[n].parent < n /\ (n # 1 => t[n].parent \in 1 .. Len(t))
  <2>1. ASSUME NEW n \in 1 .. Len(t)
        PROVE  t[n].parent < n /\ (n # 1 => t[n].parent \in 1 .. Len(t))
    <3>1. CASE n = 1
      BY <1>4, <3>1
    <3>2. CASE n # 1
      <4>1. t[n].parent \in 1 .. n - 1
        BY <1>4, <3>2
      <4>. QED  BY <1>2, <4>1
    <3>. QED  BY <3>1, <3>2
  <2>. QED  BY <2>1
<1>. QED  BY <1>2, <1>3, <1>4, <1>5

\* What is below a node is below its parent.
LEMMA BelowParent ==
  ASSUME NEW t, IsTree(t), NEW n \in 1 .. Len(t), NEW m \in 1 .. Len(t), m # 1
  PROVE  Below(t, n, m) <=> n = t[m].parent \/ Below(t, n, t[m].parent)
<1>. DEFINE p == t[m].parent
<1>1. /\ p \in 1 .. Len(t) /\ p < m /\ p \in Nat /\ m \in Nat /\ n \in Nat
      /\ \A k \in p + 1 .. m - 1 : t[k].parent >= p
  BY TreeFacts
<1>2. \A k \in 1 .. m : k \in 1 .. Len(t) /\ t[k].parent \in Nat
  BY TreeFacts
<1>3. ASSUME Below(t, n, m), n # p PROVE Below(t, n, p)
  <2>1. n < m /\ m \in n + 1 .. m /\ \A k \in n + 1 .. m : t[k].parent >= n
    BY <1>1, <1>3 DEF Below
  <2>2. p >= n
    BY <2>1
  <2>3. n < p /\ \A k \in n + 1 .. p : k \in n + 1 .. m
    BY <1>1, <1>3, <2>2
  <2>. QED  BY <2>1, <2>3 DEF Below
<1>4. ASSUME n = p PROVE Below(t, n, m)
  <2>1. ASSUME NEW k \in n + 1 .. m PROVE t[k].parent >= n
    <3>1. CASE k = m
      BY <1>1, <1>4, <3>1
    <3>2. CASE k # m
      <4>1. k \in p + 1 .. m - 1
        BY <1>1, <1>4, <3>2
      <4>. QED  BY <1>1, <1>4, <4>1
    <3>. QED  BY <3>1, <3>2
  <2>. QED  BY <1>1, <1>4, <2>1 DEF Below
<1>5. ASSUME Below(t, n, p) PROVE Below(t, n, m)
  <2>1. n < p /\ \A k \in n + 1 .. p : t[k].parent >= n
    BY <1>5 DEF Below
  <2>2. ASSUME NEW k \in n + 1 .. m PROVE t[k].parent >= n
    <3>1. CASE k <= p
      <4>1. k \in n + 1 .. p
        BY <1>1, <3>1
      <4>. QED  BY <2>1, <4>1
    <3>2. CASE k = m
      BY <1>1, <2>1, <3>2
    <3>3. CASE p < k /\ k # m
      <4>1. k \in p + 1 .. m - 1 /\ k \in 1 .. m
        BY <1>1, <2>1, <3>3
      <4>2. t[k].parent >= p /\ t[k].parent \in Nat
        BY <1>1, <1>2, <4>1
      <4>. QED  BY <1>1, <2>1, <4>2
    <3>. QED  BY <1>1, <3>1, <3>2, <3>3
  <2>. QED  BY <1>1, <2>1, <2>2 DEF Below
<1>. QED  BY <1>3, <1>4, <1>5

\* The nodes above a node are those it is below of.
LEMMA AboveIsBelow ==
  ASSUME NEW t, IsTree(t)
  PROVE  \A m \in 1 .. Len(t) : AboveIn(t)[m] = {n \in 1 .. Len(t) : Below(t, n, m)}
<1>. DEFINE N == 1 .. Len(t)
            W == [m \in DOMAIN t |-> {n \in N : Below(t, n, m)}]
            C == CHOOSE f : f = [n \in DOMAIN t |-> IF n = Root THEN {} ELSE {t[n].parent} \cup f[t[n].parent]]
<1>1. /\ Len(t) \in Nat /\ DOMAIN t = N
      /\ \A n \in N : n # 1 => t[n].parent \in N /\ t[n].parent < n
  BY TreeFacts
<1>2. \A m \in N : W[m] = {n \in N : Below(t, n, m)}
  BY <1>1
<1>. HIDE DEF W
<1>3. ASSUME NEW m \in N PROVE W[m] = IF m = Root THEN {} ELSE {t[m].parent} \cup W[t[m].parent]
  <2>1. CASE m = 1
    <3>1. \A n \in N : ~Below(t, n, m)
      BY <1>1, <2>1 DEF Below
    <3>. QED  BY <1>2, <2>1, <3>1 DEF Root
  <2>2. CASE m # 1
    <3>. DEFINE p == t[m].parent
    <3>1. p \in N /\ W[p] = {n \in N : Below(t, n, p)}
      BY <1>1, <1>2, <2>2
    <3>2. \A n \in N : Below(t, n, m) <=> n = p \/ Below(t, n, p)
      BY <2>2, BelowParent
    <3>. HIDE DEF p, N
    <3>3. W[m] = {p} \cup W[p]
      BY <1>2, <3>1, <3>2
    <3>. QED  BY <2>2, <3>3 DEF p, Root
  <2>. QED  BY <2>1, <2>2
<1>4. W = [n \in DOMAIN t |-> IF n = Root THEN {} ELSE {t[n].parent} \cup W[t[n].parent]]
  <2>1. W = [n \in DOMAIN t |-> W[n]]
    BY DEF W
  <2>. QED  BY <1>1, <1>3, <2>1
<1>5. C = [n \in DOMAIN t |-> IF n = Root THEN {} ELSE {t[n].parent} \cup C[t[n].parent]]
  BY <1>4
<1>6. AboveIn(t) = C
  BY DEF AboveIn
<1>. HIDE DEF C
<1>7. \A n \in N : C[n] = IF n = Root THEN {} ELSE {t[n].parent} \cup C[t[n].parent]
  BY <1>1, <1>5
<1>8. \A m \in N : C[m] = W[m]
  <2>. DEFINE D == {m \in N : C[m] # W[m]}
  <2>. SUFFICES ASSUME D # {} PROVE FALSE
    OBVIOUS
  <2>1. D \in SUBSET Nat
    OBVIOUS
  <2>2. PICK m \in D : \A d \in D : m <= d
    <3>. HIDE DEF D
    <3>. QED  BY <2>1, Least
  <2>3. m \in N /\ C[m] # W[m]
    OBVIOUS
  <2>4. CASE m = 1
    BY <1>3, <1>7, <2>3, <2>4 DEF Root
  <2>5. CASE m # 1
    <3>1. t[m].parent \in N /\ t[m].parent < m
      BY <1>1, <2>3, <2>5
    <3>2. C[t[m].parent] = W[t[m].parent]
      BY <2>2, <3>1
    <3>. QED  BY <1>3, <1>7, <2>3, <3>2
  <2>. QED  BY <2>4, <2>5
<1>. QED  BY <1>2, <1>6, <1>8

\* Of two nodes above the same one, one is above the other; and what is below what is
\* below a node is below it.
LEMMA BelowOrder ==
  ASSUME NEW t, IsTree(t)
  PROVE  \A n, m, l \in 1 .. Len(t) :
           /\ Below(t, n, l) /\ Below(t, m, l) /\ n < m => Below(t, n, m)
           /\ Below(t, n, m) /\ Below(t, m, l) => Below(t, n, l)
<1>1. Len(t) \in Nat /\ \A k \in 1 .. Len(t) : t[k].parent \in Nat
  BY TreeFacts
<1>2. ASSUME NEW n \in 1 .. Len(t), NEW m \in 1 .. Len(t), NEW l \in 1 .. Len(t),
             Below(t, n, l), Below(t, m, l), n < m
      PROVE  Below(t, n, m)
  <2>1. m < l /\ \A k \in n + 1 .. l : t[k].parent >= n
    BY <1>2 DEF Below
  <2>2. \A k \in n + 1 .. m : k \in n + 1 .. l
    BY <2>1
  <2>. QED  BY <1>2, <2>1, <2>2 DEF Below
<1>3. ASSUME NEW n \in 1 .. Len(t), NEW m \in 1 .. Len(t), NEW l \in 1 .. Len(t),
             Below(t, n, m), Below(t, m, l)
      PROVE  Below(t, n, l)
  <2>1. /\ n < m /\ \A k \in n + 1 .. m : t[k].parent >= n
        /\ m < l /\ \A k \in m + 1 .. l : t[k].parent >= m
    BY <1>3 DEF Below
  <2>2. ASSUME NEW k \in n + 1 .. l PROVE t[k].parent >= n
    <3>1. CASE k <= m
      <4>1. k \in n + 1 .. m
        BY <3>1
      <4>. QED  BY <2>1, <4>1
    <3>2. CASE ~(k <= m)
      <4>1. k \in m + 1 .. l /\ k \in 1 .. Len(t)
        BY <2>1, <3>2
      <4>2. t[k].parent >= m /\ t[k].parent \in Nat
        BY <1>1, <2>1, <4>1
      <4>. QED  BY <2>1, <4>2
    <3>. QED  BY <3>1, <3>2
  <2>. QED  BY <2>1, <2>2 DEF Below
<1>. QED  BY <1>2, <1>3

\* What is below a node is a child of it, or below one.
LEMMA ChildOnPath ==
  ASSUME NEW t, IsTree(t), NEW n \in 1 .. Len(t), NEW m \in 1 .. Len(t), Below(t, n, m)
  PROVE  \E c \in 1 .. Len(t) : t[c].parent = n /\ (c = m \/ Below(t, c, m))
<1>1. n < m /\ \A k \in n + 1 .. m : t[k].parent >= n
  BY DEF Below
<1>2. /\ Len(t) \in Nat
      /\ \A k \in 1 .. Len(t) : t[k].parent \in Nat /\ t[k].parent < k
  BY TreeFacts
<1>. DEFINE D == {d \in Nat : d < m - n /\ t[m - d].parent = n}
            e == m - (n + 1)
<1>3. D \in SUBSET Nat /\ e \in D
  <2>1. n + 1 \in n + 1 .. m /\ n + 1 \in 1 .. Len(t)
    BY <1>1
  <2>2. t[n + 1].parent = n
    BY <1>1, <1>2, <2>1
  <2>3. e \in Nat /\ e < m - n /\ m - e = n + 1
    BY <1>1
  <2>. QED  BY <2>2, <2>3
<1>. HIDE DEF e
<1>4. PICK d \in D : \A x \in D : d <= x
  <2>. HIDE DEF D
  <2>. QED  BY <1>3, Least
<1>. DEFINE c == m - d
<1>5. c \in 1 .. Len(t) /\ t[c].parent = n /\ n < c /\ c <= m
  BY <1>1, <1>2
<1>6. ASSUME NEW k \in c + 1 .. m PROVE t[k].parent >= c
  <2>1. k \in n + 1 .. m /\ k \in 1 .. Len(t) /\ k # 1
    BY <1>5
  <2>2. t[k].parent >= n /\ t[k].parent \in Nat
    BY <1>1, <1>2, <2>1
  <2>3. t[k].parent # n
    <3>1. m - k \in Nat /\ m - k < m - n /\ m - (m - k) = k /\ ~(d <= m - k)
      BY <1>5, <2>1
    <3>. QED  BY <1>4, <3>1
  <2>4. SUFFICES ASSUME t[k].parent < c PROVE FALSE
    BY <1>5, <2>2
  <2>5. c \in t[k].parent + 1 .. k - 1
    BY <1>5, <2>2, <2>4
  <2>6. t[c].parent >= t[k].parent
    BY <2>1, <2>5, TreeFacts
  <2>. QED  BY <1>5, <2>2, <2>3, <2>6
<1>7. c = m \/ Below(t, c, m)
  BY <1>5, <1>6 DEF Below
<1>. QED  BY <1>5, <1>7

\* A child is below its parent, and what is below one child comes before the next.
LEMMA Siblings ==
  ASSUME NEW t, IsTree(t), NEW n \in 1 .. Len(t),
         NEW c \in 1 .. Len(t), t[c].parent = n
  PROVE  /\ n < c /\ Below(t, n, c)
         /\ \A d \in 1 .. Len(t) : t[d].parent = n /\ c < d => \A m \in Sub(t, c) : m < d
<1>1. Len(t) \in Nat /\ n < c /\ c # 1
  BY TreeFacts
<1>2. Below(t, n, c)
  BY <1>1, BelowParent
<1>3. ASSUME NEW d \in 1 .. Len(t), t[d].parent = n, c < d, NEW m \in Sub(t, c), ~(m < d)
      PROVE  FALSE
  <2>1. m \in 1 .. Len(t) /\ (m = c \/ Below(t, c, m))
    BY DEF Sub
  <2>2. CASE m = c
    BY <1>3, <2>2
  <2>3. CASE Below(t, c, m)
    <3>1. d \in c + 1 .. m
      BY <1>3, <2>1
    <3>2. t[d].parent >= c
      BY <2>3, <3>1 DEF Below
    <3>. QED  BY <1>1, <1>3, <3>2
  <2>. QED  BY <2>1, <2>2, <2>3
<1>4. \A d \in 1 .. Len(t) : t[d].parent = n /\ c < d => \A m \in Sub(t, c) : m < d
  BY <1>3
<1>. QED  BY <1>1, <1>2, <1>4

\* What holds of a node when it holds of its children holds of all nodes.
LEMMA TreeInduction ==
  ASSUME NEW t, IsTree(t), NEW P,
         \A n \in 1 .. Len(t) : (\A c \in 1 .. Len(t) : t[c].parent = n => c \in P) => n \in P
  PROVE  \A n \in 1 .. Len(t) : n \in P
<1>1. Len(t) \in Nat /\ \A k \in 1 .. Len(t) : t[k].parent < k
  BY TreeFacts
<1>2. ASSUME NEW n \in 1 .. Len(t), \A c \in n + 1 .. Len(t) : c \in P PROVE n \in P
  <2>1. \A c \in 1 .. Len(t) : t[c].parent = n => c \in n + 1 .. Len(t)
    BY <1>1
  <2>. QED  BY <1>2, <2>1
<1>. QED  BY <1>1, <1>2, DownInduction

-----------------------------------------------------------------------------
(***************************************************************************)
(* Children, and what a descent gathers.                                   *)
(***************************************************************************)
Kids(t, n) == FlattenSeq([m \in DOMAIN t |-> IF t[m].parent = n THEN <<m>> ELSE <<>>])

\* The children of a node are listed in order, each once.
LEMMA KidsFacts ==
  ASSUME NEW t, IsTree(t), NEW n \in 1 .. Len(t)
  PROVE  /\ Kids(t, n) \in Seq(1 .. Len(t))
         /\ \A i, j \in 1 .. Len(Kids(t, n)) : i < j => Kids(t, n)[i] < Kids(t, n)[j]
         /\ \A i \in 1 .. Len(Kids(t, n)) :
              Kids(t, n)[i] \in 1 .. Len(t) /\ t[Kids(t, n)[i]].parent = n
         /\ \A m \in 1 .. Len(t) : t[m].parent = n =>
              \E i \in 1 .. Len(Kids(t, n)) : Kids(t, n)[i] = m
<1>. DEFINE N == 1 .. Len(t)
            A == {m \in N : t[m].parent = n}
            e == [m \in N |-> m]
            K == Kids(t, n)
<1>1. Len(t) \in Nat /\ DOMAIN t = N
  BY TreeFacts
<1>2. K = FlattenSeq(Picked(Len(t), A, e))
  <2>1. [m \in DOMAIN t |-> IF t[m].parent = n THEN <<m>> ELSE <<>>] = Picked(Len(t), A, e)
    BY <1>1 DEF Picked
  <2>. QED  BY <2>1 DEF Kids
<1>3. A \in SUBSET N /\ (\A a \in A : e[a] \in N) /\ (\A a \in A : e[a] = a)
  OBVIOUS
<1>4. \A m \in N : m \in A <=> t[m].parent = n
  OBVIOUS
<1>. HIDE DEF A, e, K
<1>5. K \in Seq(N) /\ Lists(K, A, e)
  BY <1>1, <1>2, <1>3, FlattenSeqLists
<1>6. PICK pos \in [1 .. Len(K) -> A] :
        /\ \A i, j \in 1 .. Len(K) : i < j => pos[i] < pos[j]
        /\ \A a \in A : \E i \in 1 .. Len(K) : pos[i] = a
        /\ \A i \in 1 .. Len(K) : K[i] = e[pos[i]]
  BY <1>5 DEF Lists
<1>7. \A i \in 1 .. Len(K) : K[i] = pos[i] /\ K[i] \in A
  BY <1>3, <1>6
<1>8. \A i \in 1 .. Len(K) : K[i] \in N /\ t[K[i]].parent = n
  BY <1>3, <1>4, <1>7
<1>9. \A i, j \in 1 .. Len(K) : i < j => K[i] < K[j]
  BY <1>6, <1>7
<1>10. \A m \in N : t[m].parent = n => \E i \in 1 .. Len(K) : K[i] = m
  BY <1>4, <1>6, <1>7
<1>. QED  BY <1>5, <1>8, <1>9, <1>10 DEF K

\* The first of them is the node that follows it.
LEMMA FirstKid ==
  ASSUME NEW t, IsTree(t), NEW n \in 1 .. Len(t)
  PROVE  /\ Kids(t, n) # <<>> <=> n + 1 \in 1 .. Len(t) /\ t[n + 1].parent = n
         /\ Kids(t, n) # <<>> => Kids(t, n)[1] = n + 1
<1>. DEFINE K == Kids(t, n)
            c == n + 1
<1>1. /\ K \in Seq(1 .. Len(t))
      /\ \A i, j \in 1 .. Len(K) : i < j => K[i] < K[j]
      /\ \A i \in 1 .. Len(K) : K[i] \in 1 .. Len(t) /\ t[K[i]].parent = n
      /\ \A m \in 1 .. Len(t) : t[m].parent = n => \E i \in 1 .. Len(K) : K[i] = m
  BY SMTT(30), KidsFacts
<1>. HIDE DEF K
<1>2. Len(t) \in Nat /\ \A m \in 1 .. Len(t) : t[m].parent \in Nat /\ t[m].parent < m
  BY TreeFacts
<1>3. ASSUME K # <<>> PROVE c \in 1 .. Len(t) /\ t[c].parent = n
  <2>. DEFINE m == K[1]
  <2>1. m \in 1 .. Len(t) /\ t[m].parent = n /\ n < m
    <3>1. 1 \in 1 .. Len(K)
      BY <1>1, <1>3
    <3>. QED  BY <1>1, <1>2, <3>1
  <2>. HIDE DEF m
  <2>2. Below(t, n, m)
    BY <2>1, Siblings
  <2>3. c \in n + 1 .. m /\ c \in 1 .. Len(t)
    BY <1>2, <2>1
  <2>4. t[c].parent >= n /\ t[c].parent < c /\ t[c].parent \in Nat
    BY <1>2, <2>2, <2>3 DEF Below
  <2>. QED  BY <2>3, <2>4
<1>4. ASSUME c \in 1 .. Len(t), t[c].parent = n PROVE K # <<>> /\ K[1] = c
  <2>1. PICK i \in 1 .. Len(K) : K[i] = c
    BY <1>1, <1>4
  <2>2. 1 \in 1 .. Len(K) /\ Len(K) \in Nat
    BY <1>1, <2>1
  <2>3. K[1] \in Nat /\ n < K[1]
    BY <1>1, <1>2, <2>2
  <2>4. i # 1 => K[1] < K[i]
    BY <1>1, <2>2
  <2>. QED  BY <2>1, <2>2, <2>3, <2>4
<1>. QED  BY <1>3, <1>4 DEF K

\* What is below a node is below its children, or they themselves.
LEMMA SubKids ==
  ASSUME NEW t, IsTree(t), NEW n \in 1 .. Len(t)
  PROVE  /\ \A i \in 1 .. Len(Kids(t, n)) : \A m \in Sub(t, Kids(t, n)[i]) :
              m \in 1 .. Len(t) /\ n < m /\ m \in Sub(t, n) /\ Below(t, n, m)
         /\ \A m \in Sub(t, n) :
              m = n \/ \E i \in 1 .. Len(Kids(t, n)) : m \in Sub(t, Kids(t, n)[i])
<1>. DEFINE K == Kids(t, n)
<1>1. /\ \A i \in 1 .. Len(K) : K[i] \in 1 .. Len(t) /\ t[K[i]].parent = n
      /\ \A m \in 1 .. Len(t) : t[m].parent = n => \E i \in 1 .. Len(K) : K[i] = m
  BY KidsFacts
<1>. HIDE DEF K
<1>2. ASSUME NEW i \in 1 .. Len(K), NEW m \in Sub(t, K[i])
      PROVE  m \in 1 .. Len(t) /\ n < m /\ m \in Sub(t, n) /\ Below(t, n, m)
  <2>1. K[i] \in 1 .. Len(t) /\ Below(t, n, K[i])
    BY <1>1, Siblings
  <2>2. m \in 1 .. Len(t) /\ (m = K[i] \/ Below(t, K[i], m))
    BY DEF Sub
  <2>3. Below(t, n, m)
    BY <2>1, <2>2, BelowOrder
  <2>. QED  BY <2>2, <2>3 DEF Below, Sub
<1>3. ASSUME NEW m \in Sub(t, n), m # n
      PROVE  \E i \in 1 .. Len(K) : m \in Sub(t, K[i])
  <2>1. m \in 1 .. Len(t) /\ Below(t, n, m)
    BY <1>3 DEF Sub
  <2>2. PICK c \in 1 .. Len(t) : t[c].parent = n /\ (c = m \/ Below(t, c, m))
    BY <2>1, ChildOnPath
  <2>3. PICK i \in 1 .. Len(K) : K[i] = c
    BY <1>1, <2>2
  <2>. QED  BY <2>1, <2>2, <2>3 DEF Sub
<1>. QED  BY <1>2, <1>3 DEF K

\* What is gathered below one child after the other is gathered in the order of the nodes.
LEMMA MaskKids ==
  ASSUME NEW t, IsTree(t), NEW n \in 1 .. Len(t), NEW S, NEW e, Pieces(e, Len(t), S),
         NEW X \in [1 .. Len(Kids(t, n)) -> SUBSET (1 .. Len(t))],
         \A i \in 1 .. Len(Kids(t, n)) : X[i] \subseteq Sub(t, Kids(t, n)[i])
  PROVE  FlattenSeq([i \in 1 .. Len(Kids(t, n)) |-> Mask(Len(t), X[i], e)])
           = Mask(Len(t), Before(X, Len(Kids(t, n))), e)
<1>. DEFINE K == Kids(t, n)
            l == Len(K)
<1>1. /\ K \in Seq(1 .. Len(t))
      /\ \A i, j \in 1 .. Len(K) : i < j => K[i] < K[j]
      /\ \A i \in 1 .. Len(K) : K[i] \in 1 .. Len(t) /\ t[K[i]].parent = n
  BY KidsFacts
<1>2. X \in [1 .. l -> SUBSET (1 .. Len(t))] /\ \A i \in 1 .. l : X[i] \subseteq Sub(t, K[i])
  OBVIOUS
<1>. HIDE DEF K
<1>3. l \in Nat /\ Len(t) \in Nat
  BY <1>1, TreeFacts
<1>4. ASSUME NEW i \in 1 .. l, NEW j \in 1 .. l, i < j, NEW a \in X[i], NEW b \in X[j]
      PROVE  a < b
  <2>1. K[i] \in 1 .. Len(t) /\ K[j] \in 1 .. Len(t) /\ K[i] < K[j]
        /\ t[K[i]].parent = n /\ t[K[j]].parent = n
    BY <1>1, <1>4
  <2>2. a \in Sub(t, K[i]) /\ b \in Sub(t, K[j])
    BY <1>2
  <2>3. a < K[j] /\ a \in Nat
    <3>1. a \in 1 .. Len(t)
      BY <2>2 DEF Sub
    <3>. QED  BY <2>1, <2>2, <3>1, Siblings
  <2>4. b \in Nat /\ K[j] <= b
    BY <1>3, <2>1, <2>2 DEF Sub, Below
  <2>. QED  BY <2>1, <2>3, <2>4
<1>. HIDE DEF l
<1>5. FlattenSeq([i \in 1 .. l |-> Mask(Len(t), X[i], e)]) = Mask(Len(t), Before(X, l), e)
  BY <1>2, <1>3, <1>4, MaskFamily
<1>. QED  BY <1>5 DEF l, K

-----------------------------------------------------------------------------
(***************************************************************************)
(* What getTextContent and findPlaceholders gather, by the equations that  *)
(* define them.                                                            *)
(***************************************************************************)

\* The text of a node before that of its children.
LEMMA GatherAll ==
  ASSUME NEW t, IsTree(t), NEW n \in 1 .. Len(t), NEW S, NEW e, Pieces(e, Len(t), S)
  PROVE  Mask(Len(t), Sub(t, n), e)
           = Cat(e[n], FlattenSeq([i \in DOMAIN Kids(t, n) |-> Mask(Len(t), Sub(t, Kids(t, n)[i]), e)]))
<1>. DEFINE K == Kids(t, n)
            l == Len(Kids(t, n))
            X == [i \in 1 .. l |-> Sub(t, K[i])]
            B == Before(X, l)
<1>1. Len(t) \in Nat /\ DOMAIN K = 1 .. l
  BY TreeFacts, KidsFacts
<1>2. X \in [1 .. l -> SUBSET (1 .. Len(t))] /\ \A i \in 1 .. l : X[i] = Sub(t, K[i])
  BY DEF Sub
<1>. HIDE DEF X
<1>3. FlattenSeq([i \in 1 .. l |-> Mask(Len(t), X[i], e)]) = Mask(Len(t), B, e)
  BY <1>2, MaskKids
<1>4. [i \in 1 .. l |-> Mask(Len(t), X[i], e)] = [i \in DOMAIN K |-> Mask(Len(t), Sub(t, K[i]), e)]
  BY <1>1, <1>2
<1>5. B = Sub(t, n) \ {n}
  <2>1. ASSUME NEW m \in B PROVE m \in Sub(t, n) \ {n}
    <3>1. PICK i \in 1 .. l : m \in Sub(t, K[i])
      BY <1>2 DEF Before
    <3>. QED  BY <3>1, SubKids
  <2>2. ASSUME NEW m \in Sub(t, n) \ {n} PROVE m \in B
    <3>1. PICK i \in 1 .. l : m \in Sub(t, K[i])
      BY SubKids
    <3>. QED  BY <1>2, <3>1 DEF Before
  <2>. QED  BY <2>1, <2>2
<1>6. ASSUME NEW b \in B PROVE b \in 1 .. Len(t) /\ n < b
  BY <1>1, <1>5 DEF Sub, Below
<1>7. Sub(t, n) = {n} \cup B
  BY <1>5 DEF Sub
<1>. HIDE DEF B, K, l
<1>8. Mask(Len(t), {n} \cup B, e) = Cat(Mask(Len(t), {n}, e), Mask(Len(t), B, e))
  <2>1. {n} \in SUBSET (1 .. Len(t)) /\ B \in SUBSET (1 .. Len(t))
    BY <1>6
  <2>2. \A a \in {n}, b \in B : a < b
    BY <1>6
  <2>. QED  BY <1>1, <2>1, <2>2, MaskUnion
<1>9. Mask(Len(t), {n}, e) = e[n]
  BY <1>1, MaskSingle
<1>. QED  BY <1>3, <1>4, <1>7, <1>8, <1>9 DEF K

\* The outermost nodes of H in what is below n, n itself included.
Outer(t, H, n) == {m \in Sub(t, n) : m \in H /\ \A k \in Sub(t, n) : Below(t, k, m) => k \notin H}

\* They are n itself, or those of its children.
LEMMA OuterKids ==
  ASSUME NEW t, IsTree(t), NEW n \in 1 .. Len(t), NEW H
  PROVE  /\ n \in H => Outer(t, H, n) = {n}
         /\ n \notin H => \A m : m \in Outer(t, H, n) <=>
              \E i \in 1 .. Len(Kids(t, n)) : m \in Outer(t, H, Kids(t, n)[i])
<1>. DEFINE K == Kids(t, n)
            l == Len(K)
<1>1. /\ \A i \in 1 .. l : \A m \in Sub(t, K[i]) :
              m \in 1 .. Len(t) /\ n < m /\ m \in Sub(t, n) /\ Below(t, n, m)
      /\ \A m \in Sub(t, n) : m = n \/ \E i \in 1 .. l : m \in Sub(t, K[i])
      /\ \A i \in 1 .. l : K[i] \in 1 .. Len(t) /\ t[K[i]].parent = n
      /\ \A i, j \in 1 .. l : i < j => K[i] < K[j]
      /\ l \in Nat
  BY SubKids, KidsFacts
<1>2. n \in Sub(t, n) /\ ~Below(t, n, n)
  <2>1. n \in Nat
    BY TreeFacts
  <2>. QED  BY <2>1 DEF Sub, Below
<1>3. ASSUME n \in H PROVE Outer(t, H, n) = {n}
  <2>1. ASSUME NEW m \in Outer(t, H, n) PROVE m = n
    BY <1>2, <1>3 DEF Outer, Sub
  <2>2. \A k \in Sub(t, n) : ~Below(t, k, n)
    <3>1. ASSUME NEW k \in Sub(t, n), Below(t, k, n) PROVE FALSE
      <4>1. k \in Nat /\ n \in Nat /\ (k = n \/ n < k) /\ k < n
        BY <3>1, TreeFacts DEF Sub, Below
      <4>. QED  BY <4>1
    <3>. QED  BY <3>1
  <2>3. n \in Outer(t, H, n)
    BY <1>2, <1>3, <2>2 DEF Outer
  <2>. QED  BY <2>1, <2>3
<1>4. ASSUME n \notin H, NEW m \in Outer(t, H, n) PROVE \E i \in 1 .. l : m \in Outer(t, H, K[i])
  <2>1. m \in Sub(t, n) /\ m \in H /\ m # n /\ \A k \in Sub(t, n) : Below(t, k, m) => k \notin H
    BY <1>4 DEF Outer
  <2>2. PICK i \in 1 .. l : m \in Sub(t, K[i])
    BY <1>1, <2>1
  <2>. QED  BY <1>1, <2>1, <2>2 DEF Outer
<1>5. ASSUME n \notin H, NEW i \in 1 .. l, NEW m \in Outer(t, H, K[i]) PROVE m \in Outer(t, H, n)
  <2>. HIDE DEF K, l
  <2>1. m \in Sub(t, K[i]) /\ m \in H /\ \A k \in Sub(t, K[i]) : Below(t, k, m) => k \notin H
    BY DEF Outer
  <2>2. ASSUME NEW k \in Sub(t, n), Below(t, k, m), k \in H PROVE FALSE
    <3>1. PICK j \in 1 .. l : k \in Sub(t, K[j])
      BY <1>1, <1>5, <2>2
    <3>2. /\ k \in 1 .. Len(t) /\ m \in 1 .. Len(t) /\ K[i] \in 1 .. Len(t) /\ K[j] \in 1 .. Len(t)
          /\ t[K[i]].parent = n /\ t[K[j]].parent = n
      BY <1>1, <2>1, <3>1
    <3>3. m \in Sub(t, K[j])
      <4>1. k = K[j] \/ Below(t, K[j], k)
        BY <3>1 DEF Sub
      <4>2. Below(t, K[j], m)
        BY <2>2, <3>2, <4>1, BelowOrder
      <4>. QED  BY <3>2, <4>2 DEF Sub
    <3>4. CASE i = j
      BY <2>1, <2>2, <3>1, <3>4
    <3>5. CASE i < j
      <4>1. K[i] < K[j]
        BY <1>1, <3>5
      <4>2. m < K[j]
        BY <2>1, <3>2, <4>1, Siblings
      <4>3. K[j] <= m
        BY <3>2, <3>3 DEF Sub, Below
      <4>. QED  BY <3>2, <4>2, <4>3
    <3>6. CASE j < i
      <4>1. K[j] < K[i]
        BY <1>1, <3>6
      <4>2. m < K[i]
        BY <3>2, <3>3, <4>1, Siblings
      <4>3. K[i] <= m
        BY <2>1, <3>2 DEF Sub, Below
      <4>. QED  BY <3>2, <4>2, <4>3
    <3>7. i \in Nat /\ j \in Nat
      BY <1>1
    <3>. QED  BY <3>4, <3>5, <3>6, <3>7
  <2>3. m \in Sub(t, n)
    BY <1>1, <2>1
  <2>. QED  BY <2>1, <2>2, <2>3 DEF Outer
<1>. QED  BY <1>3, <1>4, <1>5

\* What is found below n, if n is not, is what is found below its children, in order.
LEMMA GatherOuter ==
  ASSUME NEW t, IsTree(t), NEW n \in 1 .. Len(t), NEW S, NEW e, Pieces(e, Len(t), S), NEW H
  PROVE  Mask(Len(t), Outer(t, H, n), e)
           = IF n \in H THEN e[n]
             ELSE FlattenSeq([i \in DOMAIN Kids(t, n) |-> Mask(Len(t), Outer(t, H, Kids(t, n)[i]), e)])
<1>1. CASE n \in H
  <2>1. Outer(t, H, n) = {n}
    BY <1>1, OuterKids
  <2>2. Mask(Len(t), {n}, e) = e[n]
    <3>1. Len(t) \in Nat
      BY TreeFacts
    <3>. QED  BY <3>1, MaskSingle
  <2>. QED  BY <1>1, <2>1, <2>2
<1>2. CASE n \notin H
  <2>. DEFINE K == Kids(t, n)
              l == Len(Kids(t, n))
              X == [i \in 1 .. l |-> Outer(t, H, K[i])]
              B == Before(X, l)
  <2>1. DOMAIN K = 1 .. l
    BY KidsFacts
  <2>2. /\ X \in [1 .. l -> SUBSET (1 .. Len(t))]
        /\ \A i \in 1 .. l : X[i] = Outer(t, H, K[i]) /\ X[i] \subseteq Sub(t, K[i])
    BY DEF Sub, Outer
  <2>. HIDE DEF X
  <2>3. FlattenSeq([i \in 1 .. l |-> Mask(Len(t), X[i], e)]) = Mask(Len(t), B, e)
    BY <2>2, MaskKids
  <2>4. [i \in 1 .. l |-> Mask(Len(t), X[i], e)] = [i \in DOMAIN K |-> Mask(Len(t), Outer(t, H, K[i]), e)]
    BY <2>1, <2>2
  <2>5. \A m : m \in Outer(t, H, n) <=> \E i \in 1 .. l : m \in Outer(t, H, K[i])
    BY <1>2, OuterKids
  <2>6. \A m : m \in B <=> \E i \in 1 .. l : m \in Outer(t, H, K[i])
    BY <2>2 DEF Before
  <2>. HIDE DEF B, K, l
  <2>7. B = Outer(t, H, n)
    BY <2>5, <2>6
  <2>. QED  BY <1>2, <2>3, <2>4, <2>7 DEF K
<1>. QED  BY <1>1, <1>2

-----------------------------------------------------------------------------
(***************************************************************************)
(* The same of the operators of ContentTree, while the nodes are those of  *)
(* the template.                                                           *)
(***************************************************************************)
Unchanged == IsTree(template) /\ children = [n \in Node |-> ChildNodes(n)]

TextOf == [m \in Node |-> template[m].text]

\* The nodes, and their children.
LEMMA NodeFacts ==
  ASSUME IsTree(template)
  PROVE  /\ Node = 1 .. Len(template) /\ Len(template) \in Nat /\ Root \in Node
         /\ \A n \in Node : ChildNodes(n) = Kids(template, n)
         /\ Pieces(TextOf, Len(template), Piece)
         /\ \A n \in Node : TextOf[n] = template[n].text
<1>1. Node = 1 .. Len(template) /\ Len(template) \in Nat /\ Root \in Node
  BY TreeFacts DEF Node, Root
<1>2. \A n \in Node : ChildNodes(n) = Kids(template, n)
  BY DEF ChildNodes, Kids, Node
<1>3. \A n \in Node : TextOf[n] = template[n].text
  BY DEF TextOf
<1>4. Pieces(TextOf, Len(template), Piece)
  BY <1>1, <1>3, TreeFacts DEF Pieces
<1>. QED  BY <1>1, <1>2, <1>3, <1>4

\* What a cell reads, by what is below it.
LEMMA ReadsIs ==
  ASSUME IsTree(template), NEW n \in Node
  PROVE  Reads(n) = Mask(Len(template), Sub(template, n), TextOf)
<1>1. Node = 1 .. Len(template) /\ \A m \in Node : TextOf[m] = template[m].text
  BY NodeFacts
<1>2. \A m \in Node : m = n \/ n \in Above[m] <=> m \in Sub(template, n)
  BY <1>1, AboveIsBelow DEF Above, Sub
<1>3. [m \in Node |-> IF m = n \/ n \in Above[m] THEN template[m].text ELSE <<>>]
        = Masked(Len(template), Sub(template, n), TextOf)
  BY <1>1, <1>2 DEF Masked
<1>. QED  BY <1>3 DEF Reads, Mask

\* getTextContent returns what the node reads.
LEMMA TextContentIs ==
  ASSUME Unchanged
  PROVE  \A n \in Node : TextContent[n] = Reads(n)
<1>. DEFINE t == template
            W == [n \in Node |-> Mask(Len(t), Sub(t, n), TextOf)]
            Of(f, n) == Cat(t[n].text, FlattenSeq([i \in DOMAIN children[n] |-> f[children[n][i]]]))
            C == CHOOSE f : f = [n \in Node |-> Of(f, n)]
<1>1. IsTree(t) /\ Node = 1 .. Len(t) /\ Pieces(TextOf, Len(t), Piece)
      /\ \A n \in Node : TextOf[n] = t[n].text /\ children[n] = Kids(t, n)
  BY NodeFacts DEF Unchanged
<1>2. \A n \in Node : \A i \in DOMAIN Kids(t, n) : Kids(t, n)[i] \in Node /\ t[Kids(t, n)[i]].parent = n
  BY <1>1, KidsFacts
<1>3. \A n \in Node : W[n] = Mask(Len(t), Sub(t, n), TextOf)
  OBVIOUS
<1>. HIDE DEF W
<1>4. ASSUME NEW n \in Node PROVE W[n] = Of(W, n)
  <2>. DEFINE K == Kids(t, n)
  <2>1. [i \in DOMAIN K |-> W[K[i]]] = [i \in DOMAIN K |-> Mask(Len(t), Sub(t, K[i]), TextOf)]
    BY <1>2, <1>3
  <2>2. W[n] = Cat(TextOf[n], FlattenSeq([i \in DOMAIN K |-> Mask(Len(t), Sub(t, K[i]), TextOf)]))
    BY <1>1, <1>3, GatherAll
  <2>. QED  BY <1>1, <2>1, <2>2
<1>5. W = [n \in Node |-> Of(W, n)]
  <2>1. W = [n \in Node |-> W[n]]
    BY DEF W
  <2>. HIDE DEF Of
  <2>. QED  BY <1>4, <2>1
<1>6. TextContent = C
  BY DEF TextContent, Cat
<1>7. C = [n \in Node |-> Of(C, n)]
  BY <1>5
<1>. HIDE DEF C
<1>8. \A n \in Node : C[n] = Of(C, n)
  <2>. HIDE DEF Of
  <2>. QED  BY <1>7
<1>. DEFINE P == {n \in Node : C[n] = W[n]}
<1>9. ASSUME NEW n \in Node, \A c \in Node : t[c].parent = n => c \in P PROVE n \in P
  <2>1. [i \in DOMAIN children[n] |-> C[children[n][i]]] = [i \in DOMAIN children[n] |-> W[children[n][i]]]
    <3>1. \A i \in DOMAIN children[n] : C[children[n][i]] = W[children[n][i]]
      BY <1>1, <1>2, <1>9
    <3>. QED  BY <3>1
  <2>2. Of(C, n) = Of(W, n)
    BY <2>1
  <2>. HIDE DEF Of
  <2>. QED  BY <1>4, <1>8, <2>2
<1>. HIDE DEF P
<1>10. \A n \in Node : n \in P
  BY <1>1, <1>9, TreeInduction
<1>11. \A n \in Node : W[n] = Reads(n)
  BY <1>1, <1>3, ReadsIs
<1>. QED  BY <1>6, <1>10, <1>11 DEF P

\* The nodes that hold a placeholder are the cells for filling.
LEMMA HoldsIs ==
  ASSUME Unchanged, NEW n \in Node
  PROVE  /\ HoldsPlaceholder(n) <=> ForFilling(n)
         /\ HoldsPlaceholder(n) => PlaceholderRef(n) = [cell |-> n, style |-> n + 1, text |-> Reads(n)]
<1>1. IsTree(template) /\ Node = 1 .. Len(template) /\ children[n] = Kids(template, n)
  BY NodeFacts DEF Unchanged
<1>2. /\ children[n] # <<>> <=> n + 1 \in Node /\ template[n + 1].parent = n
      /\ children[n] # <<>> => children[n][1] = n + 1
  BY <1>1, FirstKid
<1>3. TextContent[n] = Reads(n)
  BY TextContentIs
<1>4. HoldsPlaceholder(n) <=> ForFilling(n)
  BY <1>2, <1>3 DEF HoldsPlaceholder, ForFilling
<1>. QED  BY <1>2, <1>3, <1>4 DEF HoldsPlaceholder, PlaceholderRef

ToFill == {n \in Node : ForFilling(n)}
RefOf  == [n \in Node |-> PlaceholderRef(n)]

\* findPlaceholders lists the outermost of them.
LEMMA FindPlaceholdersIs ==
  ASSUME Unchanged
  PROVE  FindPlaceholders = FlattenSeq(Picked(Len(template), Outer(template, ToFill, Root), RefOf))
<1>. DEFINE t == template
            e == [n \in Node |-> <<PlaceholderRef(n)>>]
            S == {PlaceholderRef(n) : n \in Node}
            W == [n \in Node |-> Mask(Len(t), Outer(t, ToFill, n), e)]
            Below0(f, n) == FlattenSeq([i \in DOMAIN children[n] |-> f[children[n][i]]])
            Of(f, n) == IF HoldsPlaceholder(n) THEN <<PlaceholderRef(n)>> ELSE Below0(f, n)
            C == CHOOSE f : f = [n \in Node |-> Of(f, n)]
<1>1. IsTree(t) /\ Node = 1 .. Len(t) /\ Len(t) \in Nat /\ Root \in Node
      /\ \A n \in Node : children[n] = Kids(t, n)
  BY NodeFacts DEF Unchanged
<1>2. \A n \in Node : \A i \in DOMAIN Kids(t, n) : Kids(t, n)[i] \in Node /\ t[Kids(t, n)[i]].parent = n
  BY <1>1, KidsFacts
<1>3. \A n \in Node : W[n] = Mask(Len(t), Outer(t, ToFill, n), e)
  OBVIOUS
<1>4. \A n \in Node : e[n] = <<PlaceholderRef(n)>>
  OBVIOUS
<1>5. Pieces(e, Len(t), S)
  BY <1>1 DEF Pieces
<1>6. \A n \in Node : HoldsPlaceholder(n) <=> n \in ToFill
  BY HoldsIs DEF ToFill
<1>. HIDE DEF W, e, S
<1>7. ASSUME NEW n \in Node PROVE W[n] = Of(W, n)
  <2>. DEFINE K == Kids(t, n)
  <2>1. [i \in DOMAIN K |-> W[K[i]]] = [i \in DOMAIN K |-> Mask(Len(t), Outer(t, ToFill, K[i]), e)]
    BY <1>2, <1>3
  <2>2. W[n] = IF n \in ToFill THEN e[n]
               ELSE FlattenSeq([i \in DOMAIN K |-> Mask(Len(t), Outer(t, ToFill, K[i]), e)])
    BY <1>1, <1>3, <1>5, GatherOuter
  <2>. QED  BY <1>1, <1>4, <1>6, <2>1, <2>2
<1>8. W = [n \in Node |-> Of(W, n)]
  <2>1. W = [n \in Node |-> W[n]]
    BY DEF W
  <2>. HIDE DEF Of
  <2>. QED  BY <1>7, <2>1
<1>9. FindPlaceholders = C[Root]
  BY DEF FindPlaceholders
<1>10. C = [n \in Node |-> Of(C, n)]
  BY <1>8
<1>. HIDE DEF C
<1>11. \A n \in Node : C[n] = Of(C, n)
  <2>. HIDE DEF Of
  <2>. QED  BY <1>10
<1>. DEFINE P == {n \in Node : C[n] = W[n]}
<1>12. ASSUME NEW n \in Node, \A c \in Node : t[c].parent = n => c \in P PROVE n \in P
  <2>1. [i \in DOMAIN children[n] |-> C[children[n][i]]] = [i \in DOMAIN children[n] |-> W[children[n][i]]]
    <3>1. \A i \in DOMAIN children[n] : C[children[n][i]] = W[children[n][i]]
      BY <1>1, <1>2, <1>12
    <3>. QED  BY <3>1
  <2>2. Of(C, n) = Of(W, n)
    BY <2>1
  <2>. HIDE DEF Of
  <2>. QED  BY <1>7, <1>11, <2>2
<1>. HIDE DEF P
<1>13. \A n \in Node : n \in P
  BY <1>1, <1>12, TreeInduction
<1>14. FindPlaceholders = Mask(Len(t), Outer(t, ToFill, Root), e)
  BY <1>1, <1>3, <1>9, <1>13 DEF P
<1>15. Masked(Len(t), Outer(t, ToFill, Root), e) = Picked(Len(t), Outer(t, ToFill, Root), RefOf)
  <2>1. \A n \in Node : e[n] = <<RefOf[n]>>
    BY <1>4 DEF RefOf
  <2>. QED  BY <1>1, <2>1 DEF Masked, Picked
<1>. QED  BY <1>14, <1>15 DEF Mask

-----------------------------------------------------------------------------
(***************************************************************************)
(* The inductive invariant.                                                *)
(***************************************************************************)
Ref == [cell : Node, style : Nat, text : Seq(Piece)]

\* What is above a node is what it is below of; all are below the root.
LEMMA AboveIs ==
  ASSUME IsTree(template)
  PROVE  /\ \A n \in Node : Above[n] = {m \in Node : Below(template, m, n)}
         /\ Sub(template, Root) = Node
<1>1. Node = 1 .. Len(template) /\ Len(template) \in Nat
  BY NodeFacts
<1>2. \A n \in Node : Above[n] = {m \in Node : Below(template, m, n)}
  BY <1>1, AboveIsBelow DEF Above
<1>3. ASSUME NEW n \in Node PROVE n = 1 \/ Below(template, 1, n)
  <2>1. \A k \in 1 + 1 .. n : k \in 1 .. Len(template) /\ k # 1
    BY <1>1
  <2>2. \A k \in 1 + 1 .. n : template[k].parent \in 1 .. Len(template)
    BY <2>1, TreeFacts
  <2>. QED  BY <1>1, <2>2 DEF Below
<1>. QED  BY <1>1, <1>2, <1>3 DEF Sub, Root

\* What Find puts into refs.
LEMMA FoundIs ==
  ASSUME Unchanged
  PROVE  LET r == FindPlaceholders
         IN  /\ r \in Seq(Ref)
             /\ \A i, j \in DOMAIN r : i < j => r[i].cell < r[j].cell
             /\ {r[i].cell : i \in DOMAIN r} =
                  {n \in Node : ForFilling(n) /\ \A m \in Above[n] : ~ForFilling(m)}
             /\ \A i \in DOMAIN r : r[i].text = Reads(r[i].cell) /\ r[i].style = r[i].cell + 1
<1>. DEFINE r == FindPlaceholders
            A == Outer(template, ToFill, Root)
<1>1. /\ IsTree(template) /\ Node = 1 .. Len(template) /\ Len(template) \in Nat
      /\ Pieces(TextOf, Len(template), Piece)
  BY NodeFacts DEF Unchanged
<1>2. r = FlattenSeq(Picked(Len(template), A, RefOf))
  BY FindPlaceholdersIs
<1>3. A = {n \in Node : ForFilling(n) /\ \A m \in Above[n] : ~ForFilling(m)}
  BY <1>1, AboveIs DEF Outer, ToFill
<1>4. ASSUME NEW a \in A
      PROVE  RefOf[a] = [cell |-> a, style |-> a + 1, text |-> Reads(a)] /\ RefOf[a] \in Ref
  <2>1. a \in Node /\ ForFilling(a)
    BY <1>3
  <2>2. RefOf[a] = [cell |-> a, style |-> a + 1, text |-> Reads(a)]
    BY <2>1, HoldsIs DEF RefOf
  <2>3. Reads(a) \in Seq(Piece)
    <3>1. Reads(a) = Mask(Len(template), Sub(template, a), TextOf)
      BY <1>1, <2>1, ReadsIs
    <3>2. Mask(Len(template), Sub(template, a), TextOf) \in Seq(Piece)
      BY <1>1, MaskedType
    <3>. QED  BY <3>1, <3>2
  <2>4. a + 1 \in Nat
    BY <1>1, <2>1
  <2>. QED  BY <2>1, <2>2, <2>3, <2>4 DEF Ref
<1>5. A \in SUBSET (1 .. Len(template))
  BY <1>1, <1>3
<1>. HIDE DEF r, A
<1>6. r \in Seq(Ref) /\ Lists(r, A, RefOf)
  BY <1>1, <1>2, <1>4, <1>5, FlattenSeqLists
<1>7. PICK pos \in [1 .. Len(r) -> A] :
        /\ \A i, j \in 1 .. Len(r) : i < j => pos[i] < pos[j]
        /\ \A a \in A : \E i \in 1 .. Len(r) : pos[i] = a
        /\ \A i \in 1 .. Len(r) : r[i] = RefOf[pos[i]]
  BY <1>6 DEF Lists
<1>8. DOMAIN r = 1 .. Len(r)
  BY <1>6
<1>9. \A i \in DOMAIN r : /\ r[i].cell = pos[i] /\ r[i].cell \in A
                          /\ r[i].style = r[i].cell + 1 /\ r[i].text = Reads(r[i].cell)
  <2>1. ASSUME NEW i \in DOMAIN r
        PROVE  /\ r[i].cell = pos[i] /\ r[i].cell \in A
               /\ r[i].style = r[i].cell + 1 /\ r[i].text = Reads(r[i].cell)
    <3>1. pos[i] \in A /\ r[i] = RefOf[pos[i]]
      BY <1>7, <1>8
    <3>2. r[i] = [cell |-> pos[i], style |-> pos[i] + 1, text |-> Reads(pos[i])]
      BY <1>4, <3>1
    <3>. QED  BY <3>1, <3>2
  <2>. QED  BY <2>1
<1>10. {r[i].cell : i \in DOMAIN r} = A
  BY <1>7, <1>8, <1>9
<1>11. \A i, j \in DOMAIN r : i < j => r[i].cell < r[j].cell
  BY <1>7, <1>8, <1>9
<1>. QED  BY <1>3, <1>6, <1>9, <1>10, <1>11 DEF r

\* The invariant has the template be a tree.
LEMMA InvIsTree ==
  ASSUME template \in Template
  PROVE  IsTree(template)
BY TemplateAssumption DEF IsTree

\* The operators of the template alone stay what they are.
LEMMA TemplateStays ==
  ASSUME template' = template
  PROVE  /\ Node' = Node /\ Above' = Above
         /\ \A n : ChildNodes(n)' = ChildNodes(n) /\ Reads(n)' = Reads(n)
                   /\ ForFilling(n)' = ForFilling(n) /\ Paragraph(n)' = Paragraph(n)
<1>1. Node' = Node /\ Above' = Above
  BY DEF Node, Above, AboveIn
<1>2. \A n : ChildNodes(n)' = ChildNodes(n) /\ Reads(n)' = Reads(n) /\ Paragraph(n)' = Paragraph(n)
  BY <1>1 DEF ChildNodes, Reads, Paragraph
<1>3. \A n : ForFilling(n)' = ForFilling(n)
  BY <1>1, <1>2 DEF ForFilling
<1>. QED  BY <1>1, <1>2, <1>3

\* What was found stays the outermost cells while they are filled.
LEMMA FoundStays ==
  ASSUME FoundAreOutermost, stage # "find", template' = template, refs' = refs
  PROVE  FoundAreOutermost'
BY TemplateStays DEF FoundAreOutermost

\* The cells found are nodes, and no two the same.
LEMMA CellsDiffer ==
  ASSUME Inv, stage # "find"
  PROVE  /\ Len(refs) \in Nat /\ DOMAIN refs = 1 .. Len(refs)
         /\ \A i \in 1 .. Len(refs) : refs[i].cell \in Node /\ ForFilling(refs[i].cell)
         /\ \A i, j \in 1 .. Len(refs) : i # j => refs[i].cell # refs[j].cell
<1>1. /\ refs \in Seq([cell : Node, style : Nat, text : Seq(Piece)])
      /\ IsTree(template) /\ FoundAreOutermost
  BY InvIsTree DEF Inv
<1>2. Len(refs) \in Nat /\ DOMAIN refs = 1 .. Len(refs)
  BY <1>1
<1>3. \A i \in 1 .. Len(refs) : refs[i].cell \in Node /\ ForFilling(refs[i].cell)
  BY <1>1, <1>2 DEF FoundAreOutermost
<1>4. \A i, j \in 1 .. Len(refs) : i < j => refs[i].cell < refs[j].cell
  BY <1>1, <1>2 DEF FoundAreOutermost
<1>5. \A n \in Node : n \in Nat
  BY <1>1, NodeFacts
<1>. HIDE DEF FoundAreOutermost
<1>6. ASSUME NEW i \in 1 .. Len(refs), NEW j \in 1 .. Len(refs), i # j
      PROVE  refs[i].cell # refs[j].cell
  <2>1. i < j \/ j < i
    BY <1>2, <1>6
  <2>2. refs[i].cell \in Nat /\ refs[j].cell \in Nat
    BY <1>3, <1>5
  <2>3. refs[i].cell < refs[j].cell \/ refs[j].cell < refs[i].cell
    BY <1>4, <2>1
  <2>. QED  BY <2>2, <2>3
<1>. QED  BY <1>2, <1>3, <1>6

\* It holds at first.
LEMMA InvInit == Init => Inv
BY DEF Init, Inv, FoundAreOutermost

\* What it says while the cells before the one at hand are filled.
LEMMA WhileFilling ==
  ASSUME template' = template, refs' = refs, template \in Template,
         stage' = "fill", at' \in Nat \ {0}, at' <= Len(refs) + 1,
         refs \in Seq([cell : Node, style : Nat, text : Seq(Piece)]),
         \A i \in DOMAIN refs : refs[i].style = refs[i].cell + 1,
         DOMAIN children' = Node,
         \A n \in Node : (\A i \in DOMAIN refs : refs[i].cell # n) => children'[n] = ChildNodes(n),
         \A i \in 1 .. at' - 1 : children'[refs[i].cell] = <<Paragraph(i)>>,
         FoundAreOutermost'
  PROVE  Inv'
<1>1. Node' = Node /\ \A n : ChildNodes(n)' = ChildNodes(n) /\ Paragraph(n)' = Paragraph(n)
  BY TemplateStays
<1>2. \A n \in Node' : (\A i \in DOMAIN refs' : refs'[i].cell # n) =>
                         children'[n] = ChildNodes(n)'
  BY <1>1
<1>3. \A i \in 1 .. at' - 1 : children'[refs'[i].cell] = <<Paragraph(i)'>>
  BY <1>1
<1>4. refs' \in Seq([cell : Node', style : Nat, text : Seq(Piece)]) /\ DOMAIN children' = Node'
  BY <1>1
<1>. QED  BY <1>2, <1>3, <1>4 DEF Inv

\* Every step keeps it.
LEMMA InvNext == Inv /\ [Next]_vars => Inv'
<1>. SUFFICES ASSUME Inv, [Next]_vars PROVE Inv'
  OBVIOUS
<1>1. IsTree(template)
  BY InvIsTree DEF Inv
<1>2. CASE Find
  <2>1. Unchanged /\ refs' = FindPlaceholders /\ template' = template /\ children' = children
        /\ stage' = "fill" /\ at' = 1
    BY <1>1, <1>2 DEF Inv, Find, Unchanged
  <2>. DEFINE r == FindPlaceholders
  <2>2. /\ r \in Seq(Ref)
        /\ \A i, j \in DOMAIN r : i < j => r[i].cell < r[j].cell
        /\ {r[i].cell : i \in DOMAIN r} =
             {n \in Node : ForFilling(n) /\ \A m \in Above[n] : ~ForFilling(m)}
        /\ \A i \in DOMAIN r : r[i].text = Reads(r[i].cell) /\ r[i].style = r[i].cell + 1
    BY <2>1, FoundIs
  <2>. HIDE DEF r
  <2>3. refs' = r
    BY <2>1 DEF r
  <2>4. FoundAreOutermost'
    BY <2>1, <2>2, <2>3, TemplateStays DEF FoundAreOutermost
  <2>5. /\ (refs \in Seq([cell : Node, style : Nat, text : Seq(Piece)]))'
        /\ 1 <= Len(r) + 1
        /\ \A i \in DOMAIN r : r[i].style = r[i].cell + 1
    BY <2>1, <2>2, <2>3, TemplateStays DEF Ref
  <2>6. (DOMAIN children = Node)' /\ \A n \in Node : children'[n] = ChildNodes(n)'
    BY <2>1, TemplateStays DEF Unchanged
  <2>. QED  BY <2>1, <2>3, <2>4, <2>5, <2>6, TemplateStays DEF Inv
<1>3. CASE RemoveFirstChild
  <2>1. /\ stage = "fill" /\ stage' = "fill" /\ at <= Len(refs)
        /\ children' = [children EXCEPT ![Cell] = Tail(@)]
        /\ template' = template /\ refs' = refs /\ at' = at
    BY <1>3 DEF RemoveFirstChild
  <2>2. /\ at \in DOMAIN refs /\ DOMAIN refs = 1 .. Len(refs)
        /\ \A i \in 1 .. at - 1 : i \in DOMAIN refs /\ i < at
    <3>1. at \in Nat \ {0}
      BY DEF Inv
    <3>. QED  BY <2>1, <3>1, CellsDiffer
  <2>3. \A n : n # Cell => children'[n] = children[n]
    BY <2>1 DEF Inv
  <2>4. \A i \in 1 .. at - 1 : refs[i].cell # Cell
    BY <2>1, <2>2, CellsDiffer DEF Cell
  <2>5. FoundAreOutermost'
    BY <2>1, FoundStays DEF Inv
  <2>6. \A n \in Node : (\A i \in DOMAIN refs : refs[i].cell # n) => children'[n] = ChildNodes(n)
    BY <2>1, <2>2, <2>3 DEF Inv, Cell
  <2>7. \A i \in 1 .. at - 1 : children'[refs[i].cell] = <<Paragraph(i)>>
    <3>1. \A i \in 1 .. at - 1 : children[refs[i].cell] = <<Paragraph(i)>>
      BY <2>1 DEF Inv
    <3>. QED  BY <2>3, <2>4, <3>1
  <2>8. /\ template \in Template /\ DOMAIN children' = Node
        /\ refs \in Seq([cell : Node, style : Nat, text : Seq(Piece)])
        /\ \A i \in DOMAIN refs : refs[i].style = refs[i].cell + 1
        /\ at \in Nat \ {0} /\ at <= Len(refs) + 1
    BY <2>1 DEF Inv
  <2>. QED  BY <2>1, <2>5, <2>6, <2>7, <2>8, WhileFilling
<1>4. CASE AppendParagraph
  <2>1. /\ stage = "fill" /\ stage' = "fill" /\ at <= Len(refs)
        /\ children' = [children EXCEPT ![Cell] = <<Paragraph(at)>>]
        /\ template' = template /\ refs' = refs /\ at' = at + 1
    BY <1>4 DEF AppendParagraph
  <2>2. /\ at \in DOMAIN refs /\ DOMAIN refs = 1 .. Len(refs) /\ Cell \in Node
        /\ \A i \in 1 .. at - 1 : i \in DOMAIN refs /\ i < at
        /\ at + 1 <= Len(refs) + 1 /\ at + 1 \in Nat \ {0}
        /\ \A i \in 1 .. (at + 1) - 1 : i \in 1 .. at - 1 \/ i = at
    <3>1. at \in Nat \ {0}
      BY DEF Inv
    <3>2. Len(refs) \in Nat /\ at \in 1 .. Len(refs)
      BY <2>1, <3>1, CellsDiffer
    <3>. QED  BY <2>1, <3>1, <3>2, CellsDiffer DEF Cell
  <2>3. (\A n : n # Cell => children'[n] = children[n]) /\ children'[Cell] = <<Paragraph(at)>>
    BY <2>1, <2>2 DEF Inv
  <2>4. \A i \in 1 .. at - 1 : refs[i].cell # Cell
    BY <2>1, <2>2, CellsDiffer DEF Cell
  <2>5. FoundAreOutermost'
    BY <2>1, FoundStays DEF Inv
  <2>6. \A n \in Node : (\A i \in DOMAIN refs : refs[i].cell # n) => children'[n] = ChildNodes(n)
    BY <2>1, <2>2, <2>3 DEF Inv, Cell
  <2>7. \A i \in 1 .. (at + 1) - 1 : children'[refs[i].cell] = <<Paragraph(i)>>
    <3>1. \A i \in 1 .. at - 1 : children[refs[i].cell] = <<Paragraph(i)>>
      BY <2>1 DEF Inv
    <3>. QED  BY <2>2, <2>3, <2>4, <3>1 DEF Cell
  <2>8. /\ template \in Template /\ DOMAIN children' = Node
        /\ refs \in Seq([cell : Node, style : Nat, text : Seq(Piece)])
        /\ \A i \in DOMAIN refs : refs[i].style = refs[i].cell + 1
    BY <2>1 DEF Inv
  <2>. QED  BY <2>1, <2>2, <2>5, <2>6, <2>7, <2>8, WhileFilling
<1>5. CASE FilledAll
  <2>1. /\ stage = "fill" /\ stage' = "over" /\ at > Len(refs)
        /\ UNCHANGED <<template, children, refs, at>>
    BY <1>5 DEF FilledAll
  <2>2. FoundAreOutermost'
    BY <2>1, FoundStays DEF Inv
  <2>. QED  BY <2>1, <2>2, TemplateStays DEF Inv
<1>6. CASE UNCHANGED vars
  <2>1. UNCHANGED <<stage, template, children, refs, at>>
    BY <1>6 DEF vars
  <2>2. FoundAreOutermost'
    <3>1. CASE stage = "find"
      BY <2>1, <3>1 DEF FoundAreOutermost
    <3>2. CASE stage # "find"
      BY <2>1, <3>2, FoundStays DEF Inv
    <3>. QED  BY <3>1, <3>2
  <2>. QED  BY <2>1, <2>2, TemplateStays DEF Inv
<1>. QED  BY <1>2, <1>3, <1>4, <1>5, <1>6 DEF Next

\* It is an invariant.
LEMMA Invariant == Spec => []Inv
BY InvInit, InvNext, PTL DEF Spec

-----------------------------------------------------------------------------
(***************************************************************************)
(* What is in the document.                                                *)
(***************************************************************************)

\* What no placeholder's cell is above of is in the document.
LEMMA InDocumentWhen ==
  ASSUME Inv, stage # "find", NEW n \in Node, \A i \in DOMAIN refs : refs[i].cell \notin Above[n]
  PROVE  n \in InDocument
<1>1. /\ IsTree(template) /\ Node = 1 .. Len(template) /\ Root = 1
      /\ \A m \in Node : ChildNodes(m) = Kids(template, m)
  BY InvIsTree, NodeFacts DEF Inv, Root
<1>2. Above[n] = {m \in Node : Below(template, m, n)}
  BY <1>1, AboveIs
<1>3. ASSUME NEW m \in Above[n] \cup {n}, m # Root
      PROVE  \E i \in DOMAIN children[template[m].parent] : children[template[m].parent][i] = m
  <2>. DEFINE p == template[m].parent
  <2>1. m \in Node /\ (m = n \/ Below(template, m, n))
    BY <1>2
  <2>2. p \in Node
    BY <1>1, <1>3, <2>1, TreeFacts
  <2>3. Below(template, p, m)
    BY <1>1, <1>3, <2>1, <2>2, BelowParent
  <2>4. p \in Above[n]
    BY <1>1, <1>2, <2>1, <2>2, <2>3, BelowOrder
  <2>5. children[p] = Kids(template, p)
    BY <1>1, <2>2, <2>4 DEF Inv
  <2>6. DOMAIN Kids(template, p) = 1 .. Len(Kids(template, p))
    BY <1>1, <2>2, KidsFacts
  <2>7. \E i \in 1 .. Len(Kids(template, p)) : Kids(template, p)[i] = m
    <3>1. \A k \in 1 .. Len(template) : template[k].parent = p =>
            \E i \in 1 .. Len(Kids(template, p)) : Kids(template, p)[i] = k
      BY SMTT(30), <1>1, <2>2, KidsFacts
    <3>2. m \in 1 .. Len(template) /\ template[m].parent = p
      BY <1>1, <2>1
    <3>. QED  BY <3>1, <3>2
  <2>. QED  BY <2>5, <2>6, <2>7
<1>. QED  BY <1>3 DEF InDocument

\* What is below a cell that has been filled is not.
LEMMA NotInDocumentWhen ==
  ASSUME Inv, stage # "find", NEW n \in Node, NEW i \in 1 .. at - 1, refs[i].cell \in Above[n]
  PROVE  n \notin InDocument
<1>. DEFINE c == refs[i].cell
<1>1. /\ IsTree(template) /\ Node = 1 .. Len(template) /\ Root = 1 /\ Len(template) \in Nat
  BY InvIsTree, NodeFacts DEF Inv, Root
<1>2. Above[n] = {m \in Node : Below(template, m, n)}
  BY <1>1, AboveIs
<1>3. c \in Node /\ Below(template, c, n) /\ children[c] = <<Paragraph(i)>>
  BY <1>2 DEF Inv
<1>4. PICK m \in Node : template[m].parent = c /\ (m = n \/ Below(template, m, n))
  BY <1>1, <1>3, ChildOnPath
<1>5. m # Root
  BY <1>1, <1>3, <1>4, TreeFacts
<1>6. m \in Above[n] \cup {n}
  BY <1>2, <1>4
<1>7. Paragraph(i) # m
  <2>1. i \in Nat /\ i >= 1
    BY DEF Inv
  <2>. QED  BY <1>1, <2>1 DEF Paragraph
<1>8. \A j \in DOMAIN children[c] : children[c][j] # m
  BY <1>3, <1>7
<1>. QED  BY <1>4, <1>5, <1>6, <1>8 DEF InDocument

\* The placeholders found are the outermost cells for filling, each once and in the
\* order of the document, of templates of any number of nodes (findPlaceholders).
THEOREM FoundAreOutermostCells == Spec => []FoundAreOutermost
<1>1. Inv => FoundAreOutermost
  BY DEF Inv
<1>. QED  BY <1>1, Invariant, PTL

\* The cell that is at hand and all that are still to be filled are in the document,
\* whatever has been removed from it (fillPlaceholderWithContent).
THEOREM NoPlaceholderIsLost == Spec => []NoneIsLost
<1>1. ASSUME Inv, stage = "fill", NEW i \in at .. Len(refs) PROVE refs[i].cell \in InDocument
  <2>1. at \in Nat \ {0} /\ FoundAreOutermost
    BY <1>1 DEF Inv
  <2>2. Len(refs) \in Nat /\ DOMAIN refs = 1 .. Len(refs)
        /\ \A j \in 1 .. Len(refs) : refs[j].cell \in Node /\ ForFilling(refs[j].cell)
    BY <1>1, CellsDiffer
  <2>3. i \in DOMAIN refs
    BY <2>1, <2>2
  <2>4. \A m \in Above[refs[i].cell] : ~ForFilling(m)
    BY <1>1, <2>1, <2>3 DEF FoundAreOutermost
  <2>5. \A j \in DOMAIN refs : refs[j].cell \notin Above[refs[i].cell]
    BY <2>2, <2>4
  <2>. QED  BY <1>1, <2>2, <2>3, <2>5, InDocumentWhen
<1>2. Inv => NoneIsLost
  BY <1>1 DEF NoneIsLost
<1>. QED  BY <1>2, Invariant, PTL

\* When all are filled, each cell holds its paragraph alone, in the style of the first
\* one that was there, and what is not below such a cell is as it was.
THEOREM TheDocumentIsFilled == Spec => []DocumentIsFilled
<1>1. ASSUME Inv, stage = "over" PROVE DocumentIsFilled
  <2>1. /\ Len(refs) \in Nat /\ DOMAIN refs = 1 .. Len(refs) /\ at = Len(refs) + 1
    <3>1. Len(refs) \in Nat /\ DOMAIN refs = 1 .. Len(refs)
      BY <1>1, CellsDiffer
    <3>2. at \in Nat /\ at > Len(refs) /\ at <= Len(refs) + 1
      BY <1>1 DEF Inv
    <3>. QED  BY <3>1, <3>2
  <2>2. \A i \in DOMAIN refs : i \in 1 .. at - 1
    BY <2>1
  <2>3. InDocument = {n \in Node : \A i \in DOMAIN refs : refs[i].cell \notin Above[n]}
    <3>1. \A n \in InDocument : n \in Node
      BY DEF InDocument
    <3>2. \A n \in Node : (\A i \in DOMAIN refs : refs[i].cell \notin Above[n]) => n \in InDocument
      BY <1>1, InDocumentWhen
    <3>3. \A n \in Node : \A i \in DOMAIN refs : refs[i].cell \in Above[n] => n \notin InDocument
      BY <1>1, <2>2, NotInDocumentWhen
    <3>. QED  BY <3>1, <3>2, <3>3
  <2>4. \A i \in DOMAIN refs : /\ children[refs[i].cell] = <<Paragraph(i)>>
                               /\ refs[i].style = refs[i].cell + 1
    BY <1>1, <2>2 DEF Inv
  <2>5. \A n \in InDocument : (\A i \in DOMAIN refs : refs[i].cell # n) => children[n] = ChildNodes(n)
    BY <1>1 DEF Inv, InDocument
  <2>. QED  BY <2>3, <2>4, <2>5 DEF DocumentIsFilled
<1>2. Inv => DocumentIsFilled
  BY <1>1 DEF DocumentIsFilled
<1>. QED  BY <1>2, Invariant, PTL
=============================================================================
