------------------------- MODULE SubsequencesProofs -------------------------
(* What is left of a list after a traversal, for every list.               *)
EXTENDS Subsequences, TLAPS

(***************************************************************************)
(* The facts about finite sets that the proofs count with.  The library    *)
(* proves them (FiniteSetTheorems), at the price of a long context for     *)
(* every obligation of a module that extends it.  So the lemmas take them  *)
(* as the hypothesis Counting, and the modules that state the theorems     *)
(* prove Counting from the library and discharge it.                       *)
(***************************************************************************)
SizeIsNatural ==
    \A S : IsFiniteSet(S) => Cardinality(S) \in Nat
SizeOfEmpty ==
    /\ IsFiniteSet({}) /\ Cardinality({}) = 0
    /\ \A S : IsFiniteSet(S) => (Cardinality(S) = 0 <=> S = {})
SizeOfSingleton ==
    \A x : IsFiniteSet({x}) /\ Cardinality({x}) = 1
SizeOfInterval ==
    \A a, b \in Int : /\ IsFiniteSet(a..b)
                      /\ Cardinality(a..b) = IF a > b THEN 0 ELSE b - a + 1
SizeOfSubset ==
    \A S : IsFiniteSet(S) => \A T \in SUBSET S :
       /\ IsFiniteSet(T)
       /\ Cardinality(T) <= Cardinality(S)
       /\ Cardinality(S) = Cardinality(T) => S = T
SizeOfRest ==
    \A S, x : IsFiniteSet(S) =>
       /\ IsFiniteSet(S \ {x})
       /\ Cardinality(S \ {x}) = IF x \in S THEN Cardinality(S) - 1 ELSE Cardinality(S)
SizeOfUnion ==
    \A S, T : IsFiniteSet(S) /\ IsFiniteSet(T) =>
       /\ IsFiniteSet(S \cup T)
       /\ Cardinality(S \cup T) = Cardinality(S) + Cardinality(T) - Cardinality(S \cap T)
OneToOne(f, S) == \A x, y \in S : f[x] = f[y] => x = y
Onto(f, S, T) == \A z \in T : \E x \in S : f[x] = z
SizeByInjection ==
    \A S, T : IsFiniteSet(T) => \A f \in [S -> T] :
       OneToOne(f, S) =>
          IsFiniteSet(S) /\ Cardinality(S) <= Cardinality(T)
InjectionIsOnto ==
    \A S, T : IsFiniteSet(T) /\ Cardinality(S) = Cardinality(T) => \A f \in [S -> T] :
       OneToOne(f, S) => Onto(f, S, T)
SizeByBijection ==
    \A S, T : IsFiniteSet(S) => \A f \in [S -> T] :
       OneToOne(f, S) /\ Onto(f, S, T) =>
          IsFiniteSet(T) /\ Cardinality(T) = Cardinality(S)
Counting ==
    /\ SizeIsNatural /\ SizeOfEmpty /\ SizeOfSingleton /\ SizeOfInterval /\ SizeOfSubset
    /\ SizeOfRest /\ SizeOfUnion /\ SizeByInjection
    /\ InjectionIsOnto /\ SizeByBijection

\* Counting, by name: the size of a finite set is a natural number.
LEMMA FiniteCount ==
    ASSUME Counting, NEW S, IsFiniteSet(S)
    PROVE  Cardinality(S) \in Nat
  BY Zenon DEF Counting, SizeIsNatural

\* Counting, by name: only the empty list, queue or set of identifiers has size zero.
LEMMA FiniteEmpty ==
    ASSUME Counting
    PROVE  /\ IsFiniteSet({}) /\ Cardinality({}) = 0
           /\ \A S : IsFiniteSet(S) => (Cardinality(S) = 0 <=> S = {})
  BY Zenon DEF Counting, SizeOfEmpty

\* Counting, by name: one message counts for one.
LEMMA FiniteSingleton ==
    ASSUME Counting
    PROVE  \A x : IsFiniteSet({x}) /\ Cardinality({x}) = 1
  BY Zenon DEF Counting, SizeOfSingleton

\* Counting, by name: the positions a..b of a list are b - a + 1.
LEMMA FiniteInterval ==
    ASSUME Counting, NEW a \in Int, NEW b \in Int
    PROVE  /\ IsFiniteSet(a..b)
           /\ Cardinality(a..b) = IF a > b THEN 0 ELSE b - a + 1
  BY Zenon DEF Counting, SizeOfInterval

\* Counting, by name: some positions of a list are no more than all, and as many only if all.
LEMMA FiniteSubset ==
    ASSUME Counting, NEW S, IsFiniteSet(S), NEW T \in SUBSET S
    PROVE  /\ IsFiniteSet(T)
           /\ Cardinality(T) <= Cardinality(S)
           /\ Cardinality(S) = Cardinality(T) => S = T
  BY Zenon DEF Counting, SizeOfSubset

\* Counting, by name: taking one position away lowers the size by one.
LEMMA FiniteRemove ==
    ASSUME Counting, NEW S, NEW x, IsFiniteSet(S)
    PROVE  /\ IsFiniteSet(S \ {x})
           /\ Cardinality(S \ {x}) = IF x \in S THEN Cardinality(S) - 1 ELSE Cardinality(S)
  BY Zenon DEF Counting, SizeOfRest

\* Counting, by name: two sets of positions together, the common ones counted once.
LEMMA FiniteUnion ==
    ASSUME Counting, NEW S, IsFiniteSet(S), NEW T, IsFiniteSet(T)
    PROVE  /\ IsFiniteSet(S \cup T)
           /\ Cardinality(S \cup T) = Cardinality(S) + Cardinality(T) - Cardinality(S \cap T)
  BY Zenon DEF Counting, SizeOfUnion

\* Counting, by name: a set that maps one to one into another is no larger.
LEMMA FiniteInjection ==
    ASSUME Counting, NEW S, NEW T, IsFiniteSet(T), NEW f \in [S -> T],
           OneToOne(f, S)
    PROVE  IsFiniteSet(S) /\ Cardinality(S) <= Cardinality(T)
  BY Zenon DEF Counting, SizeByInjection

\* Counting, by name: a one-to-one map into a set of the same size reaches every element.
LEMMA FiniteOnto ==
    ASSUME Counting, NEW S, NEW T, IsFiniteSet(T), Cardinality(S) = Cardinality(T),
           NEW f \in [S -> T], OneToOne(f, S)
    PROVE  Onto(f, S, T)
  BY Zenon DEF Counting, InjectionIsOnto

\* Counting, by name: moving every message to a place of its own keeps their number.
LEMMA FiniteBijection ==
    ASSUME Counting, NEW S, NEW T, IsFiniteSet(S), NEW f \in [S -> T],
           OneToOne(f, S),
           Onto(f, S, T)
    PROVE  IsFiniteSet(T) /\ Cardinality(T) = Cardinality(S)
  BY Zenon DEF Counting, SizeByBijection

\* Every rank from 1 to the number of positions is taken, and ranks grow with the
\* position: no message is skipped or kept twice when a loop deletes from a list.
LEMMA RankProperties ==
    ASSUME Counting, NEW n \in Nat, NEW K \in SUBSET (1..n)
    PROVE  /\ Cardinality(K) \in Nat
           /\ Cardinality(K) <= n
           /\ \A i \in K : Rank(K, i) \in 1..Cardinality(K)
           /\ \A i, k \in K : i < k => Rank(K, i) < Rank(K, k)
           /\ \A j \in 1..Cardinality(K) : \E i \in K : Rank(K, i) = j
<1> DEFINE Upto(i) == {h \in K : h <= i}
<1>1. IsFiniteSet(1..n) /\ Cardinality(1..n) = n
  BY FiniteInterval
<1>2. IsFiniteSet(K) /\ Cardinality(K) <= n
  BY <1>1, FiniteSubset, ZenonT(40)
<1>3. Cardinality(K) \in Nat
  BY <1>2, FiniteCount
<1>4. ASSUME NEW i \in K
      PROVE  IsFiniteSet(Upto(i)) /\ Rank(K, i) \in 1..Cardinality(K)
  <2>1. Upto(i) \in SUBSET K
    OBVIOUS
  <2>2. IsFiniteSet(Upto(i)) /\ Cardinality(Upto(i)) <= Cardinality(K)
    BY <1>2, <2>1, FiniteSubset
  <2>3. Cardinality(Upto(i)) \in Nat
    BY <2>2, FiniteCount
  <2>4. i \in Upto(i)
    OBVIOUS
  <2>5. Cardinality(Upto(i)) # 0
    BY <2>2, <2>4, FiniteEmpty
  <2> QED BY <1>3, <2>2, <2>3, <2>5 DEF Rank
<1>5. ASSUME NEW i \in K, NEW k \in K, i < k
      PROVE  Rank(K, i) < Rank(K, k)
  <2>1. Upto(i) \in SUBSET Upto(k)
    <3>1. ASSUME NEW h \in K, h <= i PROVE h <= k
      BY <1>5, <3>1
    <3> QED BY <3>1, Zenon
  <2>2. k \in Upto(k) /\ k \notin Upto(i)
    BY <1>5
  <2>3. /\ Cardinality(Upto(i)) <= Cardinality(Upto(k))
        /\ Cardinality(Upto(k)) # Cardinality(Upto(i))
    BY <1>4, <2>1, <2>2, FiniteSubset
  <2>4. Cardinality(Upto(i)) \in Nat /\ Cardinality(Upto(k)) \in Nat
    BY <1>4, FiniteCount
  <2> QED BY <2>3, <2>4 DEF Rank
<1>6. \A j \in 1..Cardinality(K) : \E i \in K : Rank(K, i) = j
  <2> DEFINE R == 1..Cardinality(K)
             f == [x \in K |-> Rank(K, x)]
  <2>1. f \in [K -> R]
    BY <1>4, Zenon
  <2>2. ASSUME NEW i \in K, NEW k \in K, f[i] = f[k] PROVE i = k
    <3>1. i < k \/ k < i \/ i = k
      OBVIOUS
    <3>2. f[i] = Rank(K, i) /\ f[k] = Rank(K, k)
      OBVIOUS
    <3>3. Rank(K, i) \in Int
      <4>1. Rank(K, i) \in 1..Cardinality(K)
        BY <1>4, Zenon
      <4> HIDE DEF f
      <4> QED BY <4>1
    <3>4. Rank(K, i) = Rank(K, k)
      BY <2>2, <3>2
    <3>5. ~(i < k) /\ ~(k < i)
      BY <1>5, <3>3, <3>4
    <3> QED BY <3>1, <3>5
  <2>3. OneToOne(f, K)
    BY <2>2, Zenon DEF OneToOne
  <2>4. IsFiniteSet(R) /\ Cardinality(K) = Cardinality(R)
    BY <1>3, FiniteInterval
  <2>5. Onto(f, K, R)
    <3> HIDE DEF R, f
    <3> QED BY <2>1, <2>3, <2>4, FiniteOnto, Zenon
  <2> QED BY <2>5, Zenon DEF Onto
<1> QED BY <1>2, <1>3, <1>4, <1>5, <1>6, Zenon

\* Pick keeps exactly the elements at the chosen positions, in their order.
LEMMA PickProperties ==
    ASSUME Counting, NEW S, NEW s \in Seq(S), NEW K \in SUBSET DOMAIN s
    PROVE  LET p == Pick(s, K) IN
           /\ p \in Seq(S)
           /\ Len(p) = Cardinality(K)
           /\ \A j \in DOMAIN p : \E i \in K : p[j] = s[i]
           /\ \A i \in K : \E j \in DOMAIN p : p[j] = s[i]
           /\ \A j, l \in DOMAIN p : j < l =>
                \E i, k \in K : i < k /\ p[j] = s[i] /\ p[l] = s[k]
<1> DEFINE p == Pick(s, K)
           At(j) == CHOOSE i \in K : Rank(K, i) = j
           c == Cardinality(K)
<1>1. Len(s) \in Nat /\ DOMAIN s = 1..Len(s)
  OBVIOUS
<1>2. /\ c \in Nat
      /\ \A i \in K : Rank(K, i) \in 1..c
      /\ \A i, k \in K : i < k => Rank(K, i) < Rank(K, k)
      /\ \A j \in 1..c : \E i \in K : Rank(K, i) = j
  BY <1>1, RankProperties
<1>3. \A j \in 1..c : At(j) \in K /\ Rank(K, At(j)) = j
  BY <1>2
<1>4. p = [j \in 1..c |-> s[At(j)]]
  BY DEF Pick
<1>5. \A j \in 1..c : s[At(j)] \in S
  BY <1>1, <1>3
<1> HIDE DEF At
<1>6. p \in Seq(S) /\ Len(p) = c /\ DOMAIN p = 1..c
  <2> HIDE DEF p, c
  <2> QED BY <1>2, <1>4, <1>5
<1>7. \A j \in 1..c : p[j] = s[At(j)]
  BY <1>4
<1>8. ASSUME NEW i \in K PROVE At(Rank(K, i)) = i
  <2> DEFINE k == At(Rank(K, i))
  <2>1. k \in K /\ Rank(K, k) = Rank(K, i) /\ Rank(K, i) \in Int
    BY <1>2, <1>3
  <2>2. i \in Int /\ k \in Int
    BY <1>1, <2>1
  <2> HIDE DEF k
  <2>3. ~(i < k) /\ ~(k < i)
    BY <1>2, <2>1
  <2>4. k = i
    BY <2>2, <2>3
  <2> QED BY <2>4 DEF k
<1>9. \A i \in K : \E j \in DOMAIN p : p[j] = s[i]
  BY <1>2, <1>6, <1>7, <1>8
<1>10. ASSUME NEW j \in DOMAIN p, NEW l \in DOMAIN p, j < l
       PROVE  At(j) < At(l)
  <2>1. /\ At(j) \in K /\ At(l) \in K
        /\ Rank(K, At(j)) = j /\ Rank(K, At(l)) = l
    BY <1>3, <1>6
  <2>2. At(j) \in Int /\ At(l) \in Int /\ j \in Int /\ l \in Int
    BY <1>1, <1>6, <2>1
  <2>3. At(j) # At(l) /\ ~(At(l) < At(j))
    BY <1>2, <1>10, <2>1, <2>2
  <2> QED BY <2>2, <2>3
<1> QED BY <1>3, <1>6, <1>7, <1>9, <1>10

\* A prefix and the rest of a list.
LEMMA TakeDropProperties ==
    ASSUME NEW S, NEW s \in Seq(S), NEW n \in 0..Len(s)
    PROVE  /\ TakeFirst(s, n) \in Seq(S)
           /\ Len(TakeFirst(s, n)) = n
           /\ \A i \in 1..n : TakeFirst(s, n)[i] = s[i]
           /\ DropFirst(s, n) \in Seq(S)
           /\ Len(DropFirst(s, n)) = Len(s) - n
           /\ \A i \in 1..(Len(s) - n) : DropFirst(s, n)[i] = s[n + i]
  BY SMTT(30) DEF TakeFirst, DropFirst

\* A non-empty set of positions has a first and a last element.
LEMMA FirstLastExist ==
    ASSUME Counting, NEW n \in Nat, NEW K \in SUBSET (1..n), K # {}
    PROVE  /\ \E i \in K : \A j \in K : i <= j
           /\ \E i \in K : \A j \in K : j <= i
<1> DEFINE c == Cardinality(K)
<1>1. /\ c \in Nat
      /\ \A i \in K : Rank(K, i) \in 1..c
      /\ \A i, k \in K : i < k => Rank(K, i) < Rank(K, k)
      /\ \A j \in 1..c : \E i \in K : Rank(K, i) = j
  BY RankProperties, Zenon
<1> HIDE DEF c
<1>2. 1 \in 1..c /\ c \in 1..c
  <2>1. PICK i \in K : TRUE
    BY Zenon
  <2>2. Rank(K, i) \in 1..c
    BY <1>1
  <2> QED BY <1>1, <2>2
<1>3. PICK i \in K : Rank(K, i) = 1
  BY <1>1, <1>2
<1>4. PICK k \in K : Rank(K, k) = c
  BY <1>1, <1>2
<1>5. ASSUME NEW j \in K PROVE i <= j /\ j <= k
  <2>1. Rank(K, j) \in 1..c
    BY <1>1
  <2>2. ~(j < i) /\ ~(k < j)
    BY <1>1, <1>3, <1>4, <2>1
  <2> QED BY <2>2
<1> QED BY <1>5

\* A set of positions that with a position holds all earlier ones is a prefix.
LEMMA PrefixProperties ==
    ASSUME Counting, NEW n \in Nat, NEW K \in SUBSET (1..n),
           \A h \in K : \A g \in 1..n : g <= h => g \in K
    PROVE  \A i \in 1..Cardinality(K) : i \in K /\ Rank(K, i) <= i
<1> DEFINE c == Cardinality(K)
<1>1. /\ c \in Nat /\ c <= n
      /\ \A j \in 1..c : \E h \in K : Rank(K, h) = j
  BY RankProperties
<1>2. ASSUME NEW h \in 1..n PROVE Rank(K, h) \in Nat /\ Rank(K, h) <= h
  <2>1. {g \in K : g <= h} \in SUBSET (1..h)
    <3>1. ASSUME NEW g \in K, g <= h PROVE g \in 1..h
      BY <3>1
    <3> QED BY <3>1, Zenon
  <2>2. IsFiniteSet(1..h) /\ Cardinality(1..h) = h
    BY FiniteInterval
  <2>3. IsFiniteSet({g \in K : g <= h}) /\ Rank(K, h) <= h
    BY <2>1, <2>2, FiniteSubset DEF Rank
  <2> QED BY <2>3, FiniteCount DEF Rank
<1> HIDE DEF c
<1>3. ASSUME NEW i \in 1..c PROVE i \in K /\ Rank(K, i) <= i
  <2>1. c \in 1..c /\ i \in 1..n
    BY <1>1
  <2>2. PICK h \in K : Rank(K, h) = c
    BY <1>1, <2>1
  <2>3. h \in 1..n /\ c <= h
    BY <1>2, <2>2
  <2>4. i \in K
    BY <1>1, <2>1, <2>3
  <2> QED BY <1>2, <2>1, <2>4
<1> QED BY <1>3 DEF c

-----------------------------------------------------------------------------
(* How many elements of a list are in a set                                *)

Hits(s, P) == {i \in DOMAIN s : s[i] \in P}

\* The positions of a list with elements of a set are finitely many.
LEMMA HitsType ==
    ASSUME Counting, NEW S, NEW s \in Seq(S), NEW P
    PROVE  /\ IsFiniteSet(Hits(s, P)) /\ Cardinality(Hits(s, P)) \in Nat
           /\ Cardinality(Hits(s, P)) <= Len(s)
<1>1. Len(s) \in Nat /\ DOMAIN s = 1..Len(s)
  OBVIOUS
<1>2. Hits(s, P) \in SUBSET (1..Len(s))
  BY <1>1, Zenon DEF Hits
<1>3. IsFiniteSet(1..Len(s)) /\ Cardinality(1..Len(s)) = Len(s)
  BY <1>1, FiniteInterval
<1>4. IsFiniteSet(Hits(s, P)) /\ Cardinality(Hits(s, P)) <= Len(s)
  BY <1>2, <1>3, FiniteSubset
<1> QED BY <1>4, FiniteCount

\* Two sets of numbers, one the other shifted, have the same size.
LEMMA ShiftedSize ==
    ASSUME Counting, NEW A \in SUBSET Int, NEW B \in SUBSET Int, NEW n \in Int, IsFiniteSet(A),
           \A i \in A : i + n \in B, \A i \in B : i - n \in A
    PROVE  Cardinality(B) = Cardinality(A)
<1> DEFINE f == [i \in A |-> i + n]
<1>1. f \in [A -> B] /\ \A i \in A : f[i] = i + n
  OBVIOUS
<1>2. \A i, j \in A : f[i] = f[j] => i = j
  BY <1>1
<1>3. \A k \in B : \E i \in A : f[i] = k
  <2>1. ASSUME NEW k \in B PROVE k - n \in A /\ f[k - n] = k
    BY <1>1
  <2> QED BY <2>1
<1> HIDE DEF f
<1> QED BY <1>1, <1>2, <1>3, FiniteBijection, Zenon DEF OneToOne, Onto

\* The elements of two lists are counted together.
LEMMA HitsConcat ==
    ASSUME Counting, NEW S, NEW s \in Seq(S), NEW t \in Seq(S), NEW P
    PROVE  Cardinality(Hits(s \o t, P)) = Cardinality(Hits(s, P)) + Cardinality(Hits(t, P))
<1> DEFINE n == Len(s)
           H == Hits(s \o t, P)
           A == Hits(s, P)
           B == Hits(t, P)
           C == {i \in H : i > n}
<1>1. /\ n \in Nat /\ Len(t) \in Nat /\ DOMAIN s = 1..n /\ DOMAIN t = 1..Len(t)
      /\ s \o t \in Seq(S) /\ DOMAIN (s \o t) = 1..(n + Len(t))
      /\ \A i \in 1..n : (s \o t)[i] = s[i]
      /\ \A i \in 1..Len(t) : (s \o t)[n + i] = t[i]
  OBVIOUS
<1>2. IsFiniteSet(H) /\ IsFiniteSet(A) /\ IsFiniteSet(B) /\ Cardinality(A) \in Nat
        /\ Cardinality(B) \in Nat
  BY <1>1, HitsType
<1>3. ASSUME NEW i \in H, ~(i > n) PROVE i \in A
  <2>1. i \in DOMAIN (s \o t) /\ (s \o t)[i] \in P
    BY DEF Hits
  <2>2. i \in 1..n
    BY <1>1, <1>3, <2>1
  <2> QED BY <1>1, <2>1, <2>2 DEF Hits
<1>4. ASSUME NEW i \in A PROVE i \in H /\ ~(i > n)
  <2>1. i \in DOMAIN s /\ s[i] \in P
    BY DEF Hits
  <2>2. i \in 1..n /\ i \in 1..(n + Len(t)) /\ ~(i > n)
    BY <1>1, <2>1
  <2> QED BY <1>1, <2>1, <2>2 DEF Hits
<1>5. ASSUME NEW i \in B PROVE i + n \in C
  <2>1. i \in DOMAIN t /\ t[i] \in P
    BY DEF Hits
  <2>2. i \in 1..Len(t) /\ n + i \in 1..(n + Len(t)) /\ i + n = n + i /\ n + i > n
    BY <1>1, <2>1
  <2>3. (s \o t)[n + i] \in P
    BY <1>1, <2>1, <2>2
  <2> QED BY <1>1, <2>2, <2>3 DEF Hits
<1>6. ASSUME NEW i \in C PROVE i - n \in B
  <2>1. i \in DOMAIN (s \o t) /\ (s \o t)[i] \in P /\ i > n
    BY DEF Hits
  <2>2. i - n \in 1..Len(t) /\ i = n + (i - n)
    BY <1>1, <2>1
  <2>3. (s \o t)[i] = t[i - n]
    BY <1>1, <2>2
  <2> QED BY <1>1, <2>1, <2>2, <2>3 DEF Hits
<1>7. A \in SUBSET Int /\ B \in SUBSET Int /\ C \in SUBSET Int
  <2>1. A \subseteq DOMAIN s /\ B \subseteq DOMAIN t /\ C \subseteq DOMAIN (s \o t)
    BY DEF Hits
  <2> QED BY <1>1, <2>1
<1> HIDE DEF A, B, H, n
<1>8. H = A \cup C /\ A \cap C = {}
  BY <1>3, <1>4, Zenon
<1>9. IsFiniteSet(C)
  <2>1. C \in SUBSET H
    OBVIOUS
  <2> QED BY <1>2, <2>1, FiniteSubset
<1> HIDE DEF C
<1>10. Cardinality(C) = Cardinality(B)
  <2>1. n \in Int /\ (\A i \in B : i + n \in C) /\ (\A i \in C : i - n \in B)
    BY <1>1, <1>5, <1>6
  <2> QED BY <1>2, <1>7, <2>1, ShiftedSize, Zenon
<1>11. Cardinality(A \cup C) = Cardinality(A) + Cardinality(C) - Cardinality(A \cap C)
  BY <1>2, <1>9, FiniteUnion
<1>12. Cardinality(A \cap C) = 0
  BY <1>8, FiniteEmpty
<1> QED BY <1>2, <1>8, <1>10, <1>11, <1>12 DEF A, B, H

\* The elements of a list are those of a prefix and those of the rest.
LEMMA HitsSplit ==
    ASSUME Counting, NEW S, NEW s \in Seq(S), NEW n \in 0..Len(s), NEW P
    PROVE  Cardinality(Hits(s, P)) = Cardinality(Hits(TakeFirst(s, n), P))
                                       + Cardinality(Hits(DropFirst(s, n), P))
<1> DEFINE t == TakeFirst(s, n)
           d == DropFirst(s, n)
<1>1. /\ t \in Seq(S) /\ Len(t) = n /\ (\A i \in 1..n : t[i] = s[i])
      /\ d \in Seq(S) /\ Len(d) = Len(s) - n
      /\ \A i \in 1..(Len(s) - n) : d[i] = s[n + i]
  BY TakeDropProperties
<1> HIDE DEF t, d
<1>2. t \o d \in Seq(S) /\ Len(t \o d) = Len(s)
  BY <1>1
<1>3. ASSUME NEW i \in 1..Len(s) PROVE (t \o d)[i] = s[i]
  <2>1. CASE i <= n
    BY <1>1, <2>1
  <2>2. CASE ~(i <= n)
    <3>1. i - n \in 1..(Len(s) - n) /\ n + (i - n) = i
      BY <2>2
    <3>2. (t \o d)[i] = d[i - n]
      BY <1>1, <2>2
    <3> QED BY <1>1, <3>1, <3>2
  <2> QED BY <2>1, <2>2
<1>4. s = t \o d
  <2> DEFINE u == t \o d
  <2>1. u \in Seq(S) /\ Len(u) = Len(s) /\ \A i \in 1..Len(s) : u[i] = s[i]
    BY <1>2, <1>3
  <2> HIDE DEF u
  <2>2. s = u
    BY <2>1
  <2> QED BY <2>2 DEF u
<1>5. Cardinality(Hits(t \o d, P)) = Cardinality(Hits(t, P)) + Cardinality(Hits(d, P))
  BY <1>1, HitsConcat
<1> QED BY <1>4, <1>5 DEF t, d

\* Pick places the element at a kept position at that position's rank.
LEMMA PickAtRank ==
    ASSUME Counting, NEW S, NEW s \in Seq(S), NEW K \in SUBSET DOMAIN s
    PROVE  /\ DOMAIN Pick(s, K) = 1..Cardinality(K)
           /\ \A i \in K : Pick(s, K)[Rank(K, i)] = s[i]
<1> DEFINE c == Cardinality(K)
           At(j) == CHOOSE i \in K : Rank(K, i) = j
<1>1. Len(s) \in Nat /\ DOMAIN s = 1..Len(s)
  OBVIOUS
<1>2. /\ \A i \in K : Rank(K, i) \in 1..c
      /\ \A i, k \in K : i < k => Rank(K, i) < Rank(K, k)
  BY <1>1, RankProperties
<1>3. Pick(s, K) = [j \in 1..c |-> s[At(j)]]
  BY DEF Pick
<1>4. ASSUME NEW i \in K PROVE At(Rank(K, i)) = i
  <2> DEFINE k == At(Rank(K, i))
  <2>1. k \in K /\ Rank(K, k) = Rank(K, i) /\ Rank(K, i) \in Int
    BY <1>2
  <2>2. i \in Int /\ k \in Int
    BY <1>1, <2>1
  <2> HIDE DEF k
  <2>3. ~(i < k) /\ ~(k < i)
    BY <1>2, <2>1
  <2>4. k = i
    BY <2>2, <2>3
  <2> QED BY <2>4 DEF k
<1> HIDE DEF At, c
<1>5. \A i \in K : Pick(s, K)[Rank(K, i)] = s[i]
  BY <1>2, <1>3, <1>4
<1> QED BY <1>3, <1>5 DEF c

\* Pick keeps the elements of the set that are at kept positions.
LEMMA HitsPick ==
    ASSUME Counting, NEW S, NEW s \in Seq(S), NEW K \in SUBSET DOMAIN s, NEW P
    PROVE  Cardinality(Hits(Pick(s, K), P)) = Cardinality({i \in K : s[i] \in P})
<1> DEFINE p == Pick(s, K)
           A == {i \in K : s[i] \in P}
           B == Hits(p, P)
           f == [i \in A |-> Rank(K, i)]
           c == Cardinality(K)
<1>1. Len(s) \in Nat /\ DOMAIN s = 1..Len(s)
  OBVIOUS
<1>2. /\ \A i \in K : Rank(K, i) \in 1..c
      /\ \A i, k \in K : i < k => Rank(K, i) < Rank(K, k)
      /\ \A j \in 1..c : \E i \in K : Rank(K, i) = j
  BY <1>1, RankProperties
<1>3. DOMAIN p = 1..c /\ \A i \in K : p[Rank(K, i)] = s[i]
  BY PickAtRank
<1> HIDE DEF p, c
<1>4. f \in [A -> B] /\ \A i \in A : f[i] = Rank(K, i)
  <2>1. ASSUME NEW i \in A PROVE Rank(K, i) \in B
    <3>1. i \in K /\ s[i] \in P
      OBVIOUS
    <3> QED BY <1>2, <1>3, <3>1 DEF Hits
  <2> QED BY <2>1
<1> HIDE DEF f
<1>5. ASSUME NEW i \in A, NEW j \in A, f[i] = f[j] PROVE i = j
  <2>1. i \in K /\ j \in K /\ i \in Int /\ j \in Int
    BY <1>1
  <2>2. Rank(K, i) = Rank(K, j) /\ Rank(K, i) \in Int
    BY <1>2, <1>4, <1>5, <2>1
  <2>3. ~(i < j) /\ ~(j < i)
    BY <1>2, <2>1, <2>2
  <2> QED BY <2>1, <2>3
<1>6. ASSUME NEW j \in B PROVE \E i \in A : f[i] = j
  <2>1. j \in 1..c /\ p[j] \in P
    BY <1>3 DEF Hits
  <2>2. PICK i \in K : Rank(K, i) = j
    BY <1>2, <2>1
  <2>3. i \in A
    BY <1>3, <2>1, <2>2
  <2> QED BY <1>4, <2>2, <2>3
<1>7. IsFiniteSet(A)
  <2>1. A \in SUBSET (1..Len(s))
    BY <1>1
  <2>2. IsFiniteSet(1..Len(s))
    BY <1>1, FiniteInterval
  <2> QED BY <2>1, <2>2, FiniteSubset
<1> HIDE DEF A, B
<1>8. Cardinality(B) = Cardinality(A)
  BY <1>4, <1>5, <1>6, <1>7, FiniteBijection, Zenon DEF OneToOne, Onto
<1> QED BY <1>8 DEF A, B, p
=============================================================================
