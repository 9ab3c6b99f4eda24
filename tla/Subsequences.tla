---------------------------- MODULE Subsequences ----------------------------
(***************************************************************************)
(* The part of a list that survives a traversal.  A C loop that walks a    *)
(* list and deletes some of its elements leaves the elements at the kept   *)
(* positions, in their order: Pick(s, K).  It is defined by rank, not by   *)
(* recursion, so that its properties can be proved (SubsequencesProofs).   *)
(***************************************************************************)
EXTENDS Integers, Sequences, FiniteSets

\* The number of positions of K up to and including i.
Rank(K, i) == Cardinality({h \in K : h <= i})

\* The elements of s at the positions in K, in the order of s.
Pick(s, K) ==
    [j \in 1..Cardinality(K) |-> s[CHOOSE i \in K : Rank(K, i) = j]]

\* The list s without its first n elements, and those n elements.
DropFirst(s, n) == SubSeq(s, n + 1, Len(s))
TakeFirst(s, n) == SubSeq(s, 1, n)

\* The smaller and the larger of two numbers.
Lesser(a, b) == IF a <= b THEN a ELSE b
Greater(a, b) == IF a >= b THEN a ELSE b
=============================================================================
