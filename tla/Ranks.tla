------------------------------- MODULE Ranks -------------------------------
(***************************************************************************)
(* Lists in the order of a key: what list.sort, a comprehension over a     *)
(* list and numpy's selection by a Boolean array come to.                  *)
(***************************************************************************)
EXTENDS Integers, FiniteSets

\* The place of a member of a finite set among all of them.
Rank(K, key, i) == Cardinality({j \in K : key[j] <= key[i]})

\* The members of a finite set in the ascending order of a key, no two being equal.
InOrderOf(K, key) ==
  [p \in 1 .. Cardinality(K) |-> CHOOSE i \in K : Rank(K, key, i) = p]

\* A finite set of integers as a list.
Ascends(K) == InOrderOf(K, [i \in K |-> i])
=============================================================================
