-------------------------------- MODULE Loci --------------------------------
(***************************************************************************)
(* The operators of the query language on position lists: orv, andv,       *)
(* notandv, nearv and notnearv of snap.cpp.  A list is ascending and may   *)
(* hold a position more than once.                                         *)
(*                                                                         *)
(* nearv and notnearv stand here for the lists their scans return; the     *)
(* scans themselves are in NearScan, which shows that they return these.   *)
(***************************************************************************)
EXTENDS Integers, Sequences, FiniteSets

Ascending(s) == \A j \in 1..(Len(s) - 1) : s[j] <= s[j + 1]

\* Mutant: the lists are joined and not sorted.
orvJoined(a, b) == a \o b

\* Place of the k-th element of s in ascending order, equal ones as they come.
Rank(s, k) == Cardinality({j \in 1..Len(s) : s[j] < s[k] \/ (s[j] = s[k] /\ j <= k)})

\* std::sort
Sorted(s) == [n \in 1..Len(s) |-> s[CHOOSE k \in 1..Len(s) : Rank(s, k) = n]]

orv(a, b) == Sorted(a \o b)

andv(a, b) == IF a = <<>> \/ b = <<>> THEN <<>> ELSE orv(a, b)

notandv(a, b) == IF b = <<>> THEN a ELSE <<>>

HasNeighbour(x, b, distance) ==
  \E k \in 1..Len(b) : x - b[k] \in -distance..distance

\* The elements of a at the given places, in order.
KeptOf(a, places) ==
  LET c[n \in 0..Len(a)] == IF n = 0 THEN <<>>
                            ELSE IF n \in places THEN Append(c[n - 1], a[n])
                            ELSE c[n - 1]
  IN  c[Len(a)]

nearv(a, b, distance) ==
  KeptOf(a, {n \in 1..Len(a) : HasNeighbour(a[n], b, distance)})

notnearv(a, b, distance) ==
  KeptOf(a, {n \in 1..Len(a) : ~HasNeighbour(a[n], b, distance)})
==============================================================================
