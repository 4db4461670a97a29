---------------------------- MODULE MCPairSearch ----------------------------
(***************************************************************************)
(* PairSearch for programs of at most MaxMatches matches at positions      *)
(* 0..MaxPos, the first at 0: only differences of positions matter.  The   *)
(* windows of a match are those of its position.                           *)
(***************************************************************************)
EXTENDS PairSearch, TLC

CONSTANTS MaxPos, MaxMatches, Lefts, Rights

MCWindows == Lefts \cup Rights
MCMatches == [pos : 0..MaxPos, expr : Expressions, left : Lefts, right : Rights]

SameTextAround(m) ==
  \A j, k \in DOMAIN m :
    m[j].pos = m[k].pos => m[j].left = m[k].left /\ m[j].right = m[k].right
Sorted(m) == \A j, k \in DOMAIN m : j < k => Precedes(m[j], m[k])

AllPrograms ==
  {m \in UNION {[1..n -> MCMatches] : n \in 0..MaxMatches} : Sorted(m) /\ SameTextAround(m)}

\* The longest programs change expressions from match to match, without
\* coinciding matches; the last expression stands alone or beside one other.
\* Any of the keys may be the one without contexts, and the last may have more
\* contexts than the others, so that it takes the place of one of them.
Used(m) == {m[k].expr : k \in DOMAIN m}
MCPrograms ==
  {m \in AllPrograms :
     /\ m # <<>> => m[1].pos = 0
     /\ 3 \in Used(m) => Used(m) # {1, 2, 3} /\ Len(m) <= 2 /\ OneMatchPerPosition(m)
     /\ Len(m) = MaxMatches =>
          OneMatchPerPosition(m) /\ \A k \in 2..Len(m) : m[k].expr # m[k - 1].expr}

WindowSymmetry == Permutations(Lefts) \cup Permutations(Rights)
==============================================================================
