------------------------------ MODULE Contexts ------------------------------
(***************************************************************************)
(* What the searches call a context: a program with a match whose text to  *)
(* the left and whose text to the right have both not been seen before.    *)
(* The hash tables of simple_search and multiple_search, one for the left  *)
(* and one for the right, are sets: counts in them are compared with 0.    *)
(* Different texts are taken to have different hashes.                     *)
(***************************************************************************)
EXTENDS Integers, SequencesExt

NoHashes == [left |-> {}, right |-> {}]

\* Mutants: one new side is enough; both sides are entered in one table.
IsNewOneSide(match, t) == match.left \notin t.left \/ match.right \notin t.right
EnterLeft(match, t) == [t EXCEPT !.left = @ \cup {match.left, match.right}]

IsNew(match, t) == match.left \notin t.left /\ match.right \notin t.right
Enter(match, t) == [left |-> t.left \cup {match.left}, right |-> t.right \cup {match.right}]

(* The reference: found holds the matches of a sequence of programs.       *)

\* The programs with a match unlike every match before it, in the program or
\* in an earlier one.
ContextsOf(found) ==
  LET before(k, j) == (UNION {ToSet(found[i]) : i \in 1..(k - 1)}) \cup
                      {found[k][i] : i \in 1..(j - 1)}
  IN  {k \in DOMAIN found : \E j \in DOMAIN found[k] : \A u \in before(k, j) :
         found[k][j].left # u.left /\ found[k][j].right # u.right}

\* No two of the matches kept share a side.
AllUnlike(kept) ==
  \A j, k \in DOMAIN kept :
    j # k => kept[j].left # kept[k].left /\ kept[j].right # kept[k].right
=============================================================================
