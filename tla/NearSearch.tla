----------------------------- MODULE NearSearch -----------------------------
(***************************************************************************)
(* snap::near of snap.cpp, the scan behind near_search.  Like nearv it     *)
(* trails a pointer q in the second list, but when it reports a hit it     *)
(* also runs q forward over every element in reach, and does not move it   *)
(* back for the next p.  It returns both sides of the hits: c1, the        *)
(* elements of the first list with a neighbour, and c2, the neighbours.    *)
(*                                                                         *)
(* The two search expressions are distinct (equal ones would share one     *)
(* list in the code's result map).                                         *)
(***************************************************************************)
EXTENDS Integers, Sequences

CONSTANTS
  Inputs,     (* The position lists evaluate_expression may return. *)
  Distances   (* The distances a query may ask for.                 *)

ASSUME InputsAssumption ==
  /\ Inputs \subseteq Seq(Nat)
  /\ \A s \in Inputs : \A j, k \in 1..Len(s) : j < k => s[j] <= s[k]
ASSUME DistancesAssumption == Distances \subseteq Nat

VARIABLES
  a, b, distance,  (* pattern1_locii, pattern2_locii and distance. *)
  p, q,            (* Indices of the loop's p in a and of q in b.  *)
  c1, c2,          (* The two lists of match_positions.            *)
  pc               (* "start", "scan", "follow" or "done".         *)

vars == <<a, b, distance, p, q, c1, c2, pc>>
inputs == <<a, b, distance>>

\* The promise of @ holds for the first list; while q runs forward the
\* element at p is already reported.
Promise == INSTANCE ProximityFilter
  WITH negated <- FALSE, c <- c1, next <- IF pc = "follow" THEN p + 1 ELSE p

Within(x, y) == Promise!Within(x, y, distance)

Init ==
  /\ a \in Inputs
  /\ b \in Inputs
  /\ distance \in Distances
  /\ p = 1
  /\ q = 1
  /\ c1 = <<>>
  /\ c2 = <<>>
  /\ pc = "start"

\* No hit at all when either expression has no match.
EitherEmpty ==
  /\ pc = "start"
  /\ a = <<>> \/ b = <<>>
  /\ p' = Len(a) + 1
  /\ pc' = "done"
  /\ UNCHANGED <<q, c1, c2, inputs>>

EnterLoop ==
  /\ pc = "start"
  /\ a # <<>> /\ b # <<>>
  /\ pc' = "scan"
  /\ UNCHANGED <<p, q, c1, c2, inputs>>

\* Mutant: q is moved up to a[p] itself.
LaggingByPosition == q + 1 # Len(b) + 1 /\ b[q] < a[p]

Lagging ==
  /\ q + 1 # Len(b) + 1
  /\ b[q] < a[p]
  /\ a[p] - b[q] > distance

Advance ==
  /\ pc = "scan"
  /\ p <= Len(a)
  /\ Lagging
  /\ q' = q + 1
  /\ UNCHANGED <<p, c1, c2, pc, inputs>>

Miss ==
  /\ pc = "scan"
  /\ p <= Len(a)
  /\ ~Lagging
  /\ ~Within(a[p], b[q])
  /\ p' = p + 1
  /\ UNCHANGED <<q, c1, c2, pc, inputs>>

\* Mutant: the neighbour q had reached already is not pushed.
HitWithoutNeighbour ==
  /\ pc = "scan"
  /\ p <= Len(a)
  /\ ~Lagging
  /\ Within(a[p], b[q])
  /\ c1' = Append(c1, a[p])
  /\ pc' = "follow"
  /\ UNCHANGED <<p, q, c2, inputs>>

Hit ==
  /\ pc = "scan"
  /\ p <= Len(a)
  /\ ~Lagging
  /\ Within(a[p], b[q])
  /\ c1' = Append(c1, a[p])
  /\ c2' = Append(c2, b[q])
  /\ pc' = "follow"
  /\ UNCHANGED <<p, q, inputs>>

\* Mutant: q follows whatever comes.
InReachAlways == q + 1 # Len(b) + 1

InReach == q + 1 # Len(b) + 1 /\ Within(a[p], b[q + 1])

Follow ==
  /\ pc = "follow"
  /\ InReach
  /\ q' = q + 1
  /\ c2' = Append(c2, b[q + 1])
  /\ UNCHANGED <<p, c1, pc, inputs>>

EndOfReach ==
  /\ pc = "follow"
  /\ ~InReach
  /\ p' = p + 1
  /\ pc' = "scan"
  /\ UNCHANGED <<q, c1, c2, inputs>>

Return ==
  /\ pc = "scan"
  /\ p > Len(a)
  /\ pc' = "done"
  /\ UNCHANGED <<p, q, c1, c2, inputs>>

Next ==
  EitherEmpty \/ EnterLoop \/ Advance \/ Miss \/ Hit \/ Follow \/ EndOfReach \/ Return

Spec == Init /\ [][Next]_vars
------------------------------------------------------------------------------
TypeOK ==
  /\ a \in Inputs
  /\ b \in Inputs
  /\ distance \in Distances
  /\ p \in 1..(Len(a) + 1)
  /\ q \in Nat
  /\ c1 \in Seq(Nat)
  /\ c2 \in Seq(Nat)
  /\ pc \in {"start", "scan", "follow", "done"}
  /\ pc = "start" => p = 1 /\ q = 1 /\ c1 = <<>>
  /\ pc \in {"scan", "follow"} => q \in 1..Len(b)  \* q is dereferenced only inside b
  /\ pc = "follow" => p <= Len(a)

\* Running q forward never carries it past an element a later p would need:
\* what lies before q and is in reach of an undecided element implies that
\* b[q] itself is in reach of it.
NothingNeededBehind ==
  pc \in {"scan", "follow"} =>
    \A k \in 1..(q - 1), j \in p..Len(a) :
      Within(a[j], b[k]) => Within(a[j], b[q])

\* The hits on the first side are what the operator @ would return for the
\* same two lists, duplicates included and in the same order.
ImplementsFilter == Promise!Spec

\* The second list returned holds exactly the elements of b that some element
\* of a is near to: none is lost when q is not moved back, none is spurious.
NeighboursComplete ==
  pc = "done" =>
    /\ \A k \in 1..Len(c2) : \E i \in 1..Len(a) : Within(a[i], c2[k])
    /\ \A k \in 1..Len(b) :
         (\E i \in 1..Len(a) : Within(a[i], b[k])) => \E i \in 1..Len(c2) : c2[i] = b[k]
==============================================================================
