--------------------------- MODULE ProximityFilter ---------------------------
(***************************************************************************)
(* What the proximity operators of the query language promise, without     *)
(* the scan that computes it.  A list of positions a is filtered by its    *)
(* distance to a second list b: an element of a is kept when some element  *)
(* of b lies within distance of it ({a} @d {b}), or, when negated, when    *)
(* none does ({a} !@d {b}).  Kept elements are emitted in the order of a,  *)
(* each as often as it stands in a.                                        *)
(***************************************************************************)
EXTENDS Integers, Sequences

CONSTANTS
  Inputs,     (* The position lists a search may produce. *)
  Distances   (* The distances a query may ask for.       *)

VARIABLES
  a,         (* The list that is filtered.                    *)
  b,         (* The list it is compared with.                 *)
  distance,  (* The distance asked for.                       *)
  negated,   (* FALSE for @, TRUE for !@.                     *)
  next,      (* Index in a of the first undecided element.    *)
  c          (* The elements kept so far.                     *)

vars == <<a, b, distance, negated, next, c>>
inputs == <<a, b, distance, negated>>

Abs(n) == IF n < 0 THEN -n ELSE n

Within(x, y, d) == Abs(x - y) <= d

HasNeighbour(x) == \E k \in 1..Len(b) : Within(x, b[k], distance)

Keep(x) == HasNeighbour(x) # negated

------------------------------------------------------------------------------
Init ==
  /\ a \in Inputs
  /\ b \in Inputs
  /\ distance \in Distances
  /\ negated \in BOOLEAN
  /\ next = 1
  /\ c = <<>>

Take ==
  /\ next \in 1..Len(a)
  /\ Keep(a[next])
  /\ c' = Append(c, a[next])
  /\ next' = next + 1
  /\ UNCHANGED inputs

Drop ==
  /\ next \in 1..Len(a)
  /\ ~Keep(a[next])
  /\ next' = next + 1
  /\ UNCHANGED <<c, inputs>>

\* Deciding a whole list at once, which is what comparing with an empty
\* list comes to.
TakeAll ==
  /\ next = 1
  /\ \A k \in 1..Len(a) : Keep(a[k])
  /\ c' = a
  /\ next' = Len(a) + 1
  /\ UNCHANGED inputs

DropAll ==
  /\ next = 1
  /\ \A k \in 1..Len(a) : ~Keep(a[k])
  /\ next' = Len(a) + 1
  /\ UNCHANGED <<c, inputs>>

Next == Take \/ Drop \/ TakeAll \/ DropAll

Spec == Init /\ [][Next]_vars
==============================================================================
