------------------------------ MODULE NearScan ------------------------------
(***************************************************************************)
(* nearv and notnearv of snap.cpp: the operators @ and !@ as the two       *)
(* pointer scan the code runs.  ait walks the list a; bit trails it in b   *)
(* and is moved up only while the element it points at is too far behind,  *)
(* never past the last one and never back.  One scan of b therefore serves *)
(* all of a, which is right only because both lists are ascending.         *)
(*                                                                         *)
(* Indices are those of TLA+ sequences: ait = Len(a)+1 is a.end().         *)
(***************************************************************************)
EXTENDS Integers, Sequences

CONSTANTS
  Inputs,     (* The position lists a search may produce. *)
  Distances   (* The distances a query may ask for.       *)

\* Lists reach the scan ascending: find emits positions in order, and every
\* operator hands on an ascending list.
ASSUME InputsAssumption ==
  /\ Inputs \subseteq Seq(Nat)
  /\ \A s \in Inputs : \A j, k \in 1..Len(s) : j < k => s[j] <= s[k]
ASSUME DistancesAssumption == Distances \subseteq Nat

VARIABLES
  a, b, distance,
  negated,  (* FALSE in nearv, TRUE in notnearv. *)
  ait, bit, (* The two iterators.                *)
  c,        (* The list being built.             *)
  at        (* "start", "scan" or "done".        *)

scan_vars == <<a, b, distance, negated, ait, bit, c, at>>
scan_inputs == <<a, b, distance, negated>>

\* The promise this scan has to keep.
Promise == INSTANCE ProximityFilter WITH next <- ait

Within(x, y, d) == Promise!Within(x, y, d)

ScanInit ==
  /\ a \in Inputs
  /\ b \in Inputs
  /\ distance \in Distances
  /\ negated \in BOOLEAN
  /\ ait = 1
  /\ bit = 1
  /\ c = <<>>
  /\ at = "start"

\* An empty b is answered before the loop: nearv keeps nothing, notnearv
\* keeps all of a.
EmptyB ==
  /\ at = "start"
  /\ b = <<>>
  /\ c' = IF negated THEN a ELSE <<>>
  /\ ait' = Len(a) + 1
  /\ at' = "done"
  /\ UNCHANGED <<bit, scan_inputs>>

EnterLoop ==
  /\ at = "start"
  /\ b # <<>>
  /\ at' = "scan"
  /\ UNCHANGED <<ait, bit, c, scan_inputs>>

\* Mutant: bit is moved up to a[ait] itself.
LaggingByPosition == bit # Len(b) /\ b[bit] < a[ait]

\* The condition of the inner while.
Lagging ==
  /\ bit # Len(b)
  /\ b[bit] < a[ait]
  /\ a[ait] - b[bit] > distance

Advance ==
  /\ at = "scan"
  /\ ait <= Len(a)
  /\ Lagging
  /\ bit' = bit + 1
  /\ UNCHANGED <<ait, c, at, scan_inputs>>

\* Mutant: < for <=.
DecideStrict ==
  /\ at = "scan"
  /\ ait <= Len(a)
  /\ ~Lagging
  /\ c' = IF Within(a[ait], b[bit], distance - 1) # negated
          THEN Append(c, a[ait]) ELSE c
  /\ ait' = ait + 1
  /\ UNCHANGED <<bit, at, scan_inputs>>

\* The rest of the loop body: the comparison with *bit, and ++ait.
Decide ==
  /\ at = "scan"
  /\ ait <= Len(a)
  /\ ~Lagging
  /\ c' = IF Within(a[ait], b[bit], distance) # negated
          THEN Append(c, a[ait]) ELSE c
  /\ ait' = ait + 1
  /\ UNCHANGED <<bit, at, scan_inputs>>

ReturnList ==
  /\ at = "scan"
  /\ ait > Len(a)
  /\ at' = "done"
  /\ UNCHANGED <<ait, bit, c, scan_inputs>>

ScanNext == EmptyB \/ EnterLoop \/ Advance \/ Decide \/ ReturnList

ScanSpec == ScanInit /\ [][ScanNext]_scan_vars
------------------------------------------------------------------------------
ScanTypeOK ==
  /\ a \in Inputs
  /\ b \in Inputs
  /\ distance \in Distances
  /\ negated \in BOOLEAN
  /\ ait \in 1..(Len(a) + 1)
  /\ bit \in Nat
  /\ at = "start" => ait = 1 /\ bit = 1 /\ c = <<>>
  /\ at = "scan" => bit \in 1..Len(b)  \* bit is dereferenced only inside b
  /\ c \in Seq(Nat)
  /\ at \in {"start", "scan", "done"}

\* What bit has passed stays out of reach: every element of b before bit is
\* more than distance below every element of a that is still undecided.
\* This is what allows nearv and notnearv never to move bit back.
PassedOutOfReach ==
  \A k \in 1..(bit - 1), j \in ait..Len(a) : a[j] - b[k] > distance

\* After every decision the list built holds what it should of the first n
\* elements of a: nothing but elements with some (no) neighbour in the whole
\* of b, and all of those.
FilterOf(n) ==
  /\ \A k \in 1..Len(c) : \E j \in 1..n : Promise!Keep(a[j]) /\ c[k] = a[j]
  /\ \A j \in 1..n : Promise!Keep(a[j]) => \E k \in 1..Len(c) : c[k] = a[j]

FilterSoFar == FilterOf(ait - 1) /\ (at = "done" => ait = Len(a) + 1)

\* The list nearv (notnearv) returns holds exactly the elements of a with some
\* (no) element of b within distance, however many elements of b each
\* comparison skipped.
ResultIsFilter == at = "done" => FilterOf(Len(a))

\* The scan never decides an element otherwise than ProximityFilter does,
\* duplicates included, and in the same order.
ImplementsFilter == Promise!Spec
==============================================================================
