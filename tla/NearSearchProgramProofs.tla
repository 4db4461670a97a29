---------------------- MODULE NearSearchProgramProofs ----------------------
(***************************************************************************)
(* near_search for all ascending lists, all distances and all ranges of    *)
(* files.  First one call of near: its types, the invariant that excuses   *)
(* it from moving q back, the refinement of ProximityFilter by the first   *)
(* list it returns, and the completeness of the second.  Then the program: *)
(* what is proved of one call holds for every call, the date counted along *)
(* stays that of the file at hand, and the totals count near pairs.        *)
(***************************************************************************)
EXTENDS NearSearchProgram, FiniteLemmas

\* What the assumptions say of the two lists and the distance of a state.
LEMMA InputFacts ==
  ASSUME a \in Inputs, b \in Inputs, distance \in Distances
  PROVE  /\ a \in Seq(Nat) /\ Len(a) \in Nat
         /\ b \in Seq(Nat) /\ Len(b) \in Nat
         /\ distance \in Nat
         /\ b # <<>> => Len(b) > 0
         /\ \A k \in 1..Len(a) : a[k] \in Nat
         /\ \A k \in 1..Len(b) : b[k] \in Nat
         /\ \A j, k \in 1..Len(a) : j <= k => a[j] <= a[k]
         /\ \A j, k \in 1..Len(b) : j <= k => b[j] <= b[k]
<1>1. /\ a \in Seq(Nat) /\ Len(a) \in Nat
      /\ b \in Seq(Nat) /\ Len(b) \in Nat
      /\ distance \in Nat
  BY InputsAssumption, DistancesAssumption
<1>2. b # <<>> => Len(b) > 0
  BY <1>1, EmptySeq
<1>3. \A k \in 1..Len(a) : a[k] \in Nat
  BY <1>1
<1>4. \A k \in 1..Len(b) : b[k] \in Nat
  BY <1>1
<1>5. ASSUME NEW s \in Inputs, NEW j \in 1..Len(s), NEW k \in 1..Len(s), j < k
      PROVE  s[j] <= s[k]
  BY <1>5, InputsAssumption
<1>6. \A j, k \in 1..Len(a) : j <= k => a[j] <= a[k]
  BY <1>1, <1>3, <1>5
<1>7. \A j, k \in 1..Len(b) : j <= k => b[j] <= b[k]
  BY <1>1, <1>4, <1>5
<1> QED  BY <1>1, <1>2, <1>3, <1>4, <1>6, <1>7

\* One step of near keeps the types.
LEMMA TypeStep == TypeOK /\ [Next]_vars => TypeOK'
<1> SUFFICES ASSUME TypeOK, [Next]_vars PROVE TypeOK'
  OBVIOUS
<1>0. /\ a \in Seq(Nat) /\ Len(a) \in Nat
      /\ b \in Seq(Nat) /\ Len(b) \in Nat
      /\ b # <<>> => Len(b) > 0
  BY InputFacts DEF TypeOK
<1> USE DEF TypeOK, inputs
<1>1. CASE EitherEmpty
  BY <1>0, <1>1 DEF EitherEmpty
<1>2. CASE EnterLoop
  BY <1>0, <1>2 DEF EnterLoop
<1>3. CASE Advance
  BY <1>0, <1>3 DEF Advance, Lagging
<1>4. CASE Miss
  BY <1>0, <1>4 DEF Miss
<1>5. CASE Hit
  <2>1. a[p] \in Nat /\ b[q] \in Nat
    BY <1>0, <1>5, SMTT(30) DEF Hit
  <2>2. c1' \in Seq(Nat) /\ c2' \in Seq(Nat)
    BY <1>5, <2>1 DEF Hit
  <2> QED  BY <1>0, <1>5, <2>2 DEF Hit
<1>6. CASE Follow
  <2>1. q + 1 \in 1..Len(b)
    BY <1>0, <1>6 DEF Follow, InReach
  <2>2. b[q + 1] \in Nat
    BY <1>0, <2>1
  <2>3. c2' \in Seq(Nat)
    BY <1>6, <2>2 DEF Follow
  <2> QED  BY <1>0, <1>6, <2>1, <2>3 DEF Follow
<1>7. CASE EndOfReach
  BY <1>0, <1>7 DEF EndOfReach
<1>8. CASE Return
  BY <1>0, <1>8 DEF Return
<1>9. CASE UNCHANGED vars
  BY <1>9 DEF vars
<1> QED  BY <1>1, <1>2, <1>3, <1>4, <1>5, <1>6, <1>7, <1>8, <1>9 DEF Next

\* Every variable keeps its type, and q is only dereferenced inside b.
THEOREM TypeCorrect == Spec => []TypeOK
<1>1. Init => TypeOK
  <2> SUFFICES ASSUME Init PROVE TypeOK
    OBVIOUS
  <2>1. Len(a) \in Nat
    BY InputFacts DEF Init
  <2> QED  BY <2>1 DEF Init, TypeOK
<1>2. TypeOK /\ [Next]_vars => TypeOK'
  BY TypeStep
<1> QED  BY <1>1, <1>2, PTL DEF Spec

\* Being within reach as two inequalities.
LEMMA WithinIneqs ==
  ASSUME NEW x \in Nat, NEW y \in Nat, distance \in Nat
  PROVE  Within(x, y) <=> x - y <= distance /\ y - x <= distance
  BY DEF Within, Promise!Within, Promise!Abs

\* One step of near passes nothing that is still needed.
LEMMA NothingNeededStep ==
  TypeOK /\ NothingNeededBehind /\ [Next]_vars => NothingNeededBehind'
<1> SUFFICES ASSUME TypeOK, NothingNeededBehind, [Next]_vars,
                    pc' \in {"scan", "follow"},
                    NEW k \in 1..(q' - 1), NEW j \in p'..Len(a'),
                    Within(a[j], b[k])'
             PROVE  Within(a[j], b[q])'
  BY Zenon DEF NothingNeededBehind
<1>0. /\ Len(a) \in Nat /\ Len(b) \in Nat /\ distance \in Nat
      /\ \A i \in 1..Len(a) : a[i] \in Nat
      /\ \A i \in 1..Len(b) : b[i] \in Nat
      /\ \A i, l \in 1..Len(a) : i <= l => a[i] <= a[l]
      /\ \A i, l \in 1..Len(b) : i <= l => b[i] <= b[l]
  BY InputFacts DEF TypeOK
<1>1. a' = a /\ b' = b /\ distance' = distance
  BY DEF Next, EitherEmpty, EnterLoop, Advance, Miss, Hit, Follow, EndOfReach,
         Return, vars, inputs
<1>2. CASE EitherEmpty \/ EnterLoop \/ Return
  BY <1>2 DEF EitherEmpty, EnterLoop, Return, TypeOK
<1>3. CASE Advance
  <2>1. /\ q \in 1..Len(b) /\ q + 1 \in 1..Len(b) /\ k \in 1..q /\ p \in 1..Len(a)
        /\ j \in p..Len(a) /\ a[p] - b[q] > distance
    BY <1>0, <1>1, <1>3 DEF Advance, Lagging, TypeOK, inputs
  <2>2. /\ k \in 1..Len(b) /\ j \in 1..Len(a)
        /\ b[k] \in Nat /\ b[q] \in Nat /\ a[p] \in Nat /\ a[j] \in Nat
        /\ b[k] <= b[q] /\ a[p] <= a[j]
    <3>1. k \in 1..Len(b) /\ j \in 1..Len(a) /\ k <= q /\ p <= j
      BY <1>0, <2>1
    <3> QED  BY <1>0, <2>1, <3>1
  <2>3. ~Within(a[j], b[k])
    <3>1. distance \in Nat /\ a[p] - b[q] > distance
      BY <1>0, <2>1
    <3>2. Within(a[j], b[k]) <=> a[j] - b[k] <= distance /\ b[k] - a[j] <= distance
      BY <2>2, <3>1, WithinIneqs
    <3> QED  BY <2>2, <3>1, <3>2, SMTT(30)
  <2> QED  BY <1>1, <2>3 DEF Within, Promise!Within
<1>4. CASE Follow
  <2>1. /\ q \in 1..Len(b) /\ q + 1 \in 1..Len(b) /\ k \in 1..q /\ p \in 1..Len(a)
        /\ j \in p..Len(a) /\ Within(a[p], b[q + 1]) /\ q' = q + 1
    BY <1>0, <1>1, <1>4 DEF Follow, InReach, TypeOK, inputs
  <2>2. /\ b[k] \in Nat /\ b[q + 1] \in Nat /\ a[p] \in Nat /\ a[j] \in Nat
        /\ b[k] <= b[q + 1] /\ a[p] <= a[j]
    <3>1. k \in 1..Len(b) /\ j \in 1..Len(a) /\ k <= q + 1 /\ p <= j
      BY <1>0, <2>1
    <3> QED  BY <1>0, <2>1, <3>1
  <2>3. Within(a[j], b[k])
    BY <1>1 DEF Within, Promise!Within
  <2>4. Within(a[j], b[q + 1])
    <3>1. distance \in Nat /\ Within(a[p], b[q + 1])
      BY <1>0, <2>1
    <3>2. /\ Within(a[j], b[k]) <=> a[j] - b[k] <= distance /\ b[k] - a[j] <= distance
          /\ Within(a[p], b[q + 1]) <=>
               a[p] - b[q + 1] <= distance /\ b[q + 1] - a[p] <= distance
          /\ Within(a[j], b[q + 1]) <=>
               a[j] - b[q + 1] <= distance /\ b[q + 1] - a[j] <= distance
      BY <2>2, <3>1, WithinIneqs
    <3> QED  BY <2>2, <2>3, <3>1, <3>2, SMTT(30)
  <2> QED  BY <1>1, <2>1, <2>4 DEF Within, Promise!Within
<1>5. CASE Miss \/ Hit \/ EndOfReach \/ UNCHANGED vars
  <2>1. /\ q' = q /\ k \in 1..(q - 1) /\ j \in p..Len(a)
        /\ pc \in {"scan", "follow"}
    BY <1>0, <1>1, <1>5 DEF Miss, Hit, EndOfReach, vars, TypeOK
  <2>2. Within(a[j], b[k]) => Within(a[j], b[q])
    BY <2>1 DEF NothingNeededBehind
  <2> QED  BY <1>1, <2>1, <2>2 DEF Within, Promise!Within
<1> QED  BY <1>2, <1>3, <1>4, <1>5 DEF Next

\* Neither moving q up to p nor running it forward loses a neighbour of an
\* element still to come.
THEOREM NothingNeededIsPassed == Spec => []NothingNeededBehind
<1>1. Init => NothingNeededBehind
  BY DEF Init, NothingNeededBehind
<1>2. TypeOK /\ NothingNeededBehind /\ [Next]_vars => NothingNeededBehind'
  BY NothingNeededStep
<1> QED  BY <1>1, <1>2, TypeCorrect, PTL DEF Spec

\* The comparison with *q alone tells whether *p has a neighbour at all.
LEMMA OneComparisonDecides ==
  ASSUME TypeOK, NothingNeededBehind, pc = "scan", p <= Len(a), ~Lagging
  PROVE  Within(a[p], b[q]) <=> Promise!Keep(a[p])
<1>0. /\ Len(a) \in Nat /\ Len(b) \in Nat /\ distance \in Nat
      /\ p \in 1..Len(a) /\ q \in 1..Len(b) /\ a[p] \in Nat
      /\ \A k \in 1..Len(b) : b[k] \in Nat
      /\ \A j, k \in 1..Len(b) : j <= k => b[j] <= b[k]
  BY InputFacts DEF TypeOK
<1>1. Within(a[p], b[q]) => Promise!HasNeighbour(a[p])
  BY <1>0 DEF Promise!HasNeighbour, Within
<1>2. ASSUME NEW k \in 1..Len(b), Promise!Within(a[p], b[k], distance)
      PROVE  Within(a[p], b[q])
  <2>1. CASE k < q
    BY <1>0, <1>2, <2>1 DEF NothingNeededBehind, Within
  <2>2. CASE k = q
    BY <1>2, <2>2 DEF Within
  <2>3. CASE k > q
    <3>1. b[q] <= b[k] /\ q # Len(b)
      BY <1>0, <2>3
    <3>2. b[q] >= a[p] \/ a[p] - b[q] <= distance
      BY <1>0, <3>1 DEF Lagging
    <3> QED  BY <1>0, <1>2, <3>1, <3>2, SMTT(30) DEF Within, Promise!Within, Promise!Abs
  <2> QED  BY <1>0, <2>1, <2>2, <2>3
<1>3. Promise!HasNeighbour(a[p]) \in BOOLEAN
  BY DEF Promise!HasNeighbour
<1>4. Promise!Keep(a[p]) <=> Promise!HasNeighbour(a[p])
  BY <1>3, Zenon DEF Promise!Keep
<1> QED  BY <1>1, <1>2, <1>4 DEF Promise!HasNeighbour

\* One step of near decides an element as @ would, or none.
LEMMA FilterStep ==
  TypeOK /\ NothingNeededBehind /\ [Next]_vars => [Promise!Next]_(Promise!vars)
<1> SUFFICES ASSUME TypeOK, NothingNeededBehind, [Next]_vars
             PROVE  Promise!Next \/ UNCHANGED Promise!vars
  OBVIOUS
<1>0. Len(a) \in Nat /\ Len(b) \in Nat
  BY InputFacts DEF TypeOK
<1> USE DEF inputs, Promise!inputs, Promise!vars
<1>1. CASE EitherEmpty
  <2>1. \A k \in 1..Len(a) : Promise!HasNeighbour(a[k]) = FALSE
    BY <1>1 DEF EitherEmpty, Promise!HasNeighbour
  <2>2. \A k \in 1..Len(a) : ~Promise!Keep(a[k])
    BY <2>1, Zenon DEF Promise!Keep
  <2>3. p = 1 /\ pc = "start" /\ pc' = "done"
    BY <1>1 DEF EitherEmpty, TypeOK
  <2> QED  BY <1>1, <2>2, <2>3 DEF EitherEmpty, Promise!Next, Promise!DropAll
<1>2. CASE EnterLoop
  BY <1>2 DEF EnterLoop
<1>3. CASE Advance
  BY <1>3 DEF Advance
<1>4. CASE Miss
  <2>1. p \in 1..Len(a) /\ ~Promise!Keep(a[p])
    BY <1>0, <1>4, OneComparisonDecides DEF Miss, TypeOK
  <2> QED  BY <1>4, <2>1 DEF Miss, Promise!Next, Promise!Drop
<1>5. CASE Hit
  <2>1. p \in 1..Len(a) /\ Promise!Keep(a[p])
    BY <1>0, <1>5, OneComparisonDecides DEF Hit, TypeOK
  <2> QED  BY <1>5, <2>1 DEF Hit, Promise!Next, Promise!Take
<1>6. CASE Follow
  BY <1>6 DEF Follow
<1>7. CASE EndOfReach
  BY <1>7 DEF EndOfReach
<1>8. CASE Return
  BY <1>8 DEF Return
<1>9. CASE UNCHANGED vars
  BY <1>9 DEF vars
<1> QED  BY <1>1, <1>2, <1>3, <1>4, <1>5, <1>6, <1>7, <1>8, <1>9 DEF Next

\* The first list near returns is the one @ would return: the refinement hides
\* every move of q and both loops around it.
THEOREM SearchImplementsFilter == Spec => ImplementsFilter
<1>1. Init => Promise!Init
  BY DEF Init, Promise!Init
<1>2. TypeOK /\ NothingNeededBehind /\ [Next]_vars => [Promise!Next]_(Promise!vars)
  BY FilterStep
<1> QED
  BY <1>1, <1>2, TypeCorrect, NothingNeededIsPassed, PTL
  DEF Spec, ImplementsFilter, Promise!Spec

\* b[k] is among the neighbours found.
Collected(k) == \E i \in 1..Len(c2) : c2[i] = b[k]

\* The neighbours of the elements decided so far are found, those and no others
\* but the ones of the element at p; and what q has passed is found or out of
\* the reach of whatever is still to come.
NeighboursInv ==
  /\ pc = "start" => c2 = <<>>
  /\ \A k \in 1..Len(c2) : \E i \in 1..Len(a) : Within(a[i], c2[k])
  /\ pc \in {"scan", "follow"} =>
       /\ \A k \in 1..Len(b), i \in 1..(p - 1) : Within(a[i], b[k]) => Collected(k)
       /\ \A k \in 1..(q - 1), j \in p..Len(a) : Within(a[j], b[k]) => Collected(k)
  /\ pc = "follow" => Collected(q) /\ Within(a[p], b[q])
  /\ pc = "done" =>
       \A k \in 1..Len(b), i \in 1..Len(a) : Within(a[i], b[k]) => Collected(k)

\* One step of near keeps what is found, and finds what it passes.
LEMMA NeighboursStep ==
  ASSUME TypeOK, NothingNeededBehind, NeighboursInv, [Next]_vars
  PROVE  NeighboursInv'
<1>0. /\ Len(a) \in Nat /\ Len(b) \in Nat /\ distance \in Nat
      /\ c2 \in Seq(Nat) /\ Len(c2) \in Nat
      /\ \A i \in 1..Len(a) : a[i] \in Nat
      /\ \A i \in 1..Len(b) : b[i] \in Nat
      /\ \A i, l \in 1..Len(a) : i <= l => a[i] <= a[l]
      /\ \A i, l \in 1..Len(b) : i <= l => b[i] <= b[l]
  BY InputFacts DEF TypeOK
<1>1. a' = a /\ b' = b /\ distance' = distance
  BY DEF Next, EitherEmpty, EnterLoop, Advance, Miss, Hit, Follow, EndOfReach,
         Return, vars, inputs
<1>2. \A x, y : Within(x, y)' <=> Within(x, y)
  BY <1>1 DEF Within, Promise!Within
<1>3. ASSUME c2' = c2 PROVE \A k : Collected(k)' <=> Collected(k)
  BY <1>1, <1>3 DEF Collected
<1>4. CASE EitherEmpty
  <2>1. pc' = "done" /\ c2' = c2 /\ (a = <<>> \/ b = <<>>)
    BY <1>4 DEF EitherEmpty
  <2> QED  BY <1>1, <1>2, <2>1 DEF NeighboursInv
<1>5. CASE EnterLoop
  BY <1>1, <1>2, <1>5 DEF EnterLoop, NeighboursInv, TypeOK
<1>6. CASE Advance
  <2>1. /\ q \in 1..Len(b) /\ q' = q + 1 /\ p' = p /\ p \in 1..Len(a) /\ c2' = c2
        /\ pc = "scan" /\ pc' = "scan" /\ a[p] - b[q] > distance
    BY <1>0, <1>6 DEF Advance, Lagging, TypeOK
  <2>2. ASSUME NEW j \in p..Len(a) PROVE ~Within(a[j], b[q])
    <3>1. j \in 1..Len(a) /\ p <= j
      BY <2>1
    <3>2. a[j] \in Nat /\ b[q] \in Nat /\ a[p] \in Nat /\ a[p] <= a[j]
      BY <1>0, <2>1, <3>1
    <3> QED  BY <1>0, <2>1, <3>2, WithinIneqs
  <2>3. ASSUME NEW k \in 1..(q' - 1), NEW j \in p'..Len(a), Within(a[j], b[k])
        PROVE  Collected(k)
    <3>1. k \in 1..(q - 1)
      BY <2>1, <2>2, <2>3
    <3> QED  BY <2>1, <2>3, <3>1 DEF NeighboursInv
  <2> QED  BY <1>1, <1>2, <1>3, <2>1, <2>3 DEF NeighboursInv
<1>7. CASE Miss
  <2>1. /\ p \in 1..Len(a) /\ p' = p + 1 /\ q' = q /\ c2' = c2 /\ pc = "scan" /\ pc' = "scan"
        /\ ~Promise!Keep(a[p])
    BY <1>0, <1>7, OneComparisonDecides DEF Miss, TypeOK
  <2>2. \A k \in 1..Len(b) : ~Within(a[p], b[k])
    <3>1. Promise!HasNeighbour(a[p]) \in BOOLEAN
      BY DEF Promise!HasNeighbour
    <3>2. ~Promise!HasNeighbour(a[p])
      BY <2>1, <3>1, Zenon DEF Promise!Keep
    <3> QED  BY <3>2 DEF Promise!HasNeighbour, Within
  <2>3. ASSUME NEW k \in 1..Len(b), NEW i \in 1..(p' - 1), Within(a[i], b[k])
        PROVE  Collected(k)
    <3>1. i \in 1..(p - 1)
      BY <2>1, <2>2, <2>3
    <3> QED  BY <2>1, <2>3, <3>1 DEF NeighboursInv
  <2>4. ASSUME NEW k \in 1..(q - 1), NEW j \in p'..Len(a), Within(a[j], b[k])
        PROVE  Collected(k)
    <3>1. j \in p..Len(a)
      BY <2>1
    <3> QED  BY <2>1, <2>4, <3>1 DEF NeighboursInv
  <2> QED  BY <1>1, <1>2, <1>3, <2>1, <2>3, <2>4 DEF NeighboursInv
<1>8. CASE Hit \/ Follow
  <2>1. /\ p \in 1..Len(a) /\ p' = p /\ pc' = "follow" /\ pc \in {"scan", "follow"}
        /\ q \in 1..Len(b) /\ q' \in {q, q + 1} /\ q' \in 1..Len(b)
        /\ c2' = Append(c2, b[q']) /\ Within(a[p], b[q'])
        /\ q' = q + 1 => pc = "follow"
    <3>1. CASE Hit
      BY <1>0, <3>1 DEF Hit, TypeOK
    <3>2. CASE Follow
      <4>1. q + 1 \in 1..Len(b)
        BY <1>0, <3>2 DEF Follow, InReach, TypeOK
      <4> QED  BY <1>0, <3>2, <4>1 DEF Follow, InReach, TypeOK
    <3> QED  BY <1>8, <3>1, <3>2
  <2>2. /\ Len(c2') = Len(c2) + 1 /\ c2'[Len(c2) + 1] = b[q']
        /\ \A i \in 1..Len(c2) : c2'[i] = c2[i]
    BY <1>0, <2>1
  <2>3. \A k : Collected(k) => Collected(k)'
    BY <1>0, <1>1, <2>2 DEF Collected
  <2>4. Collected(q)'
    <3>1. Len(c2') \in 1..Len(c2')
      BY <1>0, <2>2
    <3>2. c2'[Len(c2')] = b'[q']
      BY <1>1, <2>2
    <3> QED  BY <3>1, <3>2 DEF Collected
  <2>5. ASSUME NEW k \in 1..Len(c2') PROVE \E i \in 1..Len(a) : Within(a[i], c2'[k])
    <3>1. CASE k \in 1..Len(c2)
      BY <2>2, <3>1 DEF NeighboursInv
    <3>2. CASE k = Len(c2) + 1
      BY <2>1, <2>2, <3>2
    <3> QED  BY <1>0, <2>2, <3>1, <3>2
  <2>6. ASSUME NEW k \in 1..(q' - 1), NEW j \in p..Len(a), Within(a[j], b[k])
        PROVE  Collected(k)
    <3>1. CASE k \in 1..(q - 1)
      BY <2>1, <2>6, <3>1 DEF NeighboursInv
    <3>2. CASE k = q /\ pc = "follow"
      BY <3>2 DEF NeighboursInv
    <3>3. q' = q \/ (q' = q + 1 /\ pc = "follow")
      BY <2>1
    <3>4. q \in Nat
      BY <1>0, <2>1
    <3>5. CASE q' = q
      BY <3>1, <3>4, <3>5
    <3>6. CASE q' = q + 1 /\ pc = "follow"
      <4>1. k \in 1..(q - 1) \/ k = q
        BY <3>4, <3>6
      <4> QED  BY <3>1, <3>2, <3>6, <4>1
    <3> QED  BY <3>3, <3>5, <3>6
  <2> QED  BY <1>1, <1>2, <2>1, <2>3, <2>4, <2>5, <2>6 DEF NeighboursInv
<1>9. CASE EndOfReach
  <2>1. /\ p \in 1..Len(a) /\ p' = p + 1 /\ q' = q /\ q \in 1..Len(b) /\ c2' = c2
        /\ pc = "follow" /\ pc' = "scan"
        /\ q + 1 = Len(b) + 1 \/ ~Within(a[p], b[q + 1])
    BY <1>0, <1>9 DEF EndOfReach, InReach, TypeOK
  <2>2. ASSUME NEW k \in 1..Len(b), Within(a[p], b[k]) PROVE Collected(k)
    <3>1. CASE k \in 1..(q - 1)
      BY <2>1, <2>2, <3>1 DEF NeighboursInv
    <3>2. CASE k = q
      BY <2>1, <3>2 DEF NeighboursInv
    <3>3. CASE k > q
      <4>1. q + 1 \in 1..Len(b) /\ q <= q + 1 /\ q + 1 <= k
        BY <1>0, <2>1, <3>3
      <4>2. /\ b[q] \in Nat /\ b[q + 1] \in Nat /\ b[k] \in Nat /\ a[p] \in Nat
            /\ b[q] <= b[q + 1] /\ b[q + 1] <= b[k]
        BY <1>0, <2>1, <4>1
      <4>3. Within(a[p], b[q]) /\ ~Within(a[p], b[q + 1])
        BY <1>0, <2>1, <4>1 DEF NeighboursInv
      <4>4. ~(a[p] - b[q + 1] <= distance /\ b[q + 1] - a[p] <= distance)
        BY <1>0, <4>2, <4>3, WithinIneqs
      <4>5. a[p] - b[q] <= distance /\ b[k] - a[p] <= distance
        BY <1>0, <2>2, <4>2, <4>3, WithinIneqs
      <4> QED  BY <1>0, <4>2, <4>4, <4>5, SMTT(30)
    <3> QED  BY <2>1, <3>1, <3>2, <3>3
  <2>3. ASSUME NEW k \in 1..Len(b), NEW i \in 1..(p' - 1), Within(a[i], b[k])
        PROVE  Collected(k)
    <3>1. i \in 1..(p - 1) \/ i = p
      BY <2>1
    <3> QED  BY <2>1, <2>2, <2>3, <3>1 DEF NeighboursInv
  <2>4. ASSUME NEW k \in 1..(q - 1), NEW j \in p'..Len(a), Within(a[j], b[k])
        PROVE  Collected(k)
    <3>1. j \in p..Len(a)
      BY <2>1
    <3> QED  BY <2>1, <2>4, <3>1 DEF NeighboursInv
  <2> QED  BY <1>1, <1>2, <1>3, <2>1, <2>3, <2>4 DEF NeighboursInv
<1>10. CASE Return
  <2>1. pc = "scan" /\ pc' = "done" /\ c2' = c2 /\ p = Len(a) + 1
    BY <1>0, <1>10 DEF Return, TypeOK
  <2>2. p - 1 = Len(a)
    BY <1>0, <2>1
  <2> QED  BY <1>1, <1>2, <1>3, <2>1, <2>2 DEF NeighboursInv
<1>11. CASE UNCHANGED vars
  <2>1. UNCHANGED <<p, q, c2, pc>>
    BY <1>11 DEF vars
  <2> QED  BY <1>1, <1>2, <1>3, <2>1 DEF NeighboursInv
<1> QED  BY <1>4, <1>5, <1>6, <1>7, <1>8, <1>9, <1>10, <1>11 DEF Next

\* What near returns for the second expression are all its matches near one of
\* the first and no others, although q is never moved back.
THEOREM NeighboursAreComplete == Spec => []NeighboursComplete
<1>1. Init => NeighboursInv
  BY DEF Init, NeighboursInv
<1>2. TypeOK /\ NothingNeededBehind /\ NeighboursInv /\ [Next]_vars => NeighboursInv'
  BY NeighboursStep
<1>3. NeighboursInv => NeighboursComplete
  BY DEF NeighboursInv, NeighboursComplete, Collected
<1> QED  BY <1>1, <1>2, <1>3, TypeCorrect, NothingNeededIsPassed, PTL DEF Spec
------------------------------------------------------------------------------
Counts == [programs : Nat, matches01 : Nat, matches02 : Nat, total : Nat]

\* The files, the counts and the phase; current_date is not counted apart.
FilesOK ==
  /\ files \in Ranges
  /\ distance \in Distances
  /\ it \in 1..(Len(files) + 1)
  /\ prog \in Nat \ {0}
  /\ current_date = it
  /\ cnt \in Counts
  /\ rows \in Seq([dt : Nat, cnt : Counts])
  /\ corrupt_files \in Seq(Nat)
  /\ phase \in {"files", "programs", "near", "done"}
  /\ phase \in {"programs", "near"} => it <= Len(files) /\ files[it].outcome = "parsed"

\* While near runs it is in one of the states of the first part,
\* and between its calls it is at rest.
CallOK ==
  /\ phase = "near" => TypeOK /\ NothingNeededBehind
  /\ phase # "near" => pc = "done"

ProgramInv == FilesOK /\ CallOK

\* What the assumption says of the programs of a file.
LEMMA FileFacts ==
  ASSUME files \in Ranges
  PROVE  /\ files \in Seq([outcome : Outcomes, programs : Seq(Inputs \X Inputs)])
         /\ Len(files) \in Nat
         /\ \A d \in 1..Len(files) :
              /\ files[d].programs \in Seq(Inputs \X Inputs)
              /\ Len(files[d].programs) \in Nat
<1> DEFINE lists == Seq(Inputs \X Inputs)
           days == [outcome : Outcomes, programs : lists]
<1>1. files \in Seq(days)
  BY RangesAssumption
<1>2. ASSUME NEW d \in 1..Len(files)
      PROVE  files[d].programs \in Seq(Inputs \X Inputs)
  <2>1. files[d] \in days
    <3> HIDE DEF days
    <3> QED  BY <1>1
  <2> HIDE DEF lists
  <2>2. files[d].programs \in lists
    BY <2>1
  <2> QED  BY <2>2 DEF lists
<1> QED  BY <1>1, <1>2

LEMMA InitInv == ProgramInit => ProgramInv
<1> SUFFICES ASSUME ProgramInit PROVE ProgramInv
  OBVIOUS
<1>1. Len(files) \in Nat
  BY FileFacts DEF ProgramInit
<1>2. FilesOK
  BY <1>1 DEF ProgramInit, FilesOK, Counts, Zero
<1> QED  BY <1>2 DEF ProgramInit, ProgramInv, CallOK

\* A call of near begins in an initial state of NearSearch.
LEMMA CallBegins ==
  ASSUME ProgramInv, Call
  PROVE  /\ a' \in Inputs /\ b' \in Inputs
         /\ TypeOK' /\ NothingNeededBehind'
<1>1. /\ prog \in 1..Len(programs)
      /\ programs \in Seq(Inputs \X Inputs)
  BY FileFacts DEF ProgramInv, FilesOK, Call, programs
<1>2. programs[prog] \in Inputs \X Inputs
  BY <1>1
<1>3. a' \in Inputs /\ b' \in Inputs /\ distance' \in Distances
  BY <1>2 DEF Call, ProgramInv, FilesOK
<1>4. Len(a') \in Nat
  BY <1>3, InputsAssumption
<1>5. TypeOK'
  BY <1>3, <1>4 DEF Call, TypeOK
<1> QED  BY <1>3, <1>5 DEF Call, NothingNeededBehind

LEMMA StepInv == ProgramInv /\ [ProgramNext]_programVars => ProgramInv'
<1> SUFFICES ASSUME ProgramInv, [ProgramNext]_programVars PROVE ProgramInv'
  OBVIOUS
<1>0. Len(files) \in Nat
  BY FileFacts DEF ProgramInv, FilesOK
<1> USE DEF ProgramInv, FilesOK, CallOK, fileVars, nearVars
<1>1. CASE MissingFile
  BY <1>0, <1>1 DEF MissingFile, IsNextFile, vars
<1>2. CASE CorruptFile
  <2>1. corrupt_files' \in Seq(Nat)
    BY <1>2 DEF CorruptFile
  <2> QED  BY <1>0, <1>2, <2>1 DEF CorruptFile, IsNextFile, vars
<1>3. CASE OpenFile
  <2>1. Len(programs) \in Nat
    BY <1>0, <1>3, FileFacts DEF OpenFile, IsNextFile, programs
  <2>2. cnt' \in Counts
    BY <1>3, <2>1 DEF OpenFile, Counts, Zero
  <2> QED  BY <1>0, <1>3, <2>2 DEF OpenFile, IsNextFile, vars
<1>4. CASE Call
  <2>1. TypeOK' /\ NothingNeededBehind'
    BY <1>4, CallBegins
  <2> QED  BY <1>4, <2>1 DEF Call
<1>5. CASE NearStep
  <2>1. TypeOK' /\ NothingNeededBehind'
    BY <1>5, TypeStep, NothingNeededStep DEF NearStep
  <2>2. distance' = distance
    BY <1>5 DEF NearStep, Next, EitherEmpty, EnterLoop, Advance, Miss, Hit, Follow,
                EndOfReach, Return, inputs
  <2> QED  BY <1>5, <2>1, <2>2 DEF NearStep
<1>6. CASE CountProgram
  <2>1. hits01 \in Nat /\ hits02 \in Nat
    BY <1>6 DEF CountProgram, TypeOK, hits01, hits02
  <2>2. cnt' \in Counts
    <3> DEFINE h1 == hits01
               h2 == hits02
    <3>1. h1 \in Nat /\ h2 \in Nat /\ cnt \in Counts
      BY <2>1
    <3>2. CASE cnt' = cnt
      BY <3>1, <3>2
    <3>3. CASE cnt' = [cnt EXCEPT !.programs = @ + 1,
                                  !.matches01 = @ + h1, !.matches02 = @ + h2]
      <4> HIDE DEF h1, h2
      <4>1. cnt' = [programs |-> cnt.programs + 1, matches01 |-> cnt.matches01 + h1,
                    matches02 |-> cnt.matches02 + h2, total |-> cnt.total]
        BY <3>1, <3>3 DEF Counts
      <4> QED  BY <3>1, <4>1, SMTT(30) DEF Counts
    <3> QED  BY <1>6, <3>2, <3>3 DEF CountProgram
  <2> QED  BY <1>6, <2>2 DEF CountProgram, vars
<1>7. CASE EndOfFile
  <2>1. rows' \in Seq([dt : Nat, cnt : Counts])
    BY <1>0, <1>7 DEF EndOfFile
  <2> QED  BY <1>0, <1>7, <2>1 DEF EndOfFile, vars
<1>8. CASE GrandTotal
  BY <1>8 DEF GrandTotal, vars
<1>9. CASE UNCHANGED programVars
  BY <1>9 DEF programVars, vars, TypeOK, NothingNeededBehind, Within, Promise!Within
<1> QED
  BY <1>1, <1>2, <1>3, <1>4, <1>5, <1>6, <1>7, <1>8, <1>9 DEF ProgramNext

\* The days of AreDays, when day i of fs is the next to be read.
AreDaysOf(days, outcome, fs, i) ==
  /\ {days[k] : k \in DOMAIN days} = {d \in 1..(i - 1) : fs[d].outcome = outcome}
  /\ \A j, k \in DOMAIN days : j < k => days[j] < days[k]

\* A day that is added to the days read keeps them in order.
LEMMA DaysAdded ==
  ASSUME NEW i \in Nat \ {0}, NEW fs, NEW outcome, fs[i].outcome = outcome,
         NEW n \in Nat, NEW days, DOMAIN days = 1..n, AreDaysOf(days, outcome, fs, i),
         NEW longer, DOMAIN longer = 1..(n + 1), longer[n + 1] = i,
         \A k \in 1..n : longer[k] = days[k]
  PROVE  AreDaysOf(longer, outcome, fs, i + 1)
<1>1. \A k \in 1..n : days[k] \in {d \in 1..(i - 1) : fs[d].outcome = outcome}
  BY DEF AreDaysOf
<1>2. \A d \in 1..(i - 1) : fs[d].outcome = outcome => \E k \in 1..n : days[k] = d
  BY DEF AreDaysOf
<1>3. {longer[k] : k \in 1..(n + 1)} = {d \in 1..(i + 1 - 1) : fs[d].outcome = outcome}
  <2>1. ASSUME NEW k \in 1..(n + 1)
        PROVE  longer[k] \in {d \in 1..(i + 1 - 1) : fs[d].outcome = outcome}
    <3>1. CASE k \in 1..n
      BY <1>1, <3>1
    <3>2. CASE k = n + 1
      BY <3>2
    <3> QED  BY <3>1, <3>2
  <2>2. ASSUME NEW d \in 1..(i + 1 - 1), fs[d].outcome = outcome
        PROVE  \E k \in 1..(n + 1) : longer[k] = d
    <3>1. CASE d = i
      BY <3>1
    <3>2. CASE d # i
      <4>1. d \in 1..(i - 1)
        BY <3>2
      <4> QED  BY <1>2, <2>2, <4>1
    <3> QED  BY <3>1, <3>2
  <2> QED  BY <2>1, <2>2
<1>4. ASSUME NEW j \in 1..(n + 1), NEW k \in 1..(n + 1), j < k
      PROVE  longer[j] < longer[k]
  <2>1. j \in 1..n /\ longer[j] = days[j]
    BY <1>4
  <2>2. CASE k = n + 1
    <3>1. days[j] \in 1..(i - 1)
      BY <1>1, <2>1
    <3> QED  BY <2>1, <2>2, <3>1
  <2>3. CASE k # n + 1
    BY <1>4, <2>1, <2>3 DEF AreDaysOf
  <2> QED  BY <2>2, <2>3
<1> QED  BY <1>3, <1>4 DEF AreDaysOf

\* A day whose file came out otherwise leaves them as they are.
LEMMA DaysKept ==
  ASSUME NEW i \in Nat \ {0}, NEW fs, NEW outcome, fs[i].outcome # outcome,
         NEW days, AreDaysOf(days, outcome, fs, i)
  PROVE  AreDaysOf(days, outcome, fs, i + 1)
<1>1. {d \in 1..(i + 1 - 1) : fs[d].outcome = outcome}
        = {d \in 1..(i - 1) : fs[d].outcome = outcome}
  OBVIOUS
<1> QED  BY <1>1 DEF AreDaysOf

\* The invariant of near_search, over all files and calls of near.
THEOREM InvCorrect == ProgramSpec => []ProgramInv
<1> QED  BY InitInv, StepInv, PTL DEF ProgramSpec

\* In every call of near that a run makes, whatever was read before, running q
\* forward passes nothing that is needed.
THEOREM NothingNeededInAnyCall == ProgramSpec => []NothingNeededBehind
<1>1. ProgramInv => NothingNeededBehind
  BY DEF ProgramInv, CallOK, NothingNeededBehind
<1> QED  BY <1>1, InvCorrect, PTL

\* In every call the neighbours of the second expression come out complete,
\* and they stay so until they have been counted.
THEOREM NeighboursAreCompleteInAnyCall == ProgramSpec => []NeighboursComplete
<1>1. ProgramInit => NeighboursInv
  BY DEF ProgramInit, NeighboursInv
<1>2. ASSUME ProgramInv, NeighboursInv, [ProgramNext]_programVars
      PROVE  NeighboursInv'
  <2>1. CASE Call
    BY <2>1 DEF Call, NeighboursInv
  <2>2. CASE NearStep
    BY <1>2, <2>2, NeighboursStep DEF NearStep, ProgramInv, CallOK
  <2>3. CASE UNCHANGED vars
    BY <1>2, <2>3 DEF vars, NeighboursInv, Collected, Within, Promise!Within
  <2> QED
    BY <1>2, <2>1, <2>2, <2>3
    DEF ProgramNext, MissingFile, CorruptFile, OpenFile, CountProgram, EndOfFile, GrandTotal,
        nearVars, programVars
<1>3. NeighboursInv => NeighboursComplete
  BY DEF NeighboursInv, NeighboursComplete, Collected
<1> QED  BY <1>1, <1>2, <1>3, InvCorrect, PTL DEF ProgramSpec

\* Every call is given two lists of the program at hand, starts afresh, and
\* decides each match of the first as the operator @ would.
THEOREM CallsImplementFilter == ProgramSpec => EveryCallImplementsFilter
<1>1. ASSUME ProgramInv, [ProgramNext]_programVars
      PROVE  [IF pc' = "start" /\ pc = "done"
              THEN a' \in Inputs /\ b' \in Inputs /\ p' = 1 /\ c1' = <<>>
              ELSE Promise!Next \/ UNCHANGED Promise!vars]_programVars
  <2>1. CASE Call
    <3>1. pc' = "start" /\ pc = "done" /\ p' = 1 /\ c1' = <<>>
      BY <1>1, <2>1 DEF Call, ProgramInv, CallOK
    <3> QED  BY <1>1, <2>1, <3>1, CallBegins
  <2>2. CASE NearStep
    <3>1. TypeOK /\ NothingNeededBehind /\ Next
      BY <1>1, <2>2 DEF NearStep, ProgramInv, CallOK
    <3>2. Promise!Next \/ UNCHANGED Promise!vars
      BY <3>1, FilterStep
    <3>3. ~(pc' = "start" /\ pc = "done")
      BY <3>1 DEF Next, EitherEmpty, EnterLoop, Advance, Miss, Hit, Follow, EndOfReach, Return
    <3> QED  BY <3>2, <3>3
  <2>3. CASE UNCHANGED nearVars
    BY <2>3 DEF nearVars, vars, Promise!vars
  <2>4. CASE UNCHANGED programVars
    BY <2>4
  <2> QED
    BY <1>1, <2>1, <2>2, <2>3, <2>4
    DEF ProgramNext, MissingFile, CorruptFile, OpenFile, CountProgram, EndOfFile, GrandTotal
<1> QED  BY <1>1, InvCorrect, PTL DEF ProgramSpec, EveryCallImplementsFilter

\* For every range of files, however the three kinds of day alternate, a row
\* shows the date of its file and every corrupt file is listed.
THEOREM DatesKeepPace == ProgramSpec => []RowsAreDated
<1>1. ProgramInit => RowsAreDated
  BY DEF ProgramInit, RowsAreDated, AreDays
<1>2. ASSUME ProgramInv, RowsAreDated, [ProgramNext]_programVars
      PROVE  RowsAreDated'
  <2> DEFINE dates == [k \in DOMAIN rows |-> rows[k].dt]
  <2>0. /\ it \in Nat \ {0} /\ current_date = it
        /\ AreDaysOf(dates, "parsed", files, it)
        /\ AreDaysOf(corrupt_files, "corrupt", files, it)
        /\ Len(rows) \in Nat /\ DOMAIN rows = 1..Len(rows)
        /\ Len(corrupt_files) \in Nat /\ DOMAIN corrupt_files = 1..Len(corrupt_files)
    <3>1. /\ it \in Nat \ {0} /\ current_date = it
          /\ rows \in Seq([dt : Nat, cnt : Counts])
          /\ corrupt_files \in Seq(Nat)
      BY <1>2, FileFacts DEF ProgramInv, FilesOK
    <3>2. /\ AreDaysOf(dates, "parsed", files, it)
          /\ AreDaysOf(corrupt_files, "corrupt", files, it)
      BY <1>2 DEF RowsAreDated, AreDays, AreDaysOf
    <3>3. /\ Len(rows) \in Nat /\ DOMAIN rows = 1..Len(rows)
          /\ Len(corrupt_files) \in Nat /\ DOMAIN corrupt_files = 1..Len(corrupt_files)
      BY <3>1
    <3> QED  BY <3>1, <3>2, <3>3
  <2> SUFFICES /\ AreDaysOf(dates', "parsed", files', it')
               /\ AreDaysOf(corrupt_files', "corrupt", files', it')
    BY DEF RowsAreDated, AreDays, AreDaysOf
  <2>1. CASE MissingFile
    <3>1. it' = it + 1 /\ files' = files /\ files[it].outcome = "missing"
          /\ dates' = dates /\ corrupt_files' = corrupt_files
      BY <2>1 DEF MissingFile, IsNextFile
    <3> HIDE DEF dates
    <3> QED  BY <2>0, <3>1, DaysKept
  <2>2. CASE CorruptFile
    <3>1. it' = it + 1 /\ files' = files /\ files[it].outcome = "corrupt"
          /\ dates' = dates /\ corrupt_files' = Append(corrupt_files, it)
      BY <2>2 DEF CorruptFile, IsNextFile
    <3>2. /\ DOMAIN corrupt_files' = 1..(Len(corrupt_files) + 1)
          /\ \A k \in 1..Len(corrupt_files) : corrupt_files'[k] = corrupt_files[k]
          /\ corrupt_files'[Len(corrupt_files) + 1] = it
      BY <1>2, <3>1 DEF ProgramInv, FilesOK
    <3> HIDE DEF dates
    <3>3. AreDaysOf(dates', "parsed", files', it')
      BY <2>0, <3>1, DaysKept
    <3>4. AreDaysOf(corrupt_files', "corrupt", files', it')
      BY <2>0, <3>1, <3>2, DaysAdded
    <3> QED  BY <3>3, <3>4
  <2>3. CASE EndOfFile
    <3>1. /\ it' = it + 1 /\ files' = files /\ files[it].outcome = "parsed"
          /\ rows' = Append(rows, [dt |-> it, cnt |-> cnt]) /\ corrupt_files' = corrupt_files
      BY <1>2, <2>0, <2>3 DEF EndOfFile, ProgramInv, FilesOK
    <3>2. /\ DOMAIN dates = 1..Len(rows) /\ DOMAIN dates' = 1..(Len(rows) + 1)
          /\ \A k \in 1..Len(rows) : dates'[k] = dates[k]
          /\ dates'[Len(rows) + 1] = it
      BY <1>2, <2>0, <3>1 DEF ProgramInv, FilesOK
    <3> HIDE DEF dates
    <3>3. AreDaysOf(corrupt_files', "corrupt", files', it')
      BY <2>0, <3>1, DaysKept
    <3>4. AreDaysOf(dates', "parsed", files', it')
      BY <2>0, <3>1, <3>2, DaysAdded
    <3> QED  BY <3>3, <3>4
  <2>4. CASE UNCHANGED <<files, it, rows, corrupt_files>>
    BY <2>0, <2>4
  <2> QED
    BY <1>2, <2>1, <2>2, <2>3, <2>4
    DEF ProgramNext, OpenFile, Call, NearStep, CountProgram, GrandTotal, fileVars, programVars
<1> QED  BY <1>1, <1>2, InvCorrect, PTL DEF ProgramSpec
\* The elements up to the n-th of either list that have one of the other near,
\* and the elements of the first that are decided.
Near01(n) == {k \in 1..n : \E j \in 1..Len(b) : Within(a[k], b[j])}
Near02(n) == {k \in 1..Len(b) : k <= n /\ \E i \in 1..Len(a) : Within(a[i], b[k])}
Decided == IF pc = "follow" THEN p ELSE p - 1

\* The first list has one entry per element with a neighbour; the second has at
\* most one for each of them, from the hit, and one for each element it ran to.
CallCounts ==
  /\ pc = "start" => c2 = <<>>
  /\ pc = "done" => p = Len(a) + 1
  /\ Len(c1) = Cardinality(Near01(Decided))
  /\ Len(c2) <= Len(c1) + Cardinality(Near02(q))

\* How the two sets grow by the next element.
LEMMA NearGrows ==
  ASSUME NEW n \in Nat, NEW n1 \in Nat, n1 = n + 1, Len(b) \in Nat
  PROVE  /\ IsFiniteSet(Near01(n)) /\ Cardinality(Near01(n)) \in Nat
         /\ IsFiniteSet(Near02(n)) /\ Cardinality(Near02(n)) \in Nat
         /\ Cardinality(Near01(n1)) =
              Cardinality(Near01(n)) +
                (IF \E j \in 1..Len(b) : Within(a[n1], b[j]) THEN 1 ELSE 0)
         /\ Cardinality(Near02(n)) <= Cardinality(Near02(n1))
         /\ n1 \in 1..Len(b) /\ (\E i \in 1..Len(a) : Within(a[i], b[n1]))
              => Cardinality(Near02(n1)) = Cardinality(Near02(n)) + 1
<1> DEFINE has == \E j \in 1..Len(b) : Within(a[n1], b[j])
<1>1. /\ IsFiniteSet(Near01(n)) /\ Cardinality(Near01(n)) \in Nat
      /\ IsFiniteSet(Near02(n)) /\ Cardinality(Near02(n)) \in Nat
      /\ IsFiniteSet(Near02(n1)) /\ Cardinality(Near02(n1)) \in Nat
  <2>1. 1 \in Int /\ n \in Int /\ Len(b) \in Int
    OBVIOUS
  <2>2. IsFiniteSet(1..n) /\ IsFiniteSet(1..Len(b))
    BY <2>1, FS_Interval
  <2>3. Near01(n) \in SUBSET (1..n) /\ Near02(n) \in SUBSET (1..Len(b))
        /\ Near02(n1) \in SUBSET (1..Len(b))
    BY DEF Near01, Near02
  <2>4. IsFiniteSet(Near01(n)) /\ IsFiniteSet(Near02(n)) /\ IsFiniteSet(Near02(n1))
    BY <2>2, <2>3, FS_Subset
  <2> QED  BY <2>4, FS_CardinalityType
<1>2. Cardinality(Near01(n1)) = Cardinality(Near01(n)) + (IF has THEN 1 ELSE 0)
  <2>1. 1..n1 = 1..n \cup {n1} /\ n1 \notin 1..n
    OBVIOUS
  <2>2. n1 \notin Near01(n)
    BY <2>1 DEF Near01
  <2>3. CASE has
    <3>1. Near01(n1) = Near01(n) \cup {n1}
      BY <2>1, <2>3 DEF Near01
    <3> QED  BY <1>1, <2>2, <2>3, <3>1, FS_AddElement
  <2>4. CASE ~has
    <3>1. Near01(n1) = Near01(n)
      BY <2>1, <2>4 DEF Near01
    <3> QED  BY <1>1, <2>4, <3>1
  <2> QED  BY <2>3, <2>4
<1>3. Cardinality(Near02(n)) <= Cardinality(Near02(n1))
  <2>1. Near02(n) \in SUBSET Near02(n1)
    BY DEF Near02
  <2> QED  BY <1>1, <2>1, FS_Subset
<1>4. ASSUME n1 \in 1..Len(b), \E i \in 1..Len(a) : Within(a[i], b[n1])
      PROVE  Cardinality(Near02(n1)) = Cardinality(Near02(n)) + 1
  <2>1. n1 \notin Near02(n)
    BY DEF Near02
  <2>2. Near02(n1) = Near02(n) \cup {n1}
    BY <1>4 DEF Near02
  <2> QED  BY <1>1, <2>1, <2>2, FS_AddElement
<1> QED  BY <1>1, <1>2, <1>3, <1>4

\* One step of near keeps the count of its hits.
LEMMA CallCountsStep ==
  ASSUME TypeOK, NothingNeededBehind, CallCounts, [Next]_vars
  PROVE  CallCounts'
<1>0. /\ Len(a) \in Nat /\ Len(b) \in Nat
      /\ c1 \in Seq(Nat) /\ Len(c1) \in Nat
      /\ c2 \in Seq(Nat) /\ Len(c2) \in Nat
      /\ p \in Nat \ {0} /\ q \in Nat
      /\ a # <<>> => Len(a) > 0
  <2>1. a \in Seq(Nat)
    BY InputFacts DEF TypeOK
  <2> QED  BY <2>1, EmptySeq, InputFacts DEF TypeOK
<1>1. a' = a /\ b' = b /\ distance' = distance
  BY DEF Next, EitherEmpty, EnterLoop, Advance, Miss, Hit, Follow, EndOfReach,
         Return, vars, inputs
<1>2. \A n : Near01(n)' = Near01(n) /\ Near02(n)' = Near02(n)
  BY <1>1 DEF Near01, Near02, Within, Promise!Within
<1>3. SUFFICES /\ pc' = "start" => c2' = <<>>
               /\ pc' = "done" => p' = Len(a) + 1
               /\ Len(c1') = Cardinality(Near01(Decided'))
               /\ Len(c2') <= Len(c1') + Cardinality(Near02(q'))
  BY <1>1, <1>2 DEF CallCounts
<1>4. /\ pc = "start" => c2 = <<>>
      /\ pc = "done" => p = Len(a) + 1
      /\ Len(c1) = Cardinality(Near01(Decided))
      /\ Len(c2) <= Len(c1) + Cardinality(Near02(q))
  BY DEF CallCounts
<1>5. CASE EitherEmpty
  <2>1. /\ pc = "start" /\ pc' = "done" /\ p' = Len(a) + 1 /\ p = 1 /\ UNCHANGED <<q, c1, c2>>
        /\ a = <<>> \/ b = <<>>
    BY <1>5 DEF EitherEmpty, TypeOK
  <2>2. Decided = 0 /\ Decided' = Len(a)
    BY <1>0, <2>1 DEF Decided
  <2>3. Near01(0) = {} /\ Near01(Len(a)) = {}
    BY <2>1 DEF Near01
  <2> QED  BY <1>4, <2>1, <2>2, <2>3
<1>6. CASE EnterLoop \/ Return \/ UNCHANGED vars
  <2>1. /\ UNCHANGED <<p, q, c1, c2>>
        /\ pc' # "start" \/ pc' = pc
        /\ pc' = "done" => p = Len(a) + 1
        /\ (pc' = "follow") <=> (pc = "follow")
    <3>1. CASE EnterLoop
      BY <3>1 DEF EnterLoop
    <3>2. CASE Return
      BY <1>0, <3>2 DEF Return, TypeOK
    <3>3. CASE UNCHANGED vars
      BY <1>4, <3>3 DEF vars
    <3> QED  BY <1>6, <3>1, <3>2, <3>3
  <2>2. Decided' = Decided
    BY <2>1 DEF Decided
  <2> QED  BY <1>4, <2>1, <2>2
<1>7. CASE Advance
  <2>1. /\ pc = "scan" /\ pc' = "scan" /\ UNCHANGED <<p, c1, c2>> /\ q' = q + 1
    BY <1>7 DEF Advance
  <2>2. Decided' = Decided
    BY <2>1 DEF Decided
  <2>3. /\ Cardinality(Near02(q)) <= Cardinality(Near02(q'))
        /\ Cardinality(Near02(q)) \in Nat /\ Cardinality(Near02(q')) \in Nat
    <3> DEFINE q1 == q'
    <3>1. q1 \in Nat /\ q1 = q + 1 /\ q1 + 1 \in Nat
      BY <1>0, <2>1
    <3> HIDE DEF q1
    <3>2. /\ Cardinality(Near02(q)) <= Cardinality(Near02(q1))
          /\ Cardinality(Near02(q)) \in Nat
      BY <1>0, <3>1, NearGrows
    <3>3. Cardinality(Near02(q1)) \in Nat
      BY <1>0, <3>1, NearGrows
    <3> QED  BY <3>2, <3>3 DEF q1
  <2> QED  BY <1>0, <1>4, <2>1, <2>2, <2>3
<1>8. CASE Miss
  <2>1. /\ pc = "scan" /\ pc' = "scan" /\ UNCHANGED <<q, c1, c2>> /\ p' = p + 1 /\ p \in 1..Len(a)
        /\ ~Promise!Keep(a[p])
    BY <1>0, <1>8, OneComparisonDecides DEF Miss, TypeOK
  <2>2. ~\E j \in 1..Len(b) : Within(a[p], b[j])
    <3>1. Promise!HasNeighbour(a[p]) \in BOOLEAN
      BY DEF Promise!HasNeighbour
    <3>2. ~Promise!HasNeighbour(a[p])
      BY <2>1, <3>1, Zenon DEF Promise!Keep
    <3> QED  BY <3>2 DEF Promise!HasNeighbour, Within
  <2>3. Decided = p - 1 /\ Decided' = p /\ p - 1 \in Nat /\ p = (p - 1) + 1
    BY <1>0, <2>1 DEF Decided
  <2>4. Cardinality(Near01(p)) = Cardinality(Near01(p - 1))
    <3> DEFINE n == p - 1
    <3>1. n \in Nat /\ p \in Nat /\ p = n + 1
      BY <1>0, <2>3
    <3> HIDE DEF n
    <3>2. Cardinality(Near01(p)) = Cardinality(Near01(n)) + 0 /\ Cardinality(Near01(n)) \in Nat
      BY <1>0, <2>2, <3>1, NearGrows
    <3> QED  BY <3>2 DEF n
  <2> QED  BY <1>4, <2>1, <2>3, <2>4
<1>9. CASE Hit
  <2>1. /\ pc = "scan" /\ pc' = "follow" /\ UNCHANGED <<p, q>> /\ p \in 1..Len(a)
        /\ q \in 1..Len(b) /\ Within(a[p], b[q])
        /\ c1' = Append(c1, a[p]) /\ c2' = Append(c2, b[q])
    BY <1>0, <1>9 DEF Hit, TypeOK
  <2>2. Len(c1') = Len(c1) + 1 /\ Len(c2') = Len(c2) + 1
    BY <1>0, <2>1
  <2>3. Decided = p - 1 /\ Decided' = p
    BY <2>1 DEF Decided
  <2>4. Cardinality(Near01(p)) = Cardinality(Near01(p - 1)) + 1
    <3> DEFINE n == p - 1
    <3>1. n \in Nat /\ p \in Nat /\ p = n + 1
      BY <1>0
    <3> HIDE DEF n
    <3>2. \E j \in 1..Len(b) : Within(a[p], b[j])
      BY <2>1
    <3>3. Cardinality(Near01(p)) = Cardinality(Near01(n)) + 1
      BY <1>0, <3>1, <3>2, NearGrows
    <3> QED  BY <3>3 DEF n
  <2>5. Cardinality(Near02(q)) \in Nat
    <3>1. q + 1 \in Nat
      BY <1>0
    <3> QED  BY <1>0, <3>1, NearGrows
  <2> QED  BY <1>0, <1>4, <2>1, <2>2, <2>3, <2>4, <2>5
<1>10. CASE Follow
  <2>1. /\ pc = "follow" /\ pc' = "follow" /\ UNCHANGED <<p, c1>> /\ p \in 1..Len(a)
        /\ q' = q + 1 /\ q' \in 1..Len(b) /\ Within(a[p], b[q'])
        /\ c2' = Append(c2, b[q'])
    BY <1>0, <1>10 DEF Follow, InReach, TypeOK
  <2>2. Len(c2') = Len(c2) + 1
    BY <1>0, <2>1
  <2>3. Decided' = Decided
    BY <2>1 DEF Decided
  <2>4. Cardinality(Near02(q')) = Cardinality(Near02(q)) + 1 /\ Cardinality(Near02(q)) \in Nat
    <3>1. q' \in Nat /\ \E i \in 1..Len(a) : Within(a[i], b[q'])
      BY <1>0, <2>1
    <3> QED  BY <1>0, <2>1, <3>1, NearGrows
  <2> QED  BY <1>0, <1>4, <2>1, <2>2, <2>3, <2>4
<1>11. CASE EndOfReach
  <2>1. pc = "follow" /\ pc' = "scan" /\ UNCHANGED <<q, c1, c2>> /\ p' = p + 1
    BY <1>11 DEF EndOfReach
  <2>2. Decided' = Decided
    BY <1>0, <2>1 DEF Decided
  <2> QED  BY <1>4, <2>1, <2>2
<1> QED  BY <1>5, <1>6, <1>7, <1>8, <1>9, <1>10, <1>11 DEF Next

\* Being near goes both ways.
LEMMA NearIsSymmetric ==
  ASSUME distance \in Nat, NEW x \in Nat, NEW y \in Nat, Within(x, y)
  PROVE  Within(y, x)
<1>1. distance \in Nat
  OBVIOUS
<1>2. /\ Within(x, y) <=> x - y <= distance /\ y - x <= distance
      /\ Within(y, x) <=> y - x <= distance /\ x - y <= distance
  BY <1>1, WithinIneqs
<1> QED  BY <1>2

\* What the elements near are in a program of two ascending lists, and that
\* there are none on one side if there are none on the other.
LEMMA NearInProgram ==
  ASSUME NEW pair \in Inputs \X Inputs, distance \in Distances
  PROVE  LET near == NearIn(pair, 1, 2)
             other == NearIn(pair, 2, 1)
             distinct == {pair[2][k] : k \in other}
         IN  /\ IsFiniteSet(near) /\ Cardinality(near) \in Nat
             /\ IsFiniteSet(other) /\ Cardinality(other) \in Nat
             /\ IsFiniteSet(distinct) /\ Cardinality(distinct) \in Nat
             /\ near = {} => other = {} /\ distinct = {}
<1> DEFINE near == NearIn(pair, 1, 2)
           other == NearIn(pair, 2, 1)
           distinct == {pair[2][k] : k \in other}
           x == pair[1]
           y == pair[2]
<1>1. x \in Seq(Nat) /\ y \in Seq(Nat) /\ distance \in Nat
  BY InputsAssumption, DistancesAssumption
<1>2. /\ DOMAIN x = 1..Len(x) /\ Len(x) \in Nat /\ \A k \in DOMAIN x : x[k] \in Nat
      /\ DOMAIN y = 1..Len(y) /\ Len(y) \in Nat /\ \A k \in DOMAIN y : y[k] \in Nat
  BY <1>1
<1>3. IsFiniteSet(DOMAIN x) /\ IsFiniteSet(DOMAIN y)
  <2>1. 1 \in Int /\ Len(x) \in Int /\ Len(y) \in Int
    BY <1>2
  <2>2. IsFiniteSet(1..Len(x)) /\ IsFiniteSet(1..Len(y))
    BY <2>1, FS_Interval
  <2> QED  BY <1>2, <2>2
<1>4. near \in SUBSET DOMAIN x /\ other \in SUBSET DOMAIN y
  BY DEF NearIn
<1>5. IsFiniteSet(near) /\ IsFiniteSet(other)
  BY <1>3, <1>4, FS_Subset
<1>6. IsFiniteSet(distinct)
  <2> DEFINE f == [k \in other |-> y[k]]
  <2>1. f \in Surjection(other, distinct)
    BY DEF Surjection
  <2> HIDE DEF f, distinct, other
  <2> QED  BY <1>5, <2>1, FS_Surjection
<1>7. ASSUME near = {} PROVE other = {}
  <2>1. ASSUME NEW k \in other PROVE FALSE
    <3>1. PICK j \in DOMAIN x : Within(y[k], x[j])
      BY DEF NearIn
    <3>2. y[k] \in Nat /\ x[j] \in Nat /\ k \in DOMAIN y
      BY <1>2, <1>4
    <3>3. Within(x[j], y[k])
      BY <1>1, <3>1, <3>2, NearIsSymmetric
    <3>4. j \in near
      BY <3>2, <3>3 DEF NearIn
    <3> QED  BY <1>7, <3>4
  <2> QED  BY <2>1
<1>8. Cardinality(near) \in Nat /\ Cardinality(other) \in Nat /\ Cardinality(distinct) \in Nat
  <2> HIDE DEF near, other, distinct
  <2> QED  BY <1>5, <1>6, FS_CardinalityType
<1> QED  BY <1>5, <1>6, <1>7, <1>8

Numbers == [Measures -> Nat]

LEMMA MeasureType ==
  ASSUME NEW pair \in Inputs \X Inputs, distance \in Distances
  PROVE  Measure(pair) \in Numbers
<1> DEFINE n == Cardinality(NearIn(pair, 1, 2))
           o == Cardinality(NearIn(pair, 2, 1))
           d == Cardinality({pair[2][k] : k \in NearIn(pair, 2, 1)})
           g == IF NearIn(pair, 1, 2) # {} THEN 1 ELSE 0
<1>1. n \in Nat /\ o \in Nat /\ d \in Nat /\ g \in Nat
  BY NearInProgram
<1>2. Measure(pair) = [all |-> 1, programs |-> g, near01 |-> n, near02 |-> o, distinct02 |-> d]
  BY DEF Measure
<1> HIDE DEF n, o, d, g
<1> QED  BY <1>1, <1>2 DEF Numbers, Measures

\* What a call has found when it returns, in the measures of its program.
LEMMA CallMeasured ==
  ASSUME TypeOK, NeighboursComplete, CallCounts, pc = "done",
         NEW pair \in Inputs \X Inputs, pair[1] = a, pair[2] = b
  PROVE  LET m == Measure(pair)
         IN  /\ m.all = 1
             /\ Len(c1) = m.near01
             /\ Len(c2) \in m.distinct02..(m.near01 + m.near02)
             /\ m.programs = IF Len(c1) > 0 \/ Len(c2) > 0 THEN 1 ELSE 0
<1> DEFINE near == NearIn(pair, 1, 2)
           other == NearIn(pair, 2, 1)
           distinct == {pair[2][k] : k \in other}
<1>0. /\ a \in Seq(Nat) /\ Len(a) \in Nat /\ DOMAIN a = 1..Len(a)
      /\ b \in Seq(Nat) /\ Len(b) \in Nat /\ DOMAIN b = 1..Len(b)
      /\ c1 \in Seq(Nat) /\ Len(c1) \in Nat /\ c2 \in Seq(Nat) /\ Len(c2) \in Nat
      /\ distance \in Nat /\ distance \in Distances /\ q \in Nat
      /\ \A k \in 1..Len(a) : a[k] \in Nat
      /\ \A k \in 1..Len(b) : b[k] \in Nat
  BY InputFacts DEF TypeOK
<1>1. /\ IsFiniteSet(near) /\ Cardinality(near) \in Nat
      /\ IsFiniteSet(other) /\ Cardinality(other) \in Nat
      /\ IsFiniteSet(distinct) /\ Cardinality(distinct) \in Nat
      /\ near = {} => other = {} /\ distinct = {}
  BY <1>0, NearInProgram
<1>2. near = Near01(Len(a))
  BY <1>0 DEF NearIn, Near01
<1>3. other = {k \in 1..Len(b) : \E i \in 1..Len(a) : Within(a[i], b[k])}
  <2>1. ASSUME NEW k \in 1..Len(b), NEW i \in 1..Len(a)
        PROVE  Within(a[i], b[k]) <=> Within(b[k], a[i])
    <3>1. a[i] \in Nat /\ b[k] \in Nat /\ distance \in Nat
      BY <1>0
    <3>2. Within(a[i], b[k]) => Within(b[k], a[i])
      BY <3>1, NearIsSymmetric
    <3>3. Within(b[k], a[i]) => Within(a[i], b[k])
      BY <3>1, NearIsSymmetric
    <3> QED  BY <3>2, <3>3
  <2>2. other = {k \in 1..Len(b) : \E i \in 1..Len(a) : Within(b[k], a[i])}
    BY <1>0 DEF NearIn
  <2> QED  BY <2>1, <2>2
<1>4. Len(c1) = Cardinality(near)
  <2>1. Decided = Len(a)
    BY <1>0 DEF CallCounts, Decided
  <2> QED  BY <1>2, <2>1 DEF CallCounts
<1>5. Len(c2) <= Cardinality(near) + Cardinality(other)
  <2>1. Near02(q) \in SUBSET other
    BY <1>3 DEF Near02
  <2>2. Cardinality(Near02(q)) <= Cardinality(other)
    BY <1>1, <2>1, FS_Subset
  <2>3. Cardinality(Near02(q)) \in Nat
    <3>1. q + 1 \in Nat
      BY <1>0
    <3> QED  BY <1>0, <3>1, NearGrows
  <2>4. Len(c2) <= Len(c1) + Cardinality(Near02(q))
    BY DEF CallCounts
  <2> HIDE DEF near, other
  <2> QED  BY <1>0, <1>1, <1>4, <2>2, <2>3, <2>4
<1>6. Cardinality(distinct) <= Len(c2)
  <2> DEFINE f == [i \in 1..Len(c2) |-> c2[i]]
             T == {c2[i] : i \in 1..Len(c2)}
  <2>1. distinct \in SUBSET T
    <3>1. ASSUME NEW k \in other PROVE \E i \in 1..Len(c2) : c2[i] = b[k]
      BY <1>3 DEF NeighboursComplete
    <3>2. distinct = {b[k] : k \in other}
      OBVIOUS
    <3> HIDE DEF other, distinct
    <3> QED  BY <3>1, <3>2
  <2>2. f \in Surjection(1..Len(c2), T)
    BY DEF Surjection
  <2>3. ExistsSurjection(1..Len(c2), T)
    <3> HIDE DEF f
    <3> QED  BY <2>2 DEF ExistsSurjection
  <2>4. IsFiniteSet(1..Len(c2)) /\ Cardinality(1..Len(c2)) = Len(c2)
    <3>1. 1 \in Int /\ Len(c2) \in Int
      BY <1>0
    <3>2. /\ IsFiniteSet(1..Len(c2))
          /\ Cardinality(1..Len(c2)) = IF 1 > Len(c2) THEN 0 ELSE Len(c2) - 1 + 1
      BY <3>1, FS_Interval
    <3> QED  BY <1>0, <3>2
  <2> HIDE DEF f, T, distinct
  <2>5. IsFiniteSet(T) /\ Cardinality(T) <= Len(c2)
    BY <2>2, <2>4, FS_Surjection
  <2>6. Cardinality(T) \in Nat
    BY <2>5, FS_CardinalityType
  <2>7. Cardinality(distinct) <= Cardinality(T)
    BY <2>1, <2>5, FS_Subset
  <2> QED  BY <1>0, <1>1, <2>5, <2>6, <2>7
<1>7. (near # {}) <=> (Len(c1) > 0 \/ Len(c2) > 0)
  <2> HIDE DEF near, other, distinct
  <2>1. near = {} => Cardinality(near) = 0 /\ Cardinality(other) = 0
    BY <1>1, FS_EmptySet
  <2>2. near # {} => Cardinality(near) # 0
    BY <1>1, FS_EmptySet
  <2> QED  BY <1>0, <1>1, <1>4, <1>5, <2>1, <2>2
<1> DEFINE n == Cardinality(near)
           o == Cardinality(other)
           d == Cardinality(distinct)
           g == IF near # {} THEN 1 ELSE 0
<1>8. Measure(pair) = [all |-> 1, programs |-> g, near01 |-> n, near02 |-> o, distinct02 |-> d]
  BY DEF Measure
<1>9. g = IF Len(c1) > 0 \/ Len(c2) > 0 THEN 1 ELSE 0
  <2> HIDE DEF near
  <2> QED  BY <1>7
<1> HIDE DEF near, other, distinct
<1>10. /\ Len(c1) = n /\ Len(c2) \in d..(n + o)
       /\ n \in Nat /\ o \in Nat /\ d \in Nat
  BY <1>0, <1>1, <1>4, <1>5, <1>6
<1> HIDE DEF n, o, d, g
<1> QED  BY <1>8, <1>9, <1>10

\* The sum over one more element.
LEMMA SumOfNext ==
  ASSUME NEW f, NEW n \in Nat, NEW n1, n1 = n + 1, \A k \in 1..n1 : f[k] \in Int
  PROVE  SumSeq([k \in 1..n1 |-> f[k]]) = SumSeq([k \in 1..n |-> f[k]]) + f[n1]
<1> DEFINE x == [k \in 1..n |-> f[k]]
           y == [k \in 1..n1 |-> f[k]]
<1>1. x \in Seq(Int) /\ Len(x) = n /\ y \in Seq(Int) /\ Len(y) = n1
  <2>1. n1 \in Nat
    OBVIOUS
  <2> QED  BY <2>1
<1>2. (\A k \in 1..n : y[k] = x[k]) /\ y[n1] = f[n1]
  OBVIOUS
<1> HIDE DEF x, y
<1>3. Len(y) = Len(x) + 1 /\ \A k \in 1..Len(x) : y[k] = x[k]
  BY <1>1, <1>2
<1>4. SumSeq(y) = SumSeq(x) + y[Len(y)]
  BY <1>1, <1>3, SumLonger
<1>5. SumSeq(y) = SumSeq(x) + f[n1]
  BY <1>1, <1>2, <1>4
<1> QED  BY <1>5 DEF x, y

\* The sum over the first elements is a number.
LEMMA SumOfFirst ==
  ASSUME NEW f, NEW n \in Nat, \A k \in 1..n : f[k] \in Int
  PROVE  SumSeq([k \in 1..n |-> f[k]]) \in Int
<1> DEFINE x == [k \in 1..n |-> f[k]]
<1>1. x \in Seq(Int)
  OBVIOUS
<1> HIDE DEF x
<1> QED  BY <1>1, SumType

\* What is summed over no program and over one more.
LEMMA ProgramsMeasured ==
  ASSUME files \in Ranges, distance \in Distances, NEW d \in 1..Len(files)
  PROVE  /\ \A n \in 0..Len(files[d].programs) : MeasuredPrograms(d, n) \in [Measures -> Int]
         /\ \A x \in Measures : MeasuredPrograms(d, 0)[x] = 0
         /\ \A n \in 1..Len(files[d].programs), x \in Measures :
              MeasuredPrograms(d, n)[x] =
                MeasuredPrograms(d, n - 1)[x] + Measure(files[d].programs[n])[x]
<1> DEFINE ps == files[d].programs
           m(x) == [k \in 1..Len(ps) |-> Measure(ps[k])[x]]
<1>1. ps \in Seq(Inputs \X Inputs) /\ Len(ps) \in Nat
  BY FileFacts
<1>2. ASSUME NEW k \in 1..Len(ps), NEW x \in Measures PROVE Measure(ps[k])[x] \in Int
  <2>1. ps[k] \in Inputs \X Inputs
    BY <1>1
  <2>2. Measure(ps[k]) \in Numbers
    BY <2>1, MeasureType
  <2> QED  BY <2>2 DEF Numbers
<1>3. ASSUME NEW n \in 0..Len(ps), NEW x \in Measures
      PROVE  MeasuredPrograms(d, n)[x] = SumSeq([k \in 1..n |-> m(x)[k]])
  <2>1. [k \in 1..n |-> Measure(ps[k])[x]] = [k \in 1..n |-> m(x)[k]]
    BY <1>1
  <2> QED  BY <2>1 DEF MeasuredPrograms
<1>4. ASSUME NEW n \in 0..Len(ps) PROVE MeasuredPrograms(d, n) \in [Measures -> Int]
  <2>1. ASSUME NEW x \in Measures PROVE MeasuredPrograms(d, n)[x] \in Int
    <3> DEFINE f == m(x)
    <3>1. n \in Nat /\ \A k \in 1..n : f[k] \in Int
      BY <1>1, <1>2
    <3> HIDE DEF f
    <3>2. SumSeq([k \in 1..n |-> f[k]]) \in Int
      BY <3>1, SumOfFirst
    <3> QED  BY <1>3, <3>2 DEF f
  <2>2. MeasuredPrograms(d, n) = [x \in Measures |-> MeasuredPrograms(d, n)[x]]
    BY DEF MeasuredPrograms
  <2> QED  BY <2>1, <2>2
<1>5. ASSUME NEW x \in Measures PROVE MeasuredPrograms(d, 0)[x] = 0
  <2>1. [k \in 1..0 |-> m(x)[k]] = <<>>
    OBVIOUS
  <2>2. MeasuredPrograms(d, 0)[x] = SumSeq([k \in 1..0 |-> m(x)[k]])
    <3>1. 0 \in 0..Len(ps)
      BY <1>1
    <3> QED  BY <1>3, <3>1, Zenon
  <2> QED  BY <2>1, <2>2, SumEmpty
<1>6. ASSUME NEW n \in 1..Len(ps), NEW x \in Measures
      PROVE  MeasuredPrograms(d, n)[x] = MeasuredPrograms(d, n - 1)[x] + Measure(ps[n])[x]
  <2> DEFINE f == m(x)
             l == n - 1
  <2>1. /\ l \in Nat /\ n = l + 1 /\ l \in 0..Len(ps) /\ n \in 0..Len(ps)
        /\ \A k \in 1..n : f[k] \in Int
        /\ f[n] = Measure(ps[n])[x]
    <3>1. l \in Nat /\ n = l + 1 /\ l \in 0..Len(ps) /\ n \in 0..Len(ps)
      BY <1>1
    <3>2. f[n] = Measure(ps[n])[x]
      BY <1>1
    <3>3. ASSUME NEW k \in 1..n PROVE f[k] \in Int
      <4>1. k \in 1..Len(ps)
        BY <1>1
      <4>2. f[k] = Measure(ps[k])[x]
        BY <4>1
      <4> QED  BY <1>2, <4>1, <4>2
    <3> HIDE DEF f, l
    <3> QED  BY <3>1, <3>2, <3>3
  <2>2. /\ MeasuredPrograms(d, n)[x] = SumSeq([k \in 1..n |-> f[k]])
        /\ MeasuredPrograms(d, l)[x] = SumSeq([k \in 1..l |-> f[k]])
    BY <1>3, <2>1
  <2> HIDE DEF f, l
  <2>3. SumSeq([k \in 1..n |-> f[k]]) = SumSeq([k \in 1..l |-> f[k]]) + f[n]
    BY <2>1, SumOfNext
  <2>4. MeasuredPrograms(d, n)[x] = MeasuredPrograms(d, l)[x] + Measure(ps[n])[x]
    BY <2>1, <2>2, <2>3
  <2> QED  BY <2>4 DEF l
<1> QED  BY <1>4, <1>5, <1>6

\* The same over days.
LEMMA DaysMeasured ==
  ASSUME files \in Ranges, distance \in Distances
  PROVE  /\ \A d \in 1..Len(files) : MeasuredDay(d) \in [Measures -> Int]
         /\ \A n \in 0..Len(files) : MeasuredDays(n) \in [Measures -> Int]
         /\ \A x \in Measures : MeasuredDays(0)[x] = 0
         /\ \A n \in 1..Len(files), x \in Measures :
              MeasuredDays(n)[x] = MeasuredDays(n - 1)[x] + MeasuredDay(n)[x]
<1> DEFINE m(x) == [d \in 1..Len(files) |-> MeasuredDay(d)[x]]
<1>1. Len(files) \in Nat /\ \A d \in 1..Len(files) : Len(files[d].programs) \in Nat
  BY FileFacts
<1>2. ASSUME NEW d \in 1..Len(files) PROVE MeasuredDay(d) \in [Measures -> Int]
  <2> DEFINE n == IF files[d].outcome = "parsed" THEN Len(files[d].programs) ELSE 0
  <2>1. n \in 0..Len(files[d].programs)
    BY <1>1
  <2>2. MeasuredDay(d) = MeasuredPrograms(d, n)
    BY DEF MeasuredDay
  <2> HIDE DEF n
  <2> QED  BY <2>1, <2>2, ProgramsMeasured
<1>3. ASSUME NEW n \in 0..Len(files), NEW x \in Measures
      PROVE  MeasuredDays(n)[x] = SumSeq([d \in 1..n |-> m(x)[d]])
  <2>1. [d \in 1..n |-> MeasuredDay(d)[x]] = [d \in 1..n |-> m(x)[d]]
    BY <1>1
  <2> QED  BY <2>1 DEF MeasuredDays
<1>4. ASSUME NEW n \in 0..Len(files) PROVE MeasuredDays(n) \in [Measures -> Int]
  <2>1. ASSUME NEW x \in Measures PROVE MeasuredDays(n)[x] \in Int
    <3> DEFINE f == m(x)
    <3>1. n \in Nat /\ \A d \in 1..n : f[d] \in Int
      BY <1>1, <1>2
    <3> HIDE DEF f
    <3>2. SumSeq([d \in 1..n |-> f[d]]) \in Int
      BY <3>1, SumOfFirst
    <3> QED  BY <1>3, <3>2 DEF f
  <2>2. MeasuredDays(n) = [x \in Measures |-> MeasuredDays(n)[x]]
    BY DEF MeasuredDays
  <2> QED  BY <2>1, <2>2
<1>5. ASSUME NEW x \in Measures PROVE MeasuredDays(0)[x] = 0
  <2>1. [d \in 1..0 |-> m(x)[d]] = <<>>
    OBVIOUS
  <2>2. MeasuredDays(0)[x] = SumSeq([d \in 1..0 |-> m(x)[d]])
    <3>1. 0 \in 0..Len(files)
      BY <1>1
    <3> QED  BY <1>3, <3>1, Zenon
  <2> QED  BY <2>1, <2>2, SumEmpty
<1>6. ASSUME NEW n \in 1..Len(files), NEW x \in Measures
      PROVE  MeasuredDays(n)[x] = MeasuredDays(n - 1)[x] + MeasuredDay(n)[x]
  <2> DEFINE f == m(x)
             l == n - 1
  <2>1. /\ l \in Nat /\ n = l + 1 /\ l \in 0..Len(files) /\ n \in 0..Len(files)
        /\ \A d \in 1..n : f[d] \in Int
        /\ f[n] = MeasuredDay(n)[x]
    BY <1>1, <1>2
  <2>2. /\ MeasuredDays(n)[x] = SumSeq([d \in 1..n |-> f[d]])
        /\ MeasuredDays(l)[x] = SumSeq([d \in 1..l |-> f[d]])
    BY <1>3, <2>1
  <2> HIDE DEF f, l
  <2>3. SumSeq([d \in 1..n |-> f[d]]) = SumSeq([d \in 1..l |-> f[d]]) + f[n]
    BY <2>1, SumOfNext
  <2>4. MeasuredDays(n)[x] = MeasuredDays(l)[x] + MeasuredDay(n)[x]
    BY <2>1, <2>2, <2>3
  <2> QED  BY <2>4 DEF l
<1> QED  BY <1>2, <1>4, <1>5, <1>6

CountFields == {"programs", "matches01", "matches02"}

\* Counts of two disjoint lots of programs, added, count their near pairs.
LEMMA PairsAdded ==
  ASSUME NEW s \in Counts, NEW t \in Counts, NEW u,
         NEW m \in [Measures -> Int], NEW n \in [Measures -> Int], NEW l,
         CountNearPairs(s, m), CountNearPairs(t, n),
         \A f \in CountFields : u[f] = s[f] + t[f],
         \A x \in Measures : l[x] = m[x] + n[x]
  PROVE  CountNearPairs(u, l)
<1>1. /\ u.programs = s.programs + t.programs
      /\ u.matches01 = s.matches01 + t.matches01
      /\ u.matches02 = s.matches02 + t.matches02
  BY DEF CountFields
<1>2. /\ l.programs = m.programs + n.programs
      /\ l.near01 = m.near01 + n.near01
      /\ l.near02 = m.near02 + n.near02
      /\ l.distinct02 = m.distinct02 + n.distinct02
  BY DEF Measures
<1>3. /\ s.programs \in Nat /\ s.matches01 \in Nat /\ s.matches02 \in Nat
      /\ t.programs \in Nat /\ t.matches01 \in Nat /\ t.matches02 \in Nat
  BY DEF Counts
<1>4. /\ m.programs \in Int /\ m.near01 \in Int /\ m.near02 \in Int /\ m.distinct02 \in Int
      /\ n.programs \in Int /\ n.near01 \in Int /\ n.near02 \in Int /\ n.distinct02 \in Int
  BY DEF Measures
<1>5. u.programs = l.programs
  BY <1>1, <1>2 DEF CountNearPairs
<1>6. CASE same
  <2>1. /\ s.matches01 = s.matches02 /\ t.matches01 = t.matches02
        /\ s.matches01 \in (m.near01 + m.distinct02)..(m.near01 + (m.near01 + m.near02))
        /\ t.matches01 \in (n.near01 + n.distinct02)..(n.near01 + (n.near01 + n.near02))
    BY <1>6 DEF CountNearPairs
  <2>2. /\ u.matches01 = u.matches02
        /\ u.matches01 \in (l.near01 + l.distinct02)..(l.near01 + (l.near01 + l.near02))
    BY <1>1, <1>2, <1>3, <1>4, <2>1
  <2> QED  BY <1>5, <1>6, <2>2 DEF CountNearPairs
<1>7. CASE ~same
  <2>1. /\ s.matches01 = m.near01 /\ t.matches01 = n.near01
        /\ s.matches02 \in m.distinct02..(m.near01 + m.near02)
        /\ t.matches02 \in n.distinct02..(n.near01 + n.near02)
    BY <1>7 DEF CountNearPairs
  <2>2. /\ u.matches01 = l.near01
        /\ u.matches02 \in l.distinct02..(l.near01 + l.near02)
    BY <1>1, <1>2, <1>3, <1>4, <2>1
  <2> QED  BY <1>5, <1>7, <2>2 DEF CountNearPairs
<1> QED  BY <1>6, <1>7

\* Nothing counted is nothing measured.
LEMMA NothingCounted ==
  ASSUME NEW m, \A x \in Measures : m[x] = 0
  PROVE  CountNearPairs(Zero, m)
<1>1. m.programs = 0 /\ m.near01 = 0 /\ m.near02 = 0 /\ m.distinct02 = 0
  BY DEF Measures
<1> QED  BY <1>1 DEF CountNearPairs, Zero

\* The counts of the range are about the days read, those of the day about its
\* programs so far, and a call is about the program at hand.
TotalsInv ==
  /\ sum \in Counts
  /\ CountNearPairs(sum, MeasuredDays(it - 1))
  /\ sum.total = MeasuredDays(it - 1).all
  /\ phase \in {"programs", "near"} =>
       /\ prog \in 1..(Len(programs) + 1)
       /\ CountNearPairs(cnt, MeasuredPrograms(it, prog - 1))
       /\ MeasuredPrograms(it, prog - 1).all = prog - 1
       /\ cnt.total = Len(programs)
  /\ phase = "near" => prog <= Len(programs) /\ a = programs[prog][1] /\ b = programs[prog][2]
  /\ phase = "done" => it = Len(files) + 1

\* What is measured of a range does not depend on how far it is read.
LEMMA MeasuresStay ==
  ASSUME UNCHANGED <<files, distance, same>>
  PROVE  /\ \A d, n : MeasuredPrograms(d, n)' = MeasuredPrograms(d, n)
         /\ \A n : MeasuredDays(n)' = MeasuredDays(n)
         /\ \A c, m : CountNearPairs(c, m)' <=> CountNearPairs(c, m)
<1>1. \A x, y : Within(x, y)' <=> Within(x, y)
  BY DEF Within, Promise!Within
<1>2. \A pair, i, j : NearIn(pair, i, j)' = NearIn(pair, i, j)
  BY <1>1 DEF NearIn
<1>3. \A pair : Measure(pair)' = Measure(pair)
  BY <1>2 DEF Measure
<1>4. \A d, n : MeasuredPrograms(d, n)' = MeasuredPrograms(d, n)
  BY <1>3 DEF MeasuredPrograms
<1>5. \A d : MeasuredDay(d)' = MeasuredDay(d)
  BY <1>4 DEF MeasuredDay
<1>6. \A n : MeasuredDays(n)' = MeasuredDays(n)
  BY <1>5 DEF MeasuredDays
<1>7. \A c, m : CountNearPairs(c, m)' <=> CountNearPairs(c, m)
  BY DEF CountNearPairs
<1> QED  BY <1>4, <1>6, <1>7

LEMMA TotalsInit == ASSUME ProgramInit PROVE TotalsInv
<1>1. files \in Ranges /\ distance \in Distances /\ it = 1 /\ sum = Zero /\ phase = "files"
  BY DEF ProgramInit
<1>2. \A x \in Measures : MeasuredDays(0)[x] = 0
  BY <1>1, DaysMeasured
<1>3. MeasuredDays(0).all = 0 /\ CountNearPairs(Zero, MeasuredDays(0))
  BY <1>2, NothingCounted DEF Measures
<1>4. it - 1 = 0 /\ Zero \in Counts /\ Zero.total = 0
  BY <1>1 DEF Zero, Counts
<1> QED  BY <1>1, <1>3, <1>4 DEF TotalsInv

\* One step of the program counts what it has read.
LEMMA TotalsStep ==
  ASSUME ProgramInv, NeighboursComplete, CallCounts, TotalsInv, [ProgramNext]_programVars
  PROVE  TotalsInv'
<1>0. /\ files \in Ranges /\ distance \in Distances /\ Len(files) \in Nat
      /\ it \in Nat /\ it \in 1..(Len(files) + 1) /\ cnt \in Counts /\ sum \in Counts
      /\ \A d \in 1..Len(files) : Len(files[d].programs) \in Nat
  BY FileFacts DEF ProgramInv, FilesOK, TotalsInv
<1>1. UNCHANGED <<files, distance, same>>
  BY DEF ProgramNext, MissingFile, CorruptFile, OpenFile, Call, NearStep, CountProgram,
         EndOfFile, GrandTotal, fileVars, nearVars, vars, programVars, Next, EitherEmpty,
         EnterLoop, Advance, Miss, Hit, Follow, EndOfReach, Return, inputs
<1>2. /\ \A d, n : MeasuredPrograms(d, n)' = MeasuredPrograms(d, n)
      /\ \A n : MeasuredDays(n)' = MeasuredDays(n)
      /\ \A c, m : CountNearPairs(c, m)' <=> CountNearPairs(c, m)
  BY <1>1, MeasuresStay
<1>3. SUFFICES
        /\ sum' \in Counts
        /\ CountNearPairs(sum', MeasuredDays(it' - 1))
        /\ sum'.total = MeasuredDays(it' - 1).all
        /\ phase' \in {"programs", "near"} =>
             LET ps == files[it'].programs
             IN  /\ prog' \in 1..(Len(ps) + 1)
                 /\ CountNearPairs(cnt', MeasuredPrograms(it', prog' - 1))
                 /\ MeasuredPrograms(it', prog' - 1).all = prog' - 1
                 /\ cnt'.total = Len(ps)
        /\ phase' = "near" =>
             LET ps == files[it'].programs
             IN  prog' <= Len(ps) /\ a' = ps[prog'][1] /\ b' = ps[prog'][2]
        /\ phase' = "done" => it' = Len(files) + 1
  BY <1>1, <1>2 DEF TotalsInv, programs
<1>4. /\ CountNearPairs(sum, MeasuredDays(it - 1))
      /\ sum.total = MeasuredDays(it - 1).all
      /\ phase \in {"programs", "near"} =>
           /\ prog \in 1..(Len(programs) + 1)
           /\ CountNearPairs(cnt, MeasuredPrograms(it, prog - 1))
           /\ MeasuredPrograms(it, prog - 1).all = prog - 1
           /\ cnt.total = Len(programs)
      /\ phase = "near" => prog <= Len(programs) /\ a = programs[prog][1] /\ b = programs[prog][2]
      /\ phase = "done" => it = Len(files) + 1
  BY DEF TotalsInv
\* A day is added.
<1>5. ASSUME it <= Len(files)
      PROVE  /\ MeasuredDays(it) \in [Measures -> Int] /\ MeasuredDays(it - 1) \in [Measures -> Int]
             /\ MeasuredDay(it) \in [Measures -> Int]
             /\ \A x \in Measures : MeasuredDays(it)[x] = MeasuredDays(it - 1)[x] + MeasuredDay(it)[x]
  <2>1. it \in 1..Len(files) /\ it \in 0..Len(files) /\ it - 1 \in 0..Len(files)
    BY <1>0, <1>5
  <2>2. /\ \A d \in 1..Len(files) : MeasuredDay(d) \in [Measures -> Int]
        /\ \A n \in 0..Len(files) : MeasuredDays(n) \in [Measures -> Int]
        /\ \A n \in 1..Len(files), x \in Measures :
             MeasuredDays(n)[x] = MeasuredDays(n - 1)[x] + MeasuredDay(n)[x]
    BY <1>0, DaysMeasured
  <2> QED  BY <2>1, <2>2
<1>6. CASE MissingFile \/ CorruptFile
  <2>1. /\ it <= Len(files) /\ files[it].outcome # "parsed" /\ it' = it + 1
        /\ UNCHANGED <<sum, phase>> /\ phase = "files"
    BY <1>6 DEF MissingFile, CorruptFile, IsNextFile
  <2>2. \A x \in Measures : MeasuredDay(it)[x] = 0
    <3>1. MeasuredDay(it) = MeasuredPrograms(it, 0)
      BY <2>1 DEF MeasuredDay
    <3>2. it \in 1..Len(files)
      BY <1>0, <2>1
    <3> QED  BY <1>0, <3>1, <3>2, ProgramsMeasured
  <2>3. MeasuredDays(it) = MeasuredDays(it - 1)
    <3>1. ASSUME NEW x \in Measures PROVE MeasuredDays(it)[x] = MeasuredDays(it - 1)[x]
      BY <1>5, <2>1, <2>2
    <3> QED  BY <1>5, <2>1, <3>1
  <2>4. it' - 1 = it
    BY <1>0, <2>1
  <2> QED  BY <1>0, <1>4, <2>1, <2>3, <2>4
<1>7. CASE OpenFile
  <2>1. /\ it <= Len(files) /\ UNCHANGED <<sum, it>> /\ prog' = 1 /\ phase' = "programs"
        /\ cnt' = [Zero EXCEPT !.total = Len(programs)]
    BY <1>7 DEF OpenFile, IsNextFile
  <2>2. it \in 1..Len(files)
    BY <1>0, <2>1
  <2>3. \A x \in Measures : MeasuredPrograms(it, 0)[x] = 0
    BY <1>0, <2>2, ProgramsMeasured
  <2>4. CountNearPairs(cnt', MeasuredPrograms(it, 0))
    <3>1. CountNearPairs(Zero, MeasuredPrograms(it, 0))
      BY <2>3, NothingCounted
    <3>2. /\ cnt'.programs = Zero.programs /\ cnt'.matches01 = Zero.matches01
          /\ cnt'.matches02 = Zero.matches02
      BY <2>1 DEF Zero
    <3> QED  BY <3>1, <3>2 DEF CountNearPairs
  <2>5. cnt'.total = Len(programs) /\ Len(programs) \in Nat
    BY <1>0, <2>1, <2>2 DEF Zero, programs
  <2>6. MeasuredPrograms(it, 0).all = 0
    BY <2>3 DEF Measures
  <2>7. prog' - 1 = 0 /\ prog' \in 1..(Len(programs) + 1)
    BY <2>1, <2>5
  <2> QED  BY <1>0, <1>4, <2>1, <2>4, <2>5, <2>6, <2>7 DEF programs
<1>8. CASE Call
  <2>1. /\ phase = "programs" /\ phase' = "near" /\ prog <= Len(programs)
        /\ a' = programs[prog][1] /\ b' = programs[prog][2]
        /\ UNCHANGED <<it, prog, cnt, sum>>
    BY <1>8 DEF Call, fileVars
  <2> QED  BY <1>0, <1>4, <2>1 DEF programs
<1>9. CASE NearStep
  <2>1. phase = "near" /\ UNCHANGED <<a, b, it, prog, cnt, sum, phase>>
    BY <1>9 DEF NearStep, fileVars, Next, EitherEmpty, EnterLoop, Advance, Miss, Hit,
                Follow, EndOfReach, Return, inputs
  <2> QED  BY <1>0, <1>4, <2>1 DEF programs
<1>10. CASE CountProgram
  <2> DEFINE h1 == hits01
             h2 == hits02
             g == IF h1 > 0 \/ h2 > 0 THEN 1 ELSE 0
             pair == programs[prog]
             t == [programs |-> g, matches01 |-> h1, matches02 |-> h2, total |-> 0]
  <2>1. /\ phase = "near" /\ phase' = "programs" /\ pc = "done" /\ prog' = prog + 1
        /\ UNCHANGED <<it, sum>>
    BY <1>10 DEF CountProgram
  <2>2. /\ it \in 1..Len(files) /\ prog \in 1..Len(programs) /\ Len(programs) \in Nat
        /\ pair \in Inputs \X Inputs /\ a = pair[1] /\ b = pair[2]
    <3>1. it \in 1..Len(files)
      BY <1>0, <2>1 DEF ProgramInv, FilesOK
    <3>2. programs \in Seq(Inputs \X Inputs) /\ Len(programs) \in Nat
      BY <1>0, <3>1, FileFacts DEF programs
    <3>3. prog \in 1..Len(programs) /\ a = pair[1] /\ b = pair[2]
      BY <1>4, <2>1, <3>2
    <3> QED  BY <3>1, <3>2, <3>3
  <2> DEFINE m == Measure(pair)
  <2>3. /\ m \in Numbers /\ m.all = 1
        /\ Len(c1) = m.near01 /\ Len(c2) \in m.distinct02..(m.near01 + m.near02)
        /\ m.programs = IF Len(c1) > 0 \/ Len(c2) > 0 THEN 1 ELSE 0
    <3>1. TypeOK
      BY <2>1 DEF ProgramInv, CallOK
    <3> HIDE DEF pair
    <3> QED  BY <1>0, <2>1, <2>2, <3>1, CallMeasured, MeasureType
  <2>4. /\ m.near01 \in Nat /\ m.near02 \in Nat /\ m.distinct02 \in Nat /\ m \in [Measures -> Int]
        /\ Len(c1) \in Nat /\ Len(c2) \in Nat
    <3>1. m \in [Measures -> Nat]
      BY <2>3 DEF Numbers
    <3>2. c1 \in Seq(Nat) /\ c2 \in Seq(Nat)
      BY <2>1 DEF ProgramInv, CallOK, TypeOK
    <3> HIDE DEF m
    <3> QED  BY <3>1, <3>2 DEF Measures
  <2> HIDE DEF m, pair
  <2>5. h1 \in Nat /\ h2 \in Nat /\ g \in Nat /\ t \in Counts
    BY <2>4 DEF hits01, hits02, Counts
  <2>6. CountNearPairs(t, m)
    <3>1. CASE same
      <4>1. h1 = Len(c1) + Len(c2) /\ h2 = Len(c1) + Len(c2)
        BY <3>1 DEF hits01, hits02
      <4>2. /\ h1 \in (m.near01 + m.distinct02)..(m.near01 + (m.near01 + m.near02))
            /\ g = m.programs
        BY <2>3, <2>4, <4>1
      <4> HIDE DEF h1, h2, g
      <4> QED  BY <3>1, <4>1, <4>2 DEF CountNearPairs
    <3>2. CASE ~same
      <4>1. h1 = Len(c1) /\ h2 = Len(c2)
        BY <3>2 DEF hits01, hits02
      <4>2. g = m.programs
        BY <2>3, <2>4, <4>1
      <4> HIDE DEF h1, h2, g
      <4> QED  BY <2>3, <3>2, <4>1, <4>2 DEF CountNearPairs
    <3> QED  BY <3>1, <3>2
  <2>7. cnt'.total = cnt.total /\ \A f \in CountFields : cnt'[f] = cnt[f] + t[f]
    <3>1. CASE h1 > 0 \/ h2 > 0
      <4>1. cnt' = [cnt EXCEPT !.programs = @ + 1, !.matches01 = @ + h1, !.matches02 = @ + h2]
        BY <1>10, <3>1 DEF CountProgram
      <4>2. g = 1
        BY <3>1
      <4> HIDE DEF h1, h2, g
      <4> QED  BY <1>0, <4>1, <4>2 DEF Counts, CountFields
    <3>2. CASE ~(h1 > 0 \/ h2 > 0)
      <4>1. cnt' = cnt
        BY <1>10, <3>2 DEF CountProgram
      <4>2. g = 0 /\ h1 = 0 /\ h2 = 0
        BY <2>5, <3>2
      <4> HIDE DEF h1, h2, g
      <4> QED  BY <1>0, <4>1, <4>2 DEF Counts, CountFields
    <3> QED  BY <3>1, <3>2
  <2> HIDE DEF t
  <2>8. /\ MeasuredPrograms(it, prog) \in [Measures -> Int]
        /\ MeasuredPrograms(it, prog - 1) \in [Measures -> Int]
        /\ \A x \in Measures : MeasuredPrograms(it, prog)[x] = MeasuredPrograms(it, prog - 1)[x] + m[x]
    <3>1. prog \in 0..Len(programs) /\ prog - 1 \in 0..Len(programs)
      BY <2>2
    <3>2. /\ \A n \in 0..Len(programs) : MeasuredPrograms(it, n) \in [Measures -> Int]
          /\ \A n \in 1..Len(programs), x \in Measures :
               MeasuredPrograms(it, n)[x] =
                 MeasuredPrograms(it, n - 1)[x] + Measure(programs[n])[x]
      BY <1>0, <2>2, ProgramsMeasured DEF programs
    <3> QED  BY <2>2, <3>1, <3>2 DEF m, pair
  <2>9. CountNearPairs(cnt', MeasuredPrograms(it, prog))
    <3>1. CountNearPairs(cnt, MeasuredPrograms(it, prog - 1))
      BY <1>4, <2>1
    <3>5. PICK u, k, l : /\ u = cnt'
                         /\ k = MeasuredPrograms(it, prog - 1)
                         /\ l = MeasuredPrograms(it, prog)
      OBVIOUS
    <3>2. /\ CountNearPairs(cnt, k) /\ k \in [Measures -> Int]
          /\ \A f \in CountFields : u[f] = cnt[f] + t[f]
          /\ \A x \in Measures : l[x] = k[x] + m[x]
      BY <2>7, <2>8, <3>1, <3>5
    <3>3. CountNearPairs(u, l)
      <4>1. cnt \in Counts /\ t \in Counts /\ m \in [Measures -> Int] /\ CountNearPairs(t, m)
        BY <1>0, <2>4, <2>5, <2>6
      <4> QED  BY <3>2, <4>1, PairsAdded
    <3> QED  BY <3>3, <3>5
  <2>10. MeasuredPrograms(it, prog).all = prog
    <3>1. "all" \in Measures
      BY DEF Measures
    <3>2. MeasuredPrograms(it, prog)["all"] = MeasuredPrograms(it, prog - 1)["all"] + m["all"]
      BY <2>8, <3>1
    <3>3. MeasuredPrograms(it, prog - 1).all = prog - 1 /\ m.all = 1
      BY <1>4, <2>1, <2>3
    <3> QED  BY <2>2, <3>2, <3>3
  <2>11. prog' - 1 = prog /\ prog' \in 1..(Len(programs) + 1)
    BY <2>1, <2>2
  <2> QED  BY <1>0, <1>4, <2>1, <2>7, <2>9, <2>10, <2>11 DEF programs
<1>11. CASE EndOfFile
  <2>1. /\ phase = "programs" /\ prog > Len(programs) /\ phase' = "files" /\ it' = it + 1
        /\ sum' = [f \in DOMAIN sum |-> sum[f] + cnt[f]]
        /\ it \in 1..Len(files) /\ it <= Len(files) /\ files[it].outcome = "parsed"
    BY <1>0, <1>11 DEF EndOfFile, ProgramInv, FilesOK
  <2>2. prog - 1 = Len(programs) /\ MeasuredDay(it) = MeasuredPrograms(it, prog - 1)
    <3>1. Len(programs) \in Nat /\ prog \in 1..(Len(programs) + 1)
      BY <1>0, <1>4, <2>1 DEF programs
    <3>2. prog - 1 = Len(programs)
      BY <2>1, <3>1
    <3> QED  BY <2>1, <3>2 DEF MeasuredDay, programs
  <2>3. /\ CountNearPairs(cnt, MeasuredDay(it))
        /\ cnt.total = MeasuredDay(it).all
    BY <1>4, <2>1, <2>2
  <2>4. /\ sum' \in Counts
        /\ sum'.total = sum.total + cnt.total
        /\ \A f \in CountFields : sum'[f] = sum[f] + cnt[f]
    <3>1. DOMAIN sum = {"programs", "matches01", "matches02", "total"}
      BY <1>0 DEF Counts
    <3>2. sum' = [programs |-> sum.programs + cnt.programs,
                  matches01 |-> sum.matches01 + cnt.matches01,
                  matches02 |-> sum.matches02 + cnt.matches02,
                  total |-> sum.total + cnt.total]
      BY <2>1, <3>1
    <3>3. /\ sum.programs \in Nat /\ sum.matches01 \in Nat /\ sum.matches02 \in Nat
          /\ sum.total \in Nat
          /\ cnt.programs \in Nat /\ cnt.matches01 \in Nat /\ cnt.matches02 \in Nat
          /\ cnt.total \in Nat
      BY <1>0 DEF Counts
    <3> QED  BY <3>2, <3>3 DEF Counts, CountFields
  <2>5. CountNearPairs(sum', MeasuredDays(it))
    <3>3. PICK u, k, m, l : /\ u = sum'
                            /\ k = MeasuredDays(it - 1)
                            /\ m = MeasuredDay(it)
                            /\ l = MeasuredDays(it)
      OBVIOUS
    <3>1. /\ CountNearPairs(sum, k) /\ CountNearPairs(cnt, m)
          /\ k \in [Measures -> Int] /\ m \in [Measures -> Int]
          /\ \A f \in CountFields : u[f] = sum[f] + cnt[f]
          /\ \A x \in Measures : l[x] = k[x] + m[x]
      BY <1>4, <1>5, <2>1, <2>3, <2>4, <3>3
    <3>2. CountNearPairs(u, l)
      <4>1. sum \in Counts /\ cnt \in Counts
        BY <1>0
      <4> QED  BY <3>1, <4>1, PairsAdded
    <3> QED  BY <3>2, <3>3
  <2>6. sum'.total = MeasuredDays(it).all
    <3>1. "all" \in Measures
      BY DEF Measures
    <3>2. MeasuredDays(it)["all"] = MeasuredDays(it - 1)["all"] + MeasuredDay(it)["all"]
      BY <1>5, <2>1, <3>1
    <3> QED  BY <1>4, <2>3, <2>4, <3>2
  <2>7. it' - 1 = it
    BY <1>0, <2>1
  <2> QED  BY <2>1, <2>4, <2>5, <2>6, <2>7
<1>12. CASE GrandTotal
  <2>1. it > Len(files) /\ phase' = "done" /\ UNCHANGED <<it, sum>>
    BY <1>12 DEF GrandTotal, fileVars
  <2>2. it = Len(files) + 1
    BY <1>0, <2>1
  <2> QED  BY <1>0, <1>4, <2>1, <2>2
<1>13. CASE UNCHANGED programVars
  <2>1. UNCHANGED <<a, b, it, prog, cnt, sum, phase>>
    BY <1>13 DEF programVars, nearVars, vars, fileVars
  <2> QED  BY <1>0, <1>4, <2>1 DEF programs
<1> QED
  BY <1>6, <1>7, <1>8, <1>9, <1>10, <1>11, <1>12, <1>13 DEF ProgramNext

\* The two counts of hits that are printed in the end are those of the near
\* pairs of all programs of all files that were read: the first is exact, the
\* second counts every match that is near, and no more often than the scan of
\* near can come by it.
THEOREM GrandTotalsAreCorrect == ProgramSpec => []GrandTotalsMeanNearPairs
<1>1. ProgramInit => CallCounts /\ TotalsInv
  <2> SUFFICES ASSUME ProgramInit PROVE CallCounts
    BY TotalsInit
  <2>1. pc = "done" /\ p = 1 /\ q = 1 /\ a = <<>> /\ b = <<>> /\ c1 = <<>> /\ c2 = <<>>
    BY DEF ProgramInit
  <2>2. Decided = 0 /\ Near01(0) = {} /\ Near02(q) = {}
    BY <2>1 DEF Decided, Near01, Near02
  <2>3. Cardinality({}) = 0
    BY FS_EmptySet
  <2>4. Len(a) = 0 /\ Len(c1) = 0 /\ Len(c2) = 0
    BY <2>1
  <2>5. Near01(Decided) = {}
    BY <2>2
  <2>6. Cardinality(Near01(Decided)) = 0 /\ Cardinality(Near02(q)) = 0
    BY <2>2, <2>3, <2>5
  <2>7. p = Len(a) + 1 /\ Len(c2) <= Len(c1) + Cardinality(Near02(q))
    BY <2>1, <2>4, <2>6
  <2> QED  BY <2>1, <2>4, <2>6, <2>7 DEF CallCounts
<1>2. ASSUME ProgramInv, CallCounts, [ProgramNext]_programVars
      PROVE  CallCounts'
  <2>1. CASE Call
    <3>1. /\ p' = 1 /\ q' = 1 /\ c1' = <<>> /\ c2' = <<>> /\ pc' = "start"
      BY <2>1 DEF Call
    <3>2. Decided' = 0 /\ Near01(0)' = {}
      BY <3>1 DEF Decided, Near01
    <3>3. Cardinality({}) = 0
      BY FS_EmptySet
    <3>4. Cardinality(Near02(q)') \in Nat
      <4>1. Len(b') \in Nat
        BY <1>2, <2>1, CallBegins, InputsAssumption
      <4>2. 1 \in Int /\ Len(b') \in Int
        BY <4>1
      <4>3. IsFiniteSet(1..Len(b'))
        BY <4>2, FS_Interval
      <4>4. Near02(q)' \in SUBSET (1..Len(b'))
        BY DEF Near02
      <4>5. IsFiniteSet(Near02(q)')
        BY <4>3, <4>4, FS_Subset
      <4> QED  BY <4>5, FS_CardinalityType
    <3>5. Near01(Decided)' = {}
      BY <3>2 DEF Near01
    <3>6. Len(c1') = 0 /\ Len(c2') = 0
      BY <3>1
    <3> QED  BY <3>1, <3>3, <3>4, <3>5, <3>6 DEF CallCounts
  <2>2. CASE NearStep
    BY <1>2, <2>2, CallCountsStep DEF NearStep, ProgramInv, CallOK
  <2>3. CASE UNCHANGED vars
    <3>1. \A n : Near01(n)' = Near01(n) /\ Near02(n)' = Near02(n)
      BY <2>3 DEF vars, Near01, Near02, Within, Promise!Within
    <3>2. Decided' = Decided /\ q' = q
      BY <2>3 DEF vars, Decided
    <3>3. Near01(Decided)' = Near01(Decided) /\ Near02(q)' = Near02(q)
      BY <2>3, <3>2 DEF vars, Near01, Near02, Within, Promise!Within
    <3> QED  BY <1>2, <2>3, <3>3 DEF vars, CallCounts
  <2> QED
    BY <1>2, <2>1, <2>2, <2>3
    DEF ProgramNext, MissingFile, CorruptFile, OpenFile, CountProgram, EndOfFile, GrandTotal,
        nearVars, programVars
<1>3. ProgramInv /\ NeighboursComplete /\ CallCounts /\ TotalsInv /\ [ProgramNext]_programVars
        => TotalsInv'
  BY TotalsStep
<1>4. ProgramInv /\ TotalsInv => GrandTotalsMeanNearPairs
  <2> SUFFICES ASSUME ProgramInv, TotalsInv, phase = "done"
               PROVE  /\ CountNearPairs(sum, MeasuredDays(Len(files)))
                      /\ sum.total = MeasuredDays(Len(files)).all
    BY DEF GrandTotalsMeanNearPairs
  <2>1. Len(files) \in Nat /\ it = Len(files) + 1
    BY FileFacts DEF ProgramInv, FilesOK, TotalsInv
  <2>2. it - 1 = Len(files)
    BY <2>1
  <2> QED  BY <2>2 DEF TotalsInv
<1> QED
  BY <1>1, <1>2, <1>3, <1>4, InvCorrect, NeighboursAreCompleteInAnyCall, PTL DEF ProgramSpec
==============================================================================
