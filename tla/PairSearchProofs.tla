-------------------------- MODULE PairSearchProofs --------------------------
(***************************************************************************)
(* pair_search and the CoOccurrenceMatrix it fills, for any expressions,   *)
(* windows, programs, distance, files and numbers of keys asked for: the   *)
(* types of the counts, their nesting in every cell, the diagonal entry    *)
(* that covers the entries beside it, and what every count means; then,    *)
(* that pair_search uses the matrix as CoOccurrence has it used, which     *)
(* keys it removes, and what the graph shows.                              *)
(***************************************************************************)
EXTENDS PairSearch, SequenceTheorems, FiniteLemmas

Matched == 1..Len(positions)
Diagonal(m) == <<m.expr, m.expr>>

\* The list of matches is sorted.
Ordered == \A j, k \in Matched : j < k => Precedes(positions[j], positions[k])

\* The matches that it0 has left behind have been counted on the diagonal, and
\* so has it0 itself once it1 has left it.
VisitedAreSeen ==
  pc = "scan" =>
    /\ \A k \in Matched : k < it0 => seen[Diagonal(positions[k])] # {}
    /\ it0 \in Matched /\ it1 < it0 =>
         /\ Diagonal(positions[it0]) \in program_added
         /\ HashesOf(positions[it0]) \subseteq seen[Diagonal(positions[it0])]

\* Cells below the diagonal, which only the matches of two expressions at one
\* position reach, count no programs and no contexts.
LowerCellsEmpty ==
  \A p \in Pairs : p[1] > p[2] => programs[p] = 0 /\ contexts[p] = 0

\* A program that is counted but whose context is not leaves a cell room for
\* the context still to come.
RoomForContext ==
  /\ context_added \subseteq program_added
  /\ \A p \in Pairs :
       contexts[p] + (IF p \in program_added \ context_added THEN 1 ELSE 0) <= programs[p]

\* A program that is not counted yet leaves room for it.
RoomForProgram ==
  \A p \in Pairs :
    /\ programs[p] <= totals[p]
    /\ programs[p] + (IF pc = "idle" \/ p \in program_added THEN 0 ELSE 1) <= Len(added)

\* An expression with a hash in its table has a context.
SeenHaveContext ==
  \A e \in Expressions :
    seen[<<e, e>>] # {} \/ <<e, e>> \in context_added => contexts[<<e, e>>] > 0

Covered ==
  \A e, f \in Expressions :
    totals[<<e, f>>] > 0 => seen[<<e, e>>] # {} /\ seen[<<f, f>>] # {}

Bookkeeping ==
  /\ Ordered
  /\ VisitedAreSeen
  /\ LowerCellsEmpty
  /\ RoomForContext
  /\ RoomForProgram
  /\ SeenHaveContext
  /\ Covered

IInv == TypeOK /\ Bookkeeping
------------------------------------------------------------------------------
\* A match of the program at hand has a position and an expression.
LEMMA MatchFacts ==
  ASSUME TypeOK, NEW k \in Matched
  PROVE  /\ positions[k].pos \in Nat
         /\ positions[k].expr \in Expressions
         /\ positions[k].expr \in Int
         /\ Diagonal(positions[k]) \in Pairs
<1>1. positions[k] \in Matches
  BY DEF TypeOK, Matched
<1> QED  BY <1>1, ExpressionsAssumption DEF Matches, Diagonal, Pairs

\* The inner loop runs inside the list.
LEMMA InnerLoopFacts ==
  ASSUME TypeOK, InnerLoop
  PROVE  /\ it0 \in Matched /\ it1 \in Matched /\ it1 <= it0
         /\ it0 \in Nat /\ it1 \in Nat /\ it1' = it1 - 1 /\ it1' < it0
         /\ it0' = it0 /\ positions' = positions /\ added' = added
         /\ pc = "scan" /\ pc' = pc
         /\ e0 \in Expressions /\ e1 \in Expressions /\ e0 \in Int /\ e1 \in Int
<1>1. Len(positions) \in Nat
  BY DEF TypeOK
<1>2. it0 \in Matched /\ it1 \in Matched /\ it1 <= it0 /\ it1' < it0
  BY <1>1 DEF TypeOK, InnerLoop, InReach, Matched
<1> QED  BY <1>1, <1>2, MatchFacts DEF InnerLoop, e0, e1, Matched

\* Where the occurrence of it0 and it1 is counted, under which key, and the
\* table and the hashes that decide whether its context is new.
SamePosition == positions[it0].pos = positions[it1].pos
PairCell == IF e0 < e1 THEN <<e0, e1>> ELSE <<e1, e0>>
Cell == IF SamePosition THEN <<e0, e1>> ELSE PairCell
Key == IF SamePosition THEN <<e0, e0>> ELSE PairCell
Table == IF SamePosition THEN <<e0, e0>> ELSE <<e1, e0>>
Hashes == IF SamePosition THEN HashesOf(positions[it0])
          ELSE PairHashesOf(positions[it1], positions[it0])
CountStep == SameMatch \/ DifferentMatches

\* What counting one occurrence does to every entry of the tables.
LEMMA CountEffect ==
  ASSUME TypeOK, CountStep
  PROVE  /\ InnerLoop
         /\ ~SamePosition => e0 # e1
         /\ Cell \in Pairs /\ Key \in Pairs /\ Table \in Pairs
         /\ contexts' \in [Pairs -> Nat]
         /\ programs' \in [Pairs -> Nat]
         /\ totals' \in [Pairs -> Nat]
         /\ DOMAIN seen' = Pairs
         /\ \A p \in Pairs :
              /\ totals'[p] = IF p = Cell THEN totals[p] + 1 ELSE totals[p]
              /\ programs'[p] = IF p = Cell /\ Key \notin program_added
                               THEN programs[p] + 1 ELSE programs[p]
              /\ contexts'[p] = IF /\ p = Cell
                                  /\ Key \notin context_added
                                  /\ seen[Table] \cap Hashes = {}
                               THEN contexts[p] + 1 ELSE contexts[p]
              /\ seen'[p] = IF p = Table THEN seen[p] \cup Hashes ELSE seen[p]
         /\ program_added' = program_added \cup {Key}
         /\ context_added' = IF Key \notin context_added /\ seen[Table] \cap Hashes = {}
                             THEN context_added \cup {Key} ELSE context_added
<1>0. /\ InnerLoop
      /\ ~SamePosition => e0 # e1
      /\ Cell \in Pairs /\ Key \in Pairs /\ Table \in Pairs
      /\ Count(Cell, Key, Table, Hashes)
  <2>1. CASE SameMatch
    BY <2>1, InnerLoopFacts DEF SameMatch, SamePosition, Cell, Key, Table, Hashes, Pairs
  <2>2. CASE DifferentMatches
    BY <2>2, InnerLoopFacts
    DEF DifferentMatches, SamePosition, Cell, PairCell, Key, Table, Hashes, Pairs
  <2> QED  BY <2>1, <2>2 DEF CountStep
<1>1. contexts \in [Pairs -> Nat] /\ programs \in [Pairs -> Nat] /\ totals \in [Pairs -> Nat]
      /\ DOMAIN seen = Pairs
  BY DEF TypeOK
<1>2. totals' = [totals EXCEPT ![Cell] = totals[Cell] + 1]
  BY <1>0 DEF Count
<1>3. programs' = IF Key \notin program_added
                  THEN [programs EXCEPT ![Cell] = programs[Cell] + 1] ELSE programs
  BY <1>0 DEF Count
<1>4. contexts' = IF Key \notin context_added /\ seen[Table] \cap Hashes = {}
                  THEN [contexts EXCEPT ![Cell] = contexts[Cell] + 1] ELSE contexts
  BY <1>0 DEF Count
<1>5. seen' = [seen EXCEPT ![Table] = seen[Table] \cup Hashes]
  BY <1>0 DEF Count
<1>6. /\ program_added' = program_added \cup {Key}
      /\ context_added' = IF Key \notin context_added /\ seen[Table] \cap Hashes = {}
                          THEN context_added \cup {Key} ELSE context_added
  BY <1>0 DEF Count
<1>7. totals' \in [Pairs -> Nat] /\ programs' \in [Pairs -> Nat]
  BY <1>0, <1>1, <1>2, <1>3
<1>8. contexts' \in [Pairs -> Nat] /\ DOMAIN seen' = Pairs
  BY <1>0, <1>1, <1>4, <1>5
<1>9. ASSUME NEW p \in Pairs
      PROVE  /\ totals'[p] = IF p = Cell THEN totals[p] + 1 ELSE totals[p]
             /\ programs'[p] = IF p = Cell /\ Key \notin program_added
                              THEN programs[p] + 1 ELSE programs[p]
  BY <1>0, <1>1, <1>2, <1>3
<1>10. ASSUME NEW p \in Pairs
       PROVE  /\ contexts'[p] = IF /\ p = Cell
                                   /\ Key \notin context_added
                                   /\ seen[Table] \cap Hashes = {}
                                THEN contexts[p] + 1 ELSE contexts[p]
              /\ seen'[p] = IF p = Table THEN seen[p] \cup Hashes ELSE seen[p]
  BY <1>0, <1>1, <1>4, <1>5
<1> QED  BY <1>0, <1>6, <1>7, <1>8, <1>9, <1>10

------------------------------------------------------------------------------
\* Every variable keeps its type; in particular the iterators never leave the
\* list, except for the two ends where the loops stop.
THEOREM TypeCorrect == Spec => []TypeOK
<1>1. Init => TypeOK
  BY EmptySeq DEF Init, TypeOK
<1>2. TypeOK /\ [Next]_vars => TypeOK'
  <2> SUFFICES ASSUME TypeOK, [Next]_vars PROVE TypeOK'
    OBVIOUS
  <2>0. Len(positions) \in Nat
    BY DEF TypeOK
  <2>1. ASSUME NEW program \in Programs, AddProgram(program) PROVE TypeOK'
    <3>1. program \in Seq(Matches) /\ Len(program) \in Nat
      BY ProgramsAssumption
    <3>2. Append(added, program) \in Seq(Programs)
      BY DEF TypeOK
    <3> QED  BY <2>1, <3>1, <3>2 DEF TypeOK, AddProgram
  <2>2. CASE CountStep
    <3>1. /\ InnerLoop /\ Key \in Pairs
          /\ contexts' \in [Pairs -> Nat] /\ programs' \in [Pairs -> Nat]
          /\ totals' \in [Pairs -> Nat] /\ DOMAIN seen' = Pairs
          /\ program_added' = program_added \cup {Key}
          /\ context_added' \in {context_added, context_added \cup {Key}}
      BY <2>2, CountEffect
    <3>2. /\ positions' \in Seq(Matches) /\ it0' \in 1..(Len(positions') + 1)
          /\ it1' \in 0..it0' /\ added' \in Seq(Programs) /\ pc' \in {"idle", "scan"}
      <4>1. /\ positions' = positions /\ it0' = it0 /\ added' = added /\ pc' = pc
            /\ it0 \in 1..Len(positions) /\ it1 \in 1..Len(positions)
            /\ it1' = it1 - 1 /\ it1 <= it0
        BY <3>1, InnerLoopFacts DEF Matched
      <4>2. it1' \in 0..it0 /\ it0 \in 1..(Len(positions) + 1)
        BY <2>0, <4>1
      <4> QED  BY <4>1, <4>2 DEF TypeOK
    <3>3. program_added' \subseteq Pairs /\ context_added' \subseteq Pairs
      BY <3>1 DEF TypeOK
    <3> QED  BY <3>1, <3>2, <3>3 DEF TypeOK
  <2>3. CASE SameExpression
    <3>1. InnerLoop /\ UNCHANGED counts
      BY <2>3 DEF SameExpression
    <3> QED  BY <2>0, <3>1, InnerLoopFacts, SMTT(30) DEF TypeOK, counts, Matched
  <2>4. CASE NextMatch
    BY <2>0, <2>4 DEF TypeOK, NextMatch, counts
  <2>5. CASE Return
    BY <2>5 DEF TypeOK, Return, counts
  <2>6. CASE UNCHANGED vars
    BY <2>6 DEF TypeOK, vars, counts
  <2> QED  BY <2>1, <2>2, <2>3, <2>4, <2>5, <2>6 DEF Next, CountStep
<1> QED  BY <1>1, <1>2, PTL DEF Spec

------------------------------------------------------------------------------
\* What a step other than a count changes.
LEMMA OtherSteps ==
  ASSUME TypeOK, Bookkeeping, [Next]_vars, ~CountStep
  PROVE  /\ UNCHANGED <<contexts, programs, totals, seen>>
         /\ \/ \E program \in Programs : AddProgram(program)
            \/ UNCHANGED <<program_added, context_added, added>> /\ pc' \in {pc, "idle"}
<1>1. ASSUME NEW program \in Programs, AddProgram(program)
      PROVE  UNCHANGED <<contexts, programs, totals, seen>>
  BY <1>1 DEF AddProgram
<1>2. ASSUME SameExpression \/ NextMatch \/ Return \/ UNCHANGED vars
      PROVE  /\ UNCHANGED <<contexts, programs, totals, seen>>
             /\ UNCHANGED <<program_added, context_added, added>>
             /\ pc' \in {pc, "idle"}
  BY <1>2 DEF vars, counts, SameExpression, InnerLoop, NextMatch, Return
<1> QED  BY <1>1, <1>2 DEF Next, CountStep

LEMMA OrderedStep ==
  ASSUME TypeOK, Ordered, [Next]_vars
  PROVE  Ordered'
<1>1. ASSUME NEW program \in Programs, AddProgram(program) PROVE Ordered'
  BY <1>1, ProgramsAssumption DEF Ordered, AddProgram, Matched
<1>2. CASE positions' = positions
  BY <1>2 DEF Ordered, Matched
<1> QED
  BY <1>1, <1>2
  DEF Next, vars, SameMatch, DifferentMatches, SameExpression, InnerLoop, NextMatch, Return

LEMMA VisitedStep ==
  ASSUME TypeOK, VisitedAreSeen, [Next]_vars
  PROVE  VisitedAreSeen'
<1>0. Len(positions) \in Nat /\ it0 \in Nat /\ it1 \in Nat
  BY DEF TypeOK
<1>1. CASE CountStep
  <2>1. /\ it0 \in Matched /\ it1 \in Matched /\ it1 <= it0
        /\ it0' = it0 /\ positions' = positions /\ pc = "scan" /\ Matched' = Matched
    BY <1>1, CountEffect, InnerLoopFacts DEF Matched
  <2>2. \A p \in Pairs : seen[p] \subseteq seen'[p]
    BY <1>1, CountEffect
  <2>3. program_added \subseteq program_added'
    BY <1>1, CountEffect
  <2>4. ASSUME NEW k \in Matched, k < it0
        PROVE  seen'[Diagonal(positions[k])] # {}
    BY <2>1, <2>2, <2>4, MatchFacts DEF VisitedAreSeen
  <2>5. /\ Diagonal(positions[it0]) \in program_added'
        /\ HashesOf(positions[it0]) \subseteq seen'[Diagonal(positions[it0])]
    <3>1. CASE it1 = it0
      <4>1. Table = Diagonal(positions[it0]) /\ Key = Table /\ Hashes = HashesOf(positions[it0])
        BY <3>1 DEF Table, Key, Hashes, SamePosition, Diagonal, e0
      <4> QED  BY <1>1, <4>1, CountEffect
    <3>2. CASE it1 < it0
      <4>1. Diagonal(positions[it0]) \in Pairs
        BY <2>1, MatchFacts
      <4> QED  BY <2>1, <2>2, <2>3, <3>2, <4>1 DEF VisitedAreSeen
    <3> QED  BY <1>0, <2>1, <3>1, <3>2
  <2> QED  BY <2>1, <2>4, <2>5 DEF VisitedAreSeen, Diagonal, HashesOf
<1>2. CASE SameExpression
  <2>1. /\ InnerLoop /\ UNCHANGED <<seen, program_added>>
        /\ positions[it0].pos # positions[it1].pos
    BY <1>2 DEF SameExpression, counts
  <2>2. /\ it0 \in Matched /\ it1 < it0
        /\ it0' = it0 /\ positions' = positions /\ pc = "scan" /\ Matched' = Matched
    BY <1>0, <2>1, InnerLoopFacts DEF Matched
  <2> QED  BY <2>1, <2>2 DEF VisitedAreSeen, Diagonal, HashesOf
<1>3. CASE NextMatch
  <2>1. /\ it0 \in Matched /\ pc = "scan" /\ it0' = it0 + 1 /\ it1' = it0 + 1
        /\ UNCHANGED <<positions, seen>> /\ Matched' = Matched
    BY <1>0, <1>3 DEF NextMatch, counts, Matched, TypeOK
  <2>2. it1 < it0
    <3>1. it1 # it0
      <4> SUFFICES ASSUME it1 = it0 PROVE InReach
        BY <1>3 DEF NextMatch
      <4>1. positions[it0].pos \in Nat /\ it1 >= 1
        BY <2>1, MatchFacts DEF Matched
      <4> QED  BY <4>1, DistanceAssumption DEF InReach
    <3> QED  BY <1>0, <3>1 DEF TypeOK
  <2>3. seen[Diagonal(positions[it0])] # {}
    BY <2>1, <2>2 DEF VisitedAreSeen, HashesOf
  <2>4. ASSUME NEW k \in Matched, k < it0 + 1 PROVE seen[Diagonal(positions[k])] # {}
    <3>1. k = it0 \/ k < it0
      BY <1>0, <2>4 DEF Matched
    <3> QED  BY <2>1, <2>3, <3>1 DEF VisitedAreSeen
  <2>5. ~(it1' < it0')
    BY <1>0, <2>1
  <2> QED  BY <2>1, <2>4, <2>5 DEF VisitedAreSeen, Diagonal
<1>4. ASSUME NEW program \in Programs, AddProgram(program) PROVE VisitedAreSeen'
  <2>1. it0' = 1 /\ it1' = 1 /\ \A k \in Matched' : ~(k < 1)
    BY <1>4, ProgramsAssumption DEF AddProgram, Matched
  <2> QED  BY <2>1 DEF VisitedAreSeen
<1>5. CASE Return
  BY <1>5 DEF Return, VisitedAreSeen
<1>6. CASE UNCHANGED vars
  BY <1>6 DEF vars, counts, VisitedAreSeen, Matched, Diagonal, HashesOf
<1> QED  BY <1>1, <1>2, <1>3, <1>4, <1>5, <1>6 DEF Next, CountStep

\* A count goes to a cell that is its own key, or to one below the diagonal,
\* where it is neither a new program nor a new context.
LEMMA CellFacts ==
  ASSUME TypeOK, Ordered, VisitedAreSeen, CountStep
  PROVE  \/ Cell[1] <= Cell[2] /\ Key = Cell
         \/ /\ Cell[1] > Cell[2]
            /\ Key \in program_added
            /\ seen[Table] \cap Hashes # {}
<1>0. /\ it0 \in Matched /\ it1 \in Matched /\ it1 <= it0 /\ pc = "scan"
      /\ it0 \in Nat /\ it1 \in Nat
      /\ e0 \in Int /\ e1 \in Int /\ (~SamePosition => e0 # e1)
  BY CountEffect, InnerLoopFacts
<1>1. CASE ~SamePosition
  BY <1>0, <1>1 DEF Cell, PairCell, Key
<1>2. CASE SamePosition /\ e0 = e1
  BY <1>0, <1>2 DEF Cell, Key
<1>3. CASE SamePosition /\ e0 # e1
  <2>1. it1 < it0
    BY <1>0, <1>3 DEF e0, e1
  <2>2. e1 <= e0
    <3>1. Precedes(positions[it1], positions[it0])
      BY <1>0, <2>1 DEF Ordered
    <3>2. positions[it0].pos \in Nat /\ positions[it0].pos = positions[it1].pos
      BY <1>0, <1>3, MatchFacts DEF SamePosition
    <3> QED  BY <3>1, <3>2 DEF Precedes, e0, e1
  <2>3. Key \in program_added /\ seen[Table] \cap Hashes # {}
    BY <1>0, <1>3, <2>1 DEF VisitedAreSeen, Key, Table, Hashes, HashesOf, Diagonal, e0
  <2> QED  BY <1>0, <1>3, <2>2, <2>3 DEF Cell
<1> QED  BY <1>1, <1>2, <1>3

LEMMA LowerCellsStep ==
  ASSUME TypeOK, Bookkeeping, [Next]_vars
  PROVE  LowerCellsEmpty'
<1>1. CASE CountStep
  <2>1. Cell[1] <= Cell[2] \/ (Key \in program_added /\ seen[Table] \cap Hashes # {})
    BY <1>1, CellFacts DEF Bookkeeping
  <2>2. ASSUME NEW p \in Pairs, p[1] > p[2]
        PROVE  programs'[p] = programs[p] /\ contexts'[p] = contexts[p]
    <3>1. Cell # p \/ (Key \in program_added /\ seen[Table] \cap Hashes # {})
      <4>1. p[1] \in Int /\ p[2] \in Int
        BY ExpressionsAssumption DEF Pairs
      <4> QED  BY <2>1, <2>2, <4>1
    <3> QED  BY <1>1, <3>1, CountEffect
  <2> QED  BY <2>2 DEF Bookkeeping, LowerCellsEmpty
<1>2. CASE ~CountStep
  BY <1>2, OtherSteps DEF Bookkeeping, LowerCellsEmpty
<1> QED  BY <1>1, <1>2

\* The key of a count is the cell it goes to wherever it changes anything but
\* the total.
LEMMA KeyIsCell ==
  ASSUME TypeOK, Bookkeeping, CountStep
  PROVE  \/ Key = Cell
         \/ Key \in program_added /\ seen[Table] \cap Hashes # {}
BY CellFacts DEF Bookkeeping

LEMMA RoomForContextStep ==
  ASSUME TypeOK, Bookkeeping, [Next]_vars
  PROVE  RoomForContext'
<1>1. CASE CountStep
  <2>1. context_added' \subseteq program_added'
    BY <1>1, CountEffect DEF Bookkeeping, RoomForContext
  <2>2. ASSUME NEW p \in Pairs
        PROVE  contexts'[p] + (IF p \in program_added' \ context_added' THEN 1 ELSE 0)
                 <= programs'[p]
    <3>1. /\ contexts[p] \in Nat /\ programs[p] \in Nat
          /\ contexts[p] + (IF p \in program_added \ context_added THEN 1 ELSE 0) <= programs[p]
          /\ context_added \subseteq program_added
      BY DEF TypeOK, Bookkeeping, RoomForContext
    <3>2. CASE Key = Cell
      BY <1>1, <3>1, <3>2, CountEffect
    <3>3. CASE Key \in program_added /\ seen[Table] \cap Hashes # {}
      <4>1. /\ contexts'[p] = contexts[p] /\ programs'[p] = programs[p]
            /\ program_added' = program_added /\ context_added' = context_added
        BY <1>1, <3>3, CountEffect
      <4> QED  BY <3>1, <4>1
    <3> QED  BY <1>1, <3>2, <3>3, KeyIsCell
  <2> QED  BY <2>1, <2>2 DEF RoomForContext
<1>2. CASE ~CountStep
  <2>1. ASSUME NEW program \in Programs, AddProgram(program) PROVE RoomForContext'
    <3>1. ASSUME NEW p \in Pairs PROVE contexts[p] <= programs[p]
      <4>1. contexts[p] \in Nat /\ programs[p] \in Nat
        BY DEF TypeOK
      <4> QED  BY <4>1 DEF Bookkeeping, RoomForContext
    <3>2. /\ context_added' = {} /\ program_added' = {}
          /\ \A p \in Pairs : contexts'[p] = contexts[p] /\ programs'[p] = programs[p]
          /\ \A p \in Pairs : contexts[p] \in Nat
      BY <2>1 DEF AddProgram, TypeOK
    <3> QED  BY <3>1, <3>2 DEF RoomForContext
  <2>2. CASE UNCHANGED <<contexts, programs, program_added, context_added>>
    BY <2>2 DEF Bookkeeping, RoomForContext
  <2> QED  BY <1>2, <2>1, <2>2, OtherSteps
<1> QED  BY <1>1, <1>2

LEMMA RoomForProgramStep ==
  ASSUME TypeOK, Bookkeeping, [Next]_vars
  PROVE  RoomForProgram'
<1> SUFFICES ASSUME NEW p \in Pairs
             PROVE  /\ programs'[p] <= totals'[p]
                    /\ programs'[p] + (IF pc' = "idle" \/ p \in program_added' THEN 0 ELSE 1)
                         <= Len(added')
  BY DEF RoomForProgram
<1>0. /\ programs[p] \in Nat /\ totals[p] \in Nat /\ Len(added) \in Nat
      /\ programs[p] <= totals[p]
      /\ programs[p] + (IF pc = "idle" \/ p \in program_added THEN 0 ELSE 1) <= Len(added)
  BY DEF TypeOK, Bookkeeping, RoomForProgram
<1>1. CASE CountStep
  <2>1. pc' = "scan" /\ pc = "scan" /\ added' = added
    BY <1>1, CountEffect, InnerLoopFacts
  <2>2. CASE Key = Cell
    BY <1>0, <1>1, <2>1, <2>2, CountEffect, SMTT(30)
  <2>3. CASE Key \in program_added /\ seen[Table] \cap Hashes # {}
    <3>1. /\ programs'[p] = programs[p] /\ program_added' = program_added
          /\ totals'[p] \in {totals[p], totals[p] + 1}
      BY <1>1, <2>3, CountEffect
    <3> QED  BY <1>0, <2>1, <3>1
  <2> QED  BY <1>1, <2>2, <2>3, KeyIsCell
<1>2. CASE ~CountStep
  <2>1. ASSUME NEW program \in Programs, AddProgram(program)
        PROVE  pc = "idle" /\ Len(added') = Len(added) + 1
    BY <2>1 DEF AddProgram, TypeOK
  <2> QED  BY <1>0, <1>2, <2>1, OtherSteps
<1> QED  BY <1>1, <1>2

LEMMA SeenHaveContextStep ==
  ASSUME TypeOK, Bookkeeping, [Next]_vars
  PROVE  SeenHaveContext'
<1>1. CASE CountStep
  <2> SUFFICES ASSUME NEW e \in Expressions,
                      seen'[<<e, e>>] # {} \/ <<e, e>> \in context_added'
               PROVE  contexts'[<<e, e>>] > 0
    BY DEF SeenHaveContext
  <2> DEFINE d == <<e, e>>
  <2>0. d \in Pairs /\ contexts[d] \in Nat /\ contexts'[d] \in {contexts[d], contexts[d] + 1}
    BY <1>1, CountEffect DEF TypeOK, Pairs
  <2>1. seen[d] # {} \/ d \in context_added => contexts[d] > 0
    BY DEF Bookkeeping, SeenHaveContext
  <2>2. Table = d <=> Key = d
    BY <1>1, CountEffect, InnerLoopFacts DEF Table, Key, PairCell
  <2>3. CASE Table = d
    <3>1. Key = Cell \/ seen[d] # {}
      BY <1>1, <2>3, KeyIsCell
    <3>2. CASE seen[d] # {} \/ d \in context_added
      BY <2>0, <2>1, <3>2
    <3>3. CASE seen[d] = {} /\ d \notin context_added
      <4>1. Key = d /\ Cell = d /\ seen[Table] \cap Hashes = {}
        BY <2>2, <2>3, <3>1, <3>3
      <4>2. contexts'[d] = contexts[d] + 1
        BY <1>1, <2>0, <3>3, <4>1, CountEffect
      <4> QED  BY <2>0, <4>2
    <3> QED  BY <3>2, <3>3
  <2>4. CASE Table # d
    <3>1. seen'[d] = seen[d] /\ (d \in context_added' => d \in context_added)
      BY <1>1, <2>0, <2>2, <2>4, CountEffect
    <3> QED  BY <2>0, <2>1, <3>1
  <2> QED  BY <2>3, <2>4
<1>2. CASE ~CountStep
  BY <1>2, OtherSteps DEF Bookkeeping, SeenHaveContext, AddProgram
<1> QED  BY <1>1, <1>2

LEMMA CoveredStep ==
  ASSUME TypeOK, Bookkeeping, [Next]_vars
  PROVE  Covered'
<1>1. CASE CountStep
  <2>0. /\ it0 \in Matched /\ it1 \in Matched /\ it1 <= it0 /\ it0 \in Nat /\ it1 \in Nat
        /\ it1' < it0 /\ it0' = it0 /\ positions' = positions /\ pc = "scan" /\ pc' = "scan"
        /\ e0 \in Expressions /\ e1 \in Expressions /\ Matched' = Matched
    BY <1>1, CountEffect, InnerLoopFacts DEF Matched
  <2>1. \A p \in Pairs : seen[p] \subseteq seen'[p]
    BY <1>1, CountEffect
  <2>2. seen'[<<e0, e0>>] # {}
    <3>1. VisitedAreSeen'
      BY VisitedStep DEF Bookkeeping
    <3>2. HashesOf(positions[it0]) \subseteq seen'[<<e0, e0>>]
      BY <2>0, <3>1 DEF VisitedAreSeen, HashesOf, Diagonal, e0
    <3> QED  BY <3>2 DEF HashesOf
  <2>3. seen'[<<e1, e1>>] # {}
    <3>1. CASE it1 = it0
      BY <2>2, <3>1 DEF e0, e1
    <3>2. CASE it1 < it0
      <4>1. seen[<<e1, e1>>] # {}
        BY <2>0, <3>2 DEF Bookkeeping, VisitedAreSeen, Diagonal, e1
      <4> QED  BY <2>0, <2>1, <4>1 DEF Pairs
    <3> QED  BY <2>0, <3>1, <3>2
  <2>4. ASSUME NEW e \in Expressions, NEW f \in Expressions, totals'[<<e, f>>] > 0
        PROVE  seen'[<<e, e>>] # {} /\ seen'[<<f, f>>] # {}
    <3>1. CASE <<e, f>> = Cell
      <4>1. e \in {e0, e1} /\ f \in {e0, e1}
        BY <3>1 DEF Cell, PairCell
      <4> QED  BY <2>2, <2>3, <4>1
    <3>2. CASE <<e, f>> # Cell
      <4>1. <<e, f>> \in Pairs /\ <<e, e>> \in Pairs /\ <<f, f>> \in Pairs
        BY DEF Pairs
      <4>2. totals'[<<e, f>>] = totals[<<e, f>>]
        BY <1>1, <3>2, <4>1, CountEffect
      <4>3. seen[<<e, e>>] # {} /\ seen[<<f, f>>] # {}
        BY <2>4, <4>2 DEF Bookkeeping, Covered
      <4> QED  BY <2>1, <4>1, <4>3
    <3> QED  BY <3>1, <3>2
  <2> QED  BY <2>4 DEF Covered
<1>2. CASE ~CountStep
  BY <1>2, OtherSteps DEF Bookkeeping, Covered
<1> QED  BY <1>1, <1>2

------------------------------------------------------------------------------
\* The bookkeeping of the tables is an inductive invariant.
THEOREM BookkeepingCorrect == Spec => []IInv
<1>1. Init => Bookkeeping
  BY DEF Init, Bookkeeping, Ordered, VisitedAreSeen, LowerCellsEmpty, RoomForContext,
         RoomForProgram, SeenHaveContext, Covered, Matched, Pairs
<1>2. TypeOK /\ Bookkeeping /\ [Next]_vars => Bookkeeping'
  BY OrderedStep, VisitedStep, LowerCellsStep, RoomForContextStep, RoomForProgramStep,
     SeenHaveContextStep, CoveredStep
  DEF Bookkeeping
<1> QED  BY <1>1, <1>2, TypeCorrect, PTL DEF Spec, IInv

\* In every cell contexts <= programs <= totals, and no cell counts more
\* programs than add_program was called with.
THEOREM CountsAreNested == Spec => []CountsNested
<1>1. IInv => CountsNested
  <2> SUFFICES ASSUME IInv, NEW p \in Pairs
               PROVE  /\ contexts[p] <= programs[p] /\ programs[p] <= totals[p]
                      /\ programs[p] <= Len(added)
    BY DEF CountsNested
  <2>1. contexts[p] \in Nat /\ programs[p] \in Nat /\ Len(added) \in Nat
    BY DEF IInv, TypeOK
  <2> QED  BY <2>1 DEF IInv, Bookkeeping, RoomForContext, RoomForProgram
<1> QED  BY <1>1, BookkeepingCorrect, PTL

\* The diagonal entries of two expressions count a context wherever the entry
\* between them counts anything: what the graph divides by is not 0.
THEOREM DiagonalIsCovered == Spec => []DiagonalCovers
<1>1. IInv => DiagonalCovers
  BY DEF IInv, Bookkeeping, Covered, SeenHaveContext, DiagonalCovers
<1> QED  BY <1>1, BookkeepingCorrect, PTL

------------------------------------------------------------------------------
(* What the counts mean.  At every step the tables are those of the         *)
(* occurrences the two loops have met: a step of the inner loop meets one   *)
(* pair of matches, the last so far, and outside the distance, where the    *)
(* inner loop stops, none is left to meet, because the list is sorted.      *)

\* The occurrences of all pairs in the programs ad, and what add_program makes
\* of one: the cell it counts, the table and the hashes.
AllOccurrences(ad) ==
  {o \in UNION {{n} \X (DOMAIN ad[n]) \X (DOMAIN ad[n]) : n \in DOMAIN ad} :
     /\ o[3] <= o[2]
     /\ ad[o[1]][o[2]].pos - ad[o[1]][o[3]].pos <= Distance
     /\ ad[o[1]][o[2]].expr # ad[o[1]][o[3]].expr \/ o[2] = o[3]}
FirstIn(ad, o) == ad[o[1]][o[3]]
SecondIn(ad, o) == ad[o[1]][o[2]]
CellOf(ad, o) == Entry(FirstIn(ad, o).expr, SecondIn(ad, o).expr)
TableOf(ad, o) == <<FirstIn(ad, o).expr, SecondIn(ad, o).expr>>
HashesIn(ad, o) == IF o[2] = o[3] THEN HashesOf(SecondIn(ad, o))
                   ELSE PairHashesOf(FirstIn(ad, o), SecondIn(ad, o))

\* Those of M whose context no earlier one of M has.
Unlike(ad, M, o) ==
  \A u \in M : Before(u, o) /\ TableOf(ad, u) = TableOf(ad, o) =>
                 HashesIn(ad, u) \cap HashesIn(ad, o) = {}
NewOf(ad, M) == {o \in M : Unlike(ad, M, o)}
InCell(ad, M, p) == {o \in M : CellOf(ad, o) = p}
InTable(ad, M, p) == {o \in M : TableOf(ad, o) = p}
ProgramsOf(M) == {o[1] : o \in M}
CellsIn(ad, M, n) == {CellOf(ad, o) : o \in {u \in M : u[1] = n}}

\* The tables are those of the occurrences M, program n the last.
Counted(ad, M, n, tot, prog, padd, ctx, cadd, sn) ==
  /\ \A p \in Pairs :
       /\ tot[p] = Cardinality(InCell(ad, M, p))
       /\ prog[p] = Cardinality(ProgramsOf(InCell(ad, M, p)))
       /\ ctx[p] = Cardinality(ProgramsOf(InCell(ad, NewOf(ad, M), p)))
       /\ sn[p] = UNION {HashesIn(ad, o) : o \in InTable(ad, M, p)}
  /\ padd = CellsIn(ad, M, n)
  /\ cadd = CellsIn(ad, NewOf(ad, M), n)

\* One more occurrence, the last of all, makes a new one if its hashes are new.
LEMMA NewOfMore ==
  ASSUME NEW ad, NEW M, NEW o, o \notin M, NEW h,
         h = UNION {HashesIn(ad, u) : u \in InTable(ad, M, TableOf(ad, o))},
         \A u \in M : Before(u, o) /\ ~Before(o, u), ~Before(o, o)
  PROVE  NewOf(ad, M \cup {o}) =
           IF h \cap HashesIn(ad, o) = {} THEN NewOf(ad, M) \cup {o} ELSE NewOf(ad, M)
<1>1. ASSUME NEW u \in M PROVE Unlike(ad, M \cup {o}, u) <=> Unlike(ad, M, u)
  BY DEF Unlike
<1>2. Unlike(ad, M \cup {o}, o) <=> h \cap HashesIn(ad, o) = {}
  <2>1. ASSUME NEW x, x \in h \cap HashesIn(ad, o) PROVE ~Unlike(ad, M \cup {o}, o)
    <3>1. PICK u \in InTable(ad, M, TableOf(ad, o)) : x \in HashesIn(ad, u)
      BY <2>1
    <3> QED  BY <2>1, <3>1 DEF Unlike, InTable
  <2>2. ASSUME h \cap HashesIn(ad, o) = {} PROVE Unlike(ad, M \cup {o}, o)
    <3> SUFFICES ASSUME NEW u \in M, TableOf(ad, u) = TableOf(ad, o)
                 PROVE  HashesIn(ad, u) \cap HashesIn(ad, o) = {}
      BY DEF Unlike
    <3>1. HashesIn(ad, u) \subseteq h
      BY DEF InTable
    <3> QED  BY <2>2, <3>1
  <2> QED  BY <2>1, <2>2
<1> QED  BY <1>1, <1>2 DEF NewOf

LEMMA CardinalityOfMore ==
  ASSUME NEW S, IsFiniteSet(S), NEW x
  PROVE  /\ IsFiniteSet(S \cup {x})
         /\ Cardinality(S) \in Nat
         /\ Cardinality(S \cup {x}) = IF x \in S THEN Cardinality(S) ELSE Cardinality(S) + 1
BY FS_AddElement, FS_CardinalityType

LEMMA FiniteProgramsOf ==
  ASSUME NEW M, IsFiniteSet(M)
  PROVE  IsFiniteSet(ProgramsOf(M))
<1> DEFINE f == [o \in M |-> o[1]]
<1>1. ProgramsOf(M) = {f[o] : o \in M}
  BY DEF ProgramsOf
<1>2. f \in Surjection(M, ProgramsOf(M))
  BY <1>1 DEF Surjection
<1> QED  BY <1>2, FS_Surjection

\* What one more occurrence of program n does to a cell.
CountsOneMore(ad, M, o, n, p) ==
  /\ Cardinality(InCell(ad, M, p)) \in Nat
  /\ Cardinality(InCell(ad, M \cup {o}, p)) =
       IF p = CellOf(ad, o) THEN Cardinality(InCell(ad, M, p)) + 1
       ELSE Cardinality(InCell(ad, M, p))
  /\ Cardinality(ProgramsOf(InCell(ad, M, p))) \in Nat
  /\ Cardinality(ProgramsOf(InCell(ad, M \cup {o}, p))) =
       IF p = CellOf(ad, o) /\ p \notin CellsIn(ad, M, n)
       THEN Cardinality(ProgramsOf(InCell(ad, M, p))) + 1
       ELSE Cardinality(ProgramsOf(InCell(ad, M, p)))

\* A set of occurrences with one more of program n: its cell, its programs.
LEMMA OneMore ==
  ASSUME NEW ad, NEW M, IsFiniteSet(M), NEW o, o \notin M, NEW n, o[1] = n, NEW p
  PROVE  CountsOneMore(ad, M, o, n, p)
<1>1. IsFiniteSet(InCell(ad, M, p))
  BY FS_Subset DEF InCell
<1>2. InCell(ad, M \cup {o}, p) = IF p = CellOf(ad, o) THEN InCell(ad, M, p) \cup {o}
                                  ELSE InCell(ad, M, p)
  BY DEF InCell
<1>3. o \notin InCell(ad, M, p)
  BY DEF InCell
<1>4. ProgramsOf(InCell(ad, M, p) \cup {o}) = ProgramsOf(InCell(ad, M, p)) \cup {n}
  BY DEF ProgramsOf
<1>5. n \in ProgramsOf(InCell(ad, M, p)) <=> p \in CellsIn(ad, M, n)
  BY DEF ProgramsOf, InCell, CellsIn
<1>6. IsFiniteSet(ProgramsOf(InCell(ad, M, p)))
  BY <1>1, FiniteProgramsOf
<1>7. /\ Cardinality(InCell(ad, M, p)) \in Nat
      /\ Cardinality(InCell(ad, M, p) \cup {o}) = Cardinality(InCell(ad, M, p)) + 1
  BY <1>1, <1>3, CardinalityOfMore
<1>8. /\ Cardinality(ProgramsOf(InCell(ad, M, p))) \in Nat
      /\ Cardinality(ProgramsOf(InCell(ad, M, p)) \cup {n}) =
           IF n \in ProgramsOf(InCell(ad, M, p)) THEN Cardinality(ProgramsOf(InCell(ad, M, p)))
           ELSE Cardinality(ProgramsOf(InCell(ad, M, p))) + 1
  BY <1>6, CardinalityOfMore
<1> QED  BY <1>2, <1>4, <1>5, <1>7, <1>8 DEF CountsOneMore

\* Counting one more occurrence.
LEMMA CountOneMore ==
  ASSUME NEW ad, NEW M, IsFiniteSet(M), NEW o, o \notin M, NEW n, o[1] = n,
         \A u \in M : Before(u, o) /\ ~Before(o, u), ~Before(o, o),
         CellOf(ad, o) \in Pairs, TableOf(ad, o) \in Pairs,
         Counted(ad, M, n, totals, programs, program_added, contexts, context_added, seen),
         NEW isNew \in BOOLEAN,
         isNew <=> /\ CellOf(ad, o) \notin context_added
                   /\ seen[TableOf(ad, o)] \cap HashesIn(ad, o) = {},
         \A p \in Pairs :
           /\ totals'[p] = IF p = CellOf(ad, o) THEN totals[p] + 1 ELSE totals[p]
           /\ programs'[p] = IF p = CellOf(ad, o) /\ CellOf(ad, o) \notin program_added
                            THEN programs[p] + 1 ELSE programs[p]
           /\ contexts'[p] = IF p = CellOf(ad, o) /\ isNew THEN contexts[p] + 1 ELSE contexts[p]
           /\ seen'[p] = IF p = TableOf(ad, o) THEN seen[p] \cup HashesIn(ad, o) ELSE seen[p],
         program_added' = program_added \cup {CellOf(ad, o)},
         context_added' = IF isNew THEN context_added \cup {CellOf(ad, o)} ELSE context_added
  PROVE  Counted(ad, M \cup {o}, n, totals', programs', program_added',
                 contexts', context_added', seen')
<1> DEFINE h == seen[TableOf(ad, o)]
           N == NewOf(ad, M)
           NN == NewOf(ad, M \cup {o})
           fresh == h \cap HashesIn(ad, o) = {}
<1>1. h = UNION {HashesIn(ad, u) : u \in InTable(ad, M, TableOf(ad, o))}
  BY DEF Counted
<1>2. NN = IF fresh THEN N \cup {o} ELSE N
  <2> HIDE DEF h
  <2> QED  BY <1>1, NewOfMore
<1>3. IsFiniteSet(N) /\ o \notin N
  BY FS_Subset DEF NewOf
<1>4. program_added = CellsIn(ad, M, n) /\ context_added = CellsIn(ad, N, n)
  BY DEF Counted
<1>5. program_added' = CellsIn(ad, M \cup {o}, n)
  <2>1. CellsIn(ad, M \cup {o}, n) = CellsIn(ad, M, n) \cup {CellOf(ad, o)}
    BY DEF CellsIn
  <2> QED  BY <1>4, <2>1
<1>6. context_added' = CellsIn(ad, NN, n)
  <2>1. CellsIn(ad, N \cup {o}, n) = CellsIn(ad, N, n) \cup {CellOf(ad, o)}
    <3> HIDE DEF N
    <3> QED  BY DEF CellsIn
  <2> HIDE DEF N, NN, h
  <2> QED  BY <1>2, <1>4, <2>1 DEF h
<1>7. ASSUME NEW p \in Pairs
      PROVE  /\ totals'[p] = Cardinality(InCell(ad, M \cup {o}, p))
             /\ programs'[p] = Cardinality(ProgramsOf(InCell(ad, M \cup {o}, p)))
  <2>1. /\ totals[p] = Cardinality(InCell(ad, M, p))
        /\ programs[p] = Cardinality(ProgramsOf(InCell(ad, M, p)))
    BY DEF Counted
  <2>2. IsFiniteSet(M) /\ o \notin M /\ o[1] = n
    OBVIOUS
  <2>3. CountsOneMore(ad, M, o, n, p)
    BY ONLY <2>2, OneMore
  <2> QED  BY <1>4, <2>1, <2>3 DEF CountsOneMore
<1>8. ASSUME NEW p \in Pairs
      PROVE  contexts'[p] = Cardinality(ProgramsOf(InCell(ad, NN, p)))
  <2>1. contexts[p] = Cardinality(ProgramsOf(InCell(ad, N, p)))
    BY DEF Counted
  <2>2. CountsOneMore(ad, N, o, n, p)
    <3>1. IsFiniteSet(N) /\ o \notin N /\ o[1] = n
      BY <1>3
    <3> HIDE DEF N
    <3> QED  BY ONLY <3>1, OneMore
  <2>3. contexts'[p] = IF p = CellOf(ad, o) /\ isNew THEN contexts[p] + 1 ELSE contexts[p]
    OBVIOUS
  <2> HIDE DEF N, NN, h
  <2> QED  BY <1>2, <1>4, <2>1, <2>2, <2>3 DEF h, CountsOneMore
<1>9. ASSUME NEW p \in Pairs
      PROVE  seen'[p] = UNION {HashesIn(ad, u) : u \in InTable(ad, M \cup {o}, p)}
  <2>1. seen[p] = UNION {HashesIn(ad, u) : u \in InTable(ad, M, p)}
    BY DEF Counted
  <2>2. InTable(ad, M \cup {o}, p) = IF p = TableOf(ad, o) THEN InTable(ad, M, p) \cup {o}
                                     ELSE InTable(ad, M, p)
    BY DEF InTable
  <2>3. UNION {HashesIn(ad, u) : u \in InTable(ad, M, p) \cup {o}} =
          (UNION {HashesIn(ad, u) : u \in InTable(ad, M, p)}) \cup HashesIn(ad, o)
    OBVIOUS
  <2> QED  BY <2>1, <2>2, <2>3
<1> QED  BY <1>5, <1>6, <1>7, <1>8, <1>9 DEF Counted

------------------------------------------------------------------------------
Alone(ad) == \A k \in DOMAIN ad : OneMatchPerPosition(ad[k])

\* The occurrences that the loops have met.
Met ==
  {o \in AllOccurrences(added) :
     \/ o[1] < Len(added)
     \/ o[1] = Len(added) /\ (o[2] < it0 \/ (o[2] = it0 /\ o[3] > it1))}

Scanning ==
  /\ added # <<>> => positions = added[Len(added)]
  /\ pc = "scan" => added # <<>>
  /\ pc = "idle" => it0 > Len(positions)

\* The tables are those of the occurrences met, of which there are finitely many.
TablesCounted ==
  /\ IsFiniteSet(Met)
  /\ Counted(added, Met, Len(added), totals, programs, program_added,
             contexts, context_added, seen)

CountInv == Scanning /\ (Alone(added) => TablesCounted)

\* What an occurrence is made of.
LEMMA OccurrenceFacts ==
  ASSUME NEW ad \in Seq(Programs), NEW o \in AllOccurrences(ad)
  PROVE  /\ o[1] \in 1..Len(ad) /\ o[1] \in Nat
         /\ o[2] \in 1..Len(ad[o[1]]) /\ o[2] \in Nat
         /\ o[3] \in 1..Len(ad[o[1]]) /\ o[3] \in Nat
         /\ o = <<o[1], o[2], o[3]>>
         /\ o[3] <= o[2]
         /\ FirstIn(ad, o) \in Matches /\ SecondIn(ad, o) \in Matches
         /\ SecondIn(ad, o).pos - FirstIn(ad, o).pos <= Distance
         /\ SecondIn(ad, o).expr # FirstIn(ad, o).expr \/ o[2] = o[3]
         /\ CellOf(ad, o) \in Pairs /\ TableOf(ad, o) \in Pairs
<1>1. PICK n \in DOMAIN ad : o \in {n} \X (DOMAIN ad[n]) \X (DOMAIN ad[n])
  BY DEF AllOccurrences
<1>2. o[1] = n /\ o[2] \in DOMAIN ad[n] /\ o[3] \in DOMAIN ad[n] /\ o = <<o[1], o[2], o[3]>>
  BY <1>1
<1>3. n \in 1..Len(ad) /\ ad[n] \in Programs
  BY <1>1
<1>4. ad[n] \in Seq(Matches)
  BY <1>3, ProgramsAssumption
<1>5. /\ DOMAIN ad[n] = 1..Len(ad[n])
      /\ \A k \in 1..Len(ad[n]) : ad[n][k] \in Matches
  BY <1>4
<1>6. /\ o[3] <= o[2]
      /\ SecondIn(ad, o).pos - FirstIn(ad, o).pos <= Distance
      /\ SecondIn(ad, o).expr # FirstIn(ad, o).expr \/ o[2] = o[3]
  BY DEF AllOccurrences, FirstIn, SecondIn
<1>7. FirstIn(ad, o) \in Matches /\ SecondIn(ad, o) \in Matches
  BY <1>2, <1>5 DEF FirstIn, SecondIn
<1>8. CellOf(ad, o) \in Pairs /\ TableOf(ad, o) \in Pairs
  BY <1>7 DEF CellOf, TableOf, Matches, Pairs, Entry
<1>9. Len(ad) \in Nat /\ Len(ad[n]) \in Nat
  BY <1>4
<1> QED  BY <1>2, <1>3, <1>5, <1>6, <1>7, <1>8, <1>9

LEMMA IsOccurrence ==
  ASSUME NEW ad, NEW n \in DOMAIN ad, NEW j \in DOMAIN ad[n], NEW i \in DOMAIN ad[n],
         i <= j, ad[n][j].pos - ad[n][i].pos <= Distance,
         ad[n][j].expr # ad[n][i].expr \/ j = i
  PROVE  <<n, j, i>> \in AllOccurrences(ad)
<1>1. <<n, j, i>> \in {n} \X (DOMAIN ad[n]) \X (DOMAIN ad[n])
  OBVIOUS
<1>2. <<n, j, i>>[1] = n /\ <<n, j, i>>[2] = j /\ <<n, j, i>>[3] = i
  OBVIOUS
<1> QED  BY <1>1, <1>2 DEF AllOccurrences

\* An occurrence of a program keeps what it is when a program is added.
LEMMA OccurrencesOfMore ==
  ASSUME NEW ad \in Seq(Programs), NEW program \in Programs
  PROVE  /\ \A o : o \in AllOccurrences(ad) <=>
                   o \in AllOccurrences(Append(ad, program)) /\ o[1] <= Len(ad)
         /\ \A o \in AllOccurrences(ad) :
              /\ FirstIn(Append(ad, program), o) = FirstIn(ad, o)
              /\ SecondIn(Append(ad, program), o) = SecondIn(ad, o)
<1> DEFINE am == Append(ad, program)
<1>1. /\ am \in Seq(Programs) /\ Len(am) = Len(ad) + 1 /\ Len(ad) \in Nat
      /\ \A k \in 1..Len(ad) : am[k] = ad[k]
  OBVIOUS
<1>2. DOMAIN ad = 1..Len(ad) /\ DOMAIN am = 1..(Len(ad) + 1)
  BY <1>1
<1> HIDE DEF am
<1>3. ASSUME NEW o \in AllOccurrences(ad)
      PROVE  /\ o \in AllOccurrences(am) /\ o[1] <= Len(ad)
             /\ FirstIn(am, o) = FirstIn(ad, o) /\ SecondIn(am, o) = SecondIn(ad, o)
  <2>1. /\ o[1] \in 1..Len(ad) /\ o[1] \in Nat /\ o = <<o[1], o[2], o[3]>>
        /\ o[2] \in 1..Len(ad[o[1]]) /\ o[3] \in 1..Len(ad[o[1]])
        /\ o[3] <= o[2]
        /\ SecondIn(ad, o).pos - FirstIn(ad, o).pos <= Distance
        /\ SecondIn(ad, o).expr # FirstIn(ad, o).expr \/ o[2] = o[3]
    BY OccurrenceFacts
  <2>2. am[o[1]] = ad[o[1]] /\ o[1] \in DOMAIN am /\ o[1] <= Len(ad)
    BY <1>1, <1>2, <2>1
  <2>3. ad[o[1]] \in Seq(Matches)
    BY <2>1, ProgramsAssumption
  <2>4. o[2] \in DOMAIN am[o[1]] /\ o[3] \in DOMAIN am[o[1]]
    BY <2>1, <2>2, <2>3
  <2>5. <<o[1], o[2], o[3]>> \in AllOccurrences(am)
    BY <2>1, <2>2, <2>4, IsOccurrence DEF FirstIn, SecondIn
  <2> QED  BY <2>1, <2>2, <2>5 DEF FirstIn, SecondIn
<1>4. ASSUME NEW o \in AllOccurrences(am), o[1] <= Len(ad)
      PROVE  o \in AllOccurrences(ad)
  <2>1. /\ o[1] \in 1..Len(am) /\ o[1] \in Nat /\ o = <<o[1], o[2], o[3]>>
        /\ o[2] \in 1..Len(am[o[1]]) /\ o[3] \in 1..Len(am[o[1]])
        /\ o[3] <= o[2]
        /\ SecondIn(am, o).pos - FirstIn(am, o).pos <= Distance
        /\ SecondIn(am, o).expr # FirstIn(am, o).expr \/ o[2] = o[3]
    BY <1>1, OccurrenceFacts
  <2>2. am[o[1]] = ad[o[1]] /\ o[1] \in DOMAIN ad
    BY <1>1, <1>2, <1>4, <2>1
  <2>3. ad[o[1]] \in Seq(Matches)
    BY <2>2, ProgramsAssumption
  <2>4. o[2] \in DOMAIN ad[o[1]] /\ o[3] \in DOMAIN ad[o[1]]
    BY <2>1, <2>2, <2>3
  <2>5. <<o[1], o[2], o[3]>> \in AllOccurrences(ad)
    BY <2>1, <2>2, <2>4, IsOccurrence DEF FirstIn, SecondIn
  <2> QED  BY <2>1, <2>5
<1> QED  BY <1>3, <1>4 DEF am

------------------------------------------------------------------------------
\* What Counted reads of the programs is what it reads of the occurrences M.
LEMMA CountedOfMore ==
  ASSUME NEW ad \in Seq(Programs), NEW program \in Programs,
         NEW M, M \subseteq AllOccurrences(ad),
         NEW tot, NEW prog, NEW padd, NEW ctx, NEW cadd, NEW sn,
         Counted(ad, M, Len(ad), tot, prog, padd, ctx, cadd, sn)
  PROVE  Counted(Append(ad, program), M, Len(ad) + 1, tot, prog, {}, ctx, {}, sn)
<1> DEFINE am == Append(ad, program)
<1>1. /\ \A o \in M : FirstIn(am, o) = FirstIn(ad, o) /\ SecondIn(am, o) = SecondIn(ad, o)
      /\ \A o \in M : o[1] # Len(ad) + 1
  <2>1. \A o \in M : o[1] <= Len(ad) /\ o[1] \in Nat
    BY OccurrenceFacts
  <2>2. Len(ad) \in Nat
    OBVIOUS
  <2> QED  BY <2>1, <2>2, OccurrencesOfMore
<1> HIDE DEF am
<1>2. \A o \in M : /\ CellOf(am, o) = CellOf(ad, o)
                   /\ TableOf(am, o) = TableOf(ad, o)
                   /\ HashesIn(am, o) = HashesIn(ad, o)
  BY <1>1 DEF CellOf, TableOf, HashesIn
<1>3. NewOf(am, M) = NewOf(ad, M)
  BY <1>2 DEF NewOf, Unlike
<1>4. NewOf(ad, M) \subseteq M
  BY DEF NewOf
<1>5. ASSUME NEW p
      PROVE  /\ InCell(am, M, p) = InCell(ad, M, p)
             /\ InCell(am, NewOf(am, M), p) = InCell(ad, NewOf(ad, M), p)
             /\ InTable(am, M, p) = InTable(ad, M, p)
  <2> HIDE DEF NewOf
  <2> QED  BY <1>2, <1>3, <1>4 DEF InCell, InTable
<1>6. ASSUME NEW p
      PROVE  UNION {HashesIn(am, o) : o \in InTable(am, M, p)} =
               UNION {HashesIn(ad, o) : o \in InTable(ad, M, p)}
  <2>1. InTable(ad, M, p) \subseteq M
    BY DEF InTable
  <2>2. {HashesIn(am, o) : o \in InTable(ad, M, p)} = {HashesIn(ad, o) : o \in InTable(ad, M, p)}
    BY <1>2, <2>1
  <2> QED  BY <1>5, <2>2
<1>7. CellsIn(am, M, Len(ad) + 1) = {} /\ CellsIn(am, NewOf(am, M), Len(ad) + 1) = {}
  BY <1>1, <1>3, <1>4 DEF CellsIn
<1>8. ASSUME NEW p \in Pairs
      PROVE  /\ tot[p] = Cardinality(InCell(am, M, p))
             /\ prog[p] = Cardinality(ProgramsOf(InCell(am, M, p)))
             /\ ctx[p] = Cardinality(ProgramsOf(InCell(am, NewOf(am, M), p)))
             /\ sn[p] = UNION {HashesIn(am, o) : o \in InTable(am, M, p)}
  BY <1>5, <1>6 DEF Counted
<1> QED  BY <1>7, <1>8 DEF Counted, am

\* The programs of the list are those added, and the lists of matches sorted.
LEMMA CountInit == Init => CountInv
<1> SUFFICES ASSUME Init PROVE CountInv
  OBVIOUS
<1>1. Scanning
  BY DEF Init, Scanning
<1>2. Met = {}
  BY DEF Init, Met, AllOccurrences
<1>3. IsFiniteSet(Met)
  BY <1>2, FS_EmptySet
<1>4. \A p : InCell(added, Met, p) = {} /\ InTable(added, Met, p) = {}
  BY <1>2 DEF InCell, InTable
<1>5. NewOf(added, Met) = {}
  BY <1>2 DEF NewOf
<1>6. \A p : InCell(added, NewOf(added, Met), p) = {}
  BY <1>5 DEF InCell
<1>7. Cardinality({}) = 0 /\ ProgramsOf({}) = {}
  BY FS_EmptySet DEF ProgramsOf
<1>8. CellsIn(added, Met, Len(added)) = {} /\ CellsIn(added, NewOf(added, Met), Len(added)) = {}
  BY <1>2, <1>5 DEF CellsIn
<1>9. ASSUME NEW p \in Pairs
      PROVE  /\ totals[p] = Cardinality(InCell(added, Met, p))
             /\ programs[p] = Cardinality(ProgramsOf(InCell(added, Met, p)))
             /\ contexts[p] = Cardinality(ProgramsOf(InCell(added, NewOf(added, Met), p)))
             /\ seen[p] = UNION {HashesIn(added, o) : o \in InTable(added, Met, p)}
  <2>1. totals[p] = 0 /\ programs[p] = 0 /\ contexts[p] = 0 /\ seen[p] = {}
    BY DEF Init
  <2>2. UNION {HashesIn(added, o) : o \in InTable(added, Met, p)} = {}
    BY <1>4
  <2> QED  BY <1>4, <1>6, <1>7, <2>1, <2>2
<1>10. program_added = {} /\ context_added = {}
  BY DEF Init
<1> QED  BY <1>1, <1>3, <1>8, <1>9, <1>10 DEF CountInv, TablesCounted, Counted

LEMMA ScanningStep ==
  ASSUME TypeOK, Scanning, [Next]_vars
  PROVE  Scanning'
<1>1. ASSUME NEW program \in Programs, AddProgram(program) PROVE Scanning'
  <2>1. added \in Seq(Programs)
    BY DEF TypeOK
  <2>2. /\ Len(Append(added, program)) = Len(added) + 1
        /\ Append(added, program)[Len(added) + 1] = program
    BY <2>1
  <2>3. Append(added, program) # <<>>
    BY <2>1, <2>2
  <2> QED  BY <1>1, <2>2, <2>3 DEF Scanning, AddProgram
<1>2. ASSUME CountStep \/ SameExpression \/ NextMatch \/ Return \/ UNCHANGED vars
      PROVE  Scanning'
  <2>1. /\ positions' = positions /\ added' = added
        /\ \/ pc' = pc /\ pc = "scan"
           \/ pc' = "idle" /\ pc = "scan" /\ it0' = it0 /\ it0 > Len(positions)
           \/ pc' = pc /\ it0' = it0
    BY <1>2 DEF CountStep, SameMatch, DifferentMatches, SameExpression, InnerLoop, NextMatch,
                Return, vars
  <2> QED  BY <2>1 DEF Scanning
<1> QED  BY <1>1, <1>2 DEF Next, CountStep

\* A program is added when all occurrences of those before have been met.
LEMMA AddProgramCounts ==
  ASSUME TypeOK, CountInv, NEW program \in Programs, AddProgram(program), Alone(added')
  PROVE  TablesCounted'
<1>1. /\ added \in Seq(Programs) /\ Len(added) \in Nat
      /\ added' = Append(added, program) /\ Len(added') = Len(added) + 1
      /\ \A k \in 1..Len(added) : added'[k] = added[k]
      /\ added' \in Seq(Programs)
      /\ it0' = 1 /\ it1' = 1 /\ pc = "idle"
  BY DEF TypeOK, AddProgram
<1>2. Alone(added)
  <2>1. DOMAIN added = 1..Len(added) /\ DOMAIN added' = 1..(Len(added) + 1)
    BY <1>1
  <2>2. \A k \in DOMAIN added : k \in DOMAIN added'
    BY <1>1, <2>1
  <2> QED  BY <1>1, <2>1, <2>2 DEF Alone
<1>3. Met = AllOccurrences(added)
  <2> SUFFICES ASSUME NEW o \in AllOccurrences(added) PROVE o \in Met
    BY DEF Met
  <2>1. o[1] \in 1..Len(added) /\ o[2] \in 1..Len(added[o[1]]) /\ o[2] \in Nat /\ o[1] \in Nat
    BY <1>1, OccurrenceFacts
  <2>2. CASE o[1] = Len(added)
    <3>1. positions = added[Len(added)] /\ it0 > Len(positions)
      BY <1>1, <2>1, <2>2 DEF CountInv, Scanning
    <3>2. it0 \in Nat /\ Len(positions) \in Nat
      BY DEF TypeOK
    <3>3. o[2] < it0
      BY <2>1, <2>2, <3>1, <3>2
    <3> QED  BY <2>2, <3>3 DEF Met
  <2>3. CASE o[1] # Len(added)
    <3>1. o[1] < Len(added)
      BY <1>1, <2>1, <2>3
    <3> QED  BY <3>1 DEF Met
  <2> QED  BY <2>2, <2>3
<1>4. Met' = AllOccurrences(added)
  <2>1. ASSUME NEW o \in AllOccurrences(added') PROVE o \in Met' <=> o[1] <= Len(added)
    <3>1. /\ o[1] \in 1..(Len(added) + 1) /\ o[1] \in Nat /\ o[2] \in Nat /\ o[3] \in Nat
          /\ o[2] >= 1 /\ o[3] <= o[2]
      <4>1. /\ o[1] \in 1..Len(added') /\ o[1] \in Nat /\ o[2] \in Nat /\ o[3] \in Nat
            /\ o[3] <= o[2] /\ o[3] \in 1..Len(added'[o[1]])
        BY <1>1, OccurrenceFacts
      <4> QED  BY <1>1, <4>1
    <3>2. o \in Met' <=> \/ o[1] < Len(added) + 1
                         \/ o[1] = Len(added) + 1 /\ (o[2] < 1 \/ (o[2] = 1 /\ o[3] > 1))
      BY <1>1, <2>1 DEF Met
    <3> QED  BY <1>1, <3>1, <3>2
  <2>2. Met' \subseteq AllOccurrences(added')
    BY DEF Met
  <2>3. \A o : o \in AllOccurrences(added) <=> o \in AllOccurrences(added') /\ o[1] <= Len(added)
    BY <1>1, OccurrencesOfMore
  <2> QED  BY <2>1, <2>2, <2>3
<1>5. TablesCounted
  BY <1>2 DEF CountInv
<1>6. Counted(Append(added, program), Met, Len(added) + 1, totals, programs, {},
              contexts, {}, seen)
  BY <1>1, <1>3, <1>5, CountedOfMore DEF TablesCounted
<1>7. UNCHANGED <<totals, programs, contexts, seen>> /\ program_added' = {} /\ context_added' = {}
  BY DEF AddProgram
<1> QED  BY <1>1, <1>3, <1>4, <1>5, <1>6, <1>7 DEF TablesCounted

\* Where the loops stand: in the last of the programs added.
LEMMA ScanFacts ==
  ASSUME TypeOK, Scanning, pc = "scan"
  PROVE  /\ added \in Seq(Programs) /\ Len(added) \in Nat /\ Len(added) \in DOMAIN added
         /\ positions = added[Len(added)] /\ DOMAIN positions = Matched
         /\ Len(positions) \in Nat /\ it0 \in Nat /\ it1 \in Nat /\ it1 <= it0
<1>1. added \in Seq(Programs) /\ added # <<>> /\ positions = added[Len(added)]
  BY DEF TypeOK, Scanning
<1>2. Len(added) \in Nat /\ Len(added) \in DOMAIN added
  BY <1>1, EmptySeq
<1>3. positions \in Seq(Matches) /\ it0 \in 1..(Len(positions) + 1) /\ it1 \in 0..it0
  BY DEF TypeOK
<1>4. Len(positions) \in Nat
  BY <1>3
<1> QED  BY <1>1, <1>2, <1>3, <1>4 DEF Matched

At == <<Len(added), it0, it1>>

\* One step of the inner loop meets the pair it is at, if that is an occurrence.
LEMMA InnerLoopMeets ==
  ASSUME TypeOK, Scanning, InnerLoop
  PROVE  /\ Met' = Met \cup ({At} \cap AllOccurrences(added))
         /\ At \notin Met
         /\ \A u \in Met : Before(u, At) /\ ~Before(At, u)
         /\ ~Before(At, At)
<1>0. /\ it0 \in Matched /\ it1 \in Matched /\ it1 <= it0
      /\ it0 \in Nat /\ it1 \in Nat /\ it1' = it1 - 1
      /\ it0' = it0 /\ added' = added /\ pc = "scan"
  BY InnerLoopFacts
<1>1. added \in Seq(Programs) /\ Len(added) \in Nat
  BY <1>0, ScanFacts
<1>2. At[1] = Len(added) /\ At[2] = it0 /\ At[3] = it1
  BY DEF At
<1>3. ASSUME NEW o \in AllOccurrences(added)
      PROVE  o \in Met' <=> o \in Met \/ o = At
  <2>1. /\ o[1] \in Nat /\ o[2] \in Nat /\ o[3] \in Nat /\ o = <<o[1], o[2], o[3]>>
    BY <1>1, OccurrenceFacts
  <2>2. o \in Met' <=> \/ o[1] < Len(added)
                       \/ o[1] = Len(added) /\ (o[2] < it0 \/ (o[2] = it0 /\ o[3] > it1 - 1))
    BY <1>0, <1>3 DEF Met
  <2>3. o \in Met <=> \/ o[1] < Len(added)
                      \/ o[1] = Len(added) /\ (o[2] < it0 \/ (o[2] = it0 /\ o[3] > it1))
    BY <1>3 DEF Met
  <2>4. o = At <=> o[1] = Len(added) /\ o[2] = it0 /\ o[3] = it1
    BY <1>2, <2>1 DEF At
  <2> QED  BY <1>0, <1>1, <2>1, <2>2, <2>3, <2>4
<1>4. Met \subseteq AllOccurrences(added) /\ Met' \subseteq AllOccurrences(added)
  BY <1>0 DEF Met
<1>5. At \notin Met
  <2>1. ~(it1 > it1) /\ ~(it0 < it0) /\ ~(Len(added) < Len(added))
    BY <1>0, <1>1
  <2> QED  BY <1>2, <2>1 DEF Met
<1>6. ASSUME NEW u \in Met PROVE Before(u, At) /\ ~Before(At, u)
  <2>1. u[1] \in Nat /\ u[2] \in Nat /\ u[3] \in Nat
    BY <1>1, <1>4, OccurrenceFacts
  <2>2. \/ u[1] < Len(added)
        \/ u[1] = Len(added) /\ (u[2] < it0 \/ (u[2] = it0 /\ u[3] > it1))
    BY DEF Met
  <2> QED  BY <1>0, <1>1, <1>2, <2>1, <2>2 DEF Before
<1>7. ~Before(At, At)
  BY <1>0, <1>1, <1>2 DEF Before
<1> QED  BY <1>3, <1>4, <1>5, <1>6, <1>7

LEMMA AloneAt ==
  ASSUME TypeOK, Scanning, Alone(added), InnerLoop
  PROVE  /\ At[1] = Len(added) /\ At[2] = it0 /\ At[3] = it1
         /\ FirstIn(added, At) = positions[it1] /\ SecondIn(added, At) = positions[it0]
         /\ SamePosition <=> it0 = it1
<1>0. it0 \in Matched /\ it1 \in Matched /\ pc = "scan"
  BY InnerLoopFacts
<1>1. /\ Len(added) \in DOMAIN added /\ positions = added[Len(added)]
      /\ DOMAIN positions = Matched
  BY <1>0, ScanFacts
<1>2. OneMatchPerPosition(positions)
  BY <1>1 DEF Alone
<1>3. SamePosition <=> it0 = it1
  BY <1>0, <1>1, <1>2 DEF OneMatchPerPosition, SamePosition
<1>4. At[1] = Len(added) /\ At[2] = it0 /\ At[3] = it1
  BY DEF At
<1> QED  BY <1>1, <1>3, <1>4 DEF FirstIn, SecondIn

\* A pair counted is an occurrence, counted where it belongs.
LEMMA AtIsCounted ==
  ASSUME TypeOK, Scanning, Alone(added), CountStep
  PROVE  /\ At \in AllOccurrences(added)
         /\ CellOf(added, At) = Cell /\ Key = Cell /\ TableOf(added, At) = Table
         /\ HashesIn(added, At) = Hashes
<1>0. /\ InnerLoop /\ it0 \in Matched /\ it1 \in Matched /\ it1 <= it0 /\ pc = "scan"
      /\ e0 \in Int /\ e1 \in Int /\ (~SamePosition => e0 # e1)
  BY CountEffect, InnerLoopFacts
<1>1. /\ Len(added) \in DOMAIN added /\ positions = added[Len(added)]
      /\ DOMAIN positions = Matched
  BY <1>0, ScanFacts
<1>2. /\ At[1] = Len(added) /\ At[2] = it0 /\ At[3] = it1
      /\ FirstIn(added, At) = positions[it1] /\ SecondIn(added, At) = positions[it0]
      /\ SamePosition <=> it0 = it1
  BY <1>0, AloneAt
<1>3. At \in AllOccurrences(added)
  <2>1. positions[it0].pos - positions[it1].pos <= Distance
    BY <1>0 DEF InnerLoop, InReach
  <2>2. positions[it0].expr # positions[it1].expr \/ it0 = it1
    BY <1>0, <1>2 DEF e0, e1
  <2> QED  BY <1>0, <1>1, <2>1, <2>2, IsOccurrence DEF At
<1>4. CellOf(added, At) = IF e1 <= e0 THEN <<e1, e0>> ELSE <<e0, e1>>
  BY <1>2 DEF CellOf, Entry, e0, e1
<1>5. CellOf(added, At) = Cell /\ Key = Cell /\ TableOf(added, At) = Table
  <2>1. CASE SamePosition
    <3>1. e0 = e1 /\ e0 <= e0
      BY <1>0, <1>2, <2>1 DEF e0, e1
    <3> QED  BY <1>2, <1>4, <2>1, <3>1 DEF Cell, Key, Table, TableOf, e0
  <2>2. CASE ~SamePosition
    <3>1. e0 < e1 <=> ~(e1 <= e0)
      BY <1>0
    <3>2. CellOf(added, At) = PairCell
      BY <1>0, <1>4, <2>2, <3>1 DEF PairCell
    <3> QED  BY <1>2, <2>2, <3>2 DEF Cell, Key, Table, TableOf, e0, e1
  <2> QED  BY <2>1, <2>2
<1>6. HashesIn(added, At) = Hashes
  BY <1>2 DEF HashesIn, Hashes
<1> QED  BY <1>3, <1>5, <1>6

LEMMA CountStepCounts ==
  ASSUME TypeOK, CountInv, CountStep, Alone(added')
  PROVE  TablesCounted'
<1>0. InnerLoop /\ added' = added
  BY CountEffect, InnerLoopFacts
<1>1. Alone(added) /\ Scanning
  BY <1>0 DEF CountInv
<1>2. /\ At \in AllOccurrences(added)
      /\ CellOf(added, At) = Cell /\ Key = Cell /\ TableOf(added, At) = Table
      /\ HashesIn(added, At) = Hashes
  BY <1>1, AtIsCounted
<1>3. /\ Met' = Met \cup {At} /\ At \notin Met
      /\ \A u \in Met : Before(u, At) /\ ~Before(At, u)
      /\ ~Before(At, At)
  <2>1. {At} \cap AllOccurrences(added) = {At}
    BY <1>2
  <2> QED  BY <1>0, <1>1, <2>1, InnerLoopMeets
<1>4. TablesCounted
  BY <1>1 DEF CountInv
<1>5. At[1] = Len(added)
  BY DEF At
<1> DEFINE isNew == Key \notin context_added /\ seen[Table] \cap Hashes = {}
<1>6. /\ Cell \in Pairs /\ Table \in Pairs
      /\ \A p \in Pairs :
              /\ totals'[p] = IF p = Cell THEN totals[p] + 1 ELSE totals[p]
              /\ programs'[p] = IF p = Cell /\ Cell \notin program_added
                               THEN programs[p] + 1 ELSE programs[p]
              /\ contexts'[p] = IF p = Cell /\ isNew THEN contexts[p] + 1 ELSE contexts[p]
              /\ seen'[p] = IF p = Table THEN seen[p] \cup Hashes ELSE seen[p]
      /\ program_added' = program_added \cup {Cell}
      /\ context_added' = IF isNew THEN context_added \cup {Cell} ELSE context_added
  <2>1. /\ Cell \in Pairs /\ Table \in Pairs
        /\ program_added' = program_added \cup {Key}
        /\ context_added' = IF isNew THEN context_added \cup {Key} ELSE context_added
    BY CountEffect
  <2>2. ASSUME NEW p \in Pairs
        PROVE  /\ totals'[p] = IF p = Cell THEN totals[p] + 1 ELSE totals[p]
               /\ programs'[p] = IF p = Cell /\ Key \notin program_added
                                THEN programs[p] + 1 ELSE programs[p]
               /\ contexts'[p] = IF p = Cell /\ isNew THEN contexts[p] + 1 ELSE contexts[p]
               /\ seen'[p] = IF p = Table THEN seen[p] \cup Hashes ELSE seen[p]
    BY CountEffect
  <2> HIDE DEF isNew
  <2> QED  BY <1>2, <2>1, <2>2
<1>7. isNew <=> Cell \notin context_added /\ seen[Table] \cap Hashes = {}
  BY <1>2
<1>8. isNew \in BOOLEAN
  OBVIOUS
<1> HIDE DEF isNew
<1>9. Counted(added, Met \cup {At}, Len(added), totals', programs', program_added',
              contexts', context_added', seen')
  <2> DEFINE cell == CellOf(added, At)
             table == TableOf(added, At)
             hashes == HashesIn(added, At)
  <2>1. /\ cell \in Pairs /\ table \in Pairs
        /\ program_added' = program_added \cup {cell}
        /\ context_added' = IF isNew THEN context_added \cup {cell} ELSE context_added
        /\ isNew <=> cell \notin context_added /\ seen[table] \cap hashes = {}
    BY <1>2, <1>6, <1>7
  <2>2. \A p \in Pairs :
          /\ totals'[p] = IF p = cell THEN totals[p] + 1 ELSE totals[p]
          /\ programs'[p] = IF p = cell /\ cell \notin program_added
                           THEN programs[p] + 1 ELSE programs[p]
          /\ contexts'[p] = IF p = cell /\ isNew THEN contexts[p] + 1 ELSE contexts[p]
          /\ seen'[p] = IF p = table THEN seen[p] \cup hashes ELSE seen[p]
    BY <1>2, <1>6
  <2>3. /\ IsFiniteSet(Met)
        /\ Counted(added, Met, Len(added), totals, programs, program_added,
                   contexts, context_added, seen)
    BY <1>4 DEF TablesCounted
  <2> QED  BY ONLY <1>3, <1>5, <1>8, <2>1, <2>2, <2>3, CountOneMore
<1>10. IsFiniteSet(Met \cup {At})
  BY <1>4, FS_AddElement DEF TablesCounted
<1> QED  BY <1>0, <1>3, <1>9, <1>10 DEF TablesCounted

\* The other steps of the loops meet nothing.
LEMMA SameExpressionMeets ==
  ASSUME TypeOK, Scanning, Alone(added), SameExpression
  PROVE  Met' = Met
<1>0. InnerLoop /\ positions[it0].pos # positions[it1].pos /\ e0 = e1
  BY DEF SameExpression
<1>1. /\ At[1] = Len(added) /\ At[2] = it0 /\ At[3] = it1
      /\ FirstIn(added, At) = positions[it1] /\ SecondIn(added, At) = positions[it0]
      /\ SamePosition <=> it0 = it1
  BY <1>0, AloneAt
<1>2. At \notin AllOccurrences(added)
  <2>1. SecondIn(added, At).expr = FirstIn(added, At).expr /\ At[2] # At[3]
    BY <1>0, <1>1 DEF e0, e1, SamePosition
  <2> QED  BY <2>1 DEF AllOccurrences, FirstIn, SecondIn
<1>3. Met' = Met \cup ({At} \cap AllOccurrences(added))
  BY <1>0, InnerLoopMeets
<1> QED  BY <1>2, <1>3

LEMMA NextMatchMeets ==
  ASSUME TypeOK, Scanning, Ordered, NextMatch
  PROVE  Met' = Met
<1>0. /\ pc = "scan" /\ it0 <= Len(positions) /\ ~InReach
      /\ it0' = it0 + 1 /\ it1' = it0 + 1 /\ added' = added
  BY DEF NextMatch
<1>1. /\ added \in Seq(Programs) /\ Len(added) \in Nat
      /\ positions = added[Len(added)] /\ DOMAIN positions = Matched
      /\ Len(positions) \in Nat /\ it0 \in Nat /\ it1 \in Nat /\ it1 <= it0 /\ it0 \in Matched
  <2>1. it0 \in 1..(Len(positions) + 1)
    BY DEF TypeOK
  <2> QED  BY <1>0, <2>1, ScanFacts DEF Matched
<1> SUFFICES ASSUME NEW o \in AllOccurrences(added) PROVE o \in Met' <=> o \in Met
  BY <1>0 DEF Met
<1>2. /\ o[1] \in Nat /\ o[2] \in Nat /\ o[3] \in Nat /\ o[3] <= o[2]
      /\ o[3] \in 1..Len(added[o[1]])
      /\ SecondIn(added, o).pos - FirstIn(added, o).pos <= Distance
  BY <1>1, OccurrenceFacts
<1>3. o \in Met' <=> \/ o[1] < Len(added)
                     \/ /\ o[1] = Len(added)
                        /\ o[2] < it0 + 1 \/ (o[2] = it0 + 1 /\ o[3] > it0 + 1)
  BY <1>0 DEF Met
<1>4. o \in Met <=> \/ o[1] < Len(added)
                    \/ o[1] = Len(added) /\ (o[2] < it0 \/ (o[2] = it0 /\ o[3] > it1))
  BY DEF Met
<1>5. ASSUME o[1] = Len(added), o[2] = it0, o[3] <= it1 PROVE FALSE
  <2>1. o[3] \in Matched /\ it1 \in Matched /\ it1 >= 1
    BY <1>1, <1>2, <1>5 DEF Matched
  <2>2. positions[it0].pos - positions[o[3]].pos <= Distance
    BY <1>1, <1>2, <1>5 DEF FirstIn, SecondIn
  <2>3. ~(positions[it0].pos - positions[it1].pos <= Distance)
    BY <1>0, <2>1 DEF InReach
  <2>4. /\ positions[it0].pos \in Nat /\ positions[it1].pos \in Nat
        /\ positions[o[3]].pos \in Nat
    BY <1>1, <2>1, MatchFacts
  <2>5. positions[o[3]].pos <= positions[it1].pos
    <3>1. CASE o[3] = it1
      BY <2>4, <3>1
    <3>2. CASE o[3] < it1
      <4>1. Precedes(positions[o[3]], positions[it1])
        BY <2>1, <3>2 DEF Ordered
      <4> QED  BY <2>4, <4>1 DEF Precedes
    <3> QED  BY <1>1, <1>2, <1>5, <3>1, <3>2
  <2> QED  BY <2>2, <2>3, <2>4, <2>5, DistanceAssumption
<1> QED  BY <1>1, <1>2, <1>3, <1>4, <1>5

LEMMA CountInvStep ==
  ASSUME IInv, CountInv, [Next]_vars
  PROVE  CountInv'
<1>0. TypeOK /\ Ordered /\ Scanning
  BY DEF IInv, Bookkeeping, CountInv
<1>1. Scanning'
  BY <1>0, ScanningStep
<1> SUFFICES ASSUME Alone(added')
             PROVE  TablesCounted'
  BY <1>1 DEF CountInv
<1>2. ASSUME NEW program \in Programs, AddProgram(program)
      PROVE  TablesCounted'
  BY <1>0, <1>2, AddProgramCounts
<1>3. CASE CountStep
  BY <1>0, <1>3, CountStepCounts
<1>4. CASE SameExpression \/ NextMatch \/ Return \/ UNCHANGED vars
  <2>1. UNCHANGED <<totals, programs, program_added, contexts, context_added, seen, added>>
    BY <1>4 DEF SameExpression, InnerLoop, NextMatch, Return, vars, counts
  <2>2. Met' = Met
    <3>1. CASE SameExpression
      BY <1>0, <2>1, <3>1, SameExpressionMeets
    <3>2. CASE NextMatch
      BY <1>0, <3>2, NextMatchMeets
    <3>3. CASE Return \/ UNCHANGED vars
      BY <3>3 DEF Return, vars, Met
    <3> QED  BY <1>4, <3>1, <3>2, <3>3
  <2>3. TablesCounted
    BY <2>1 DEF CountInv
  <2> QED  BY <2>1, <2>2, <2>3 DEF TablesCounted
<1> QED  BY <1>2, <1>3, <1>4 DEF Next, CountStep

\* Between any two steps of add_program, what the tables and the counts hold is
\* that of the occurrences the iterators have met so far.
THEOREM CountsAreOfOccurrences == Spec => [](IInv /\ CountInv)
<1>1. Init => CountInv
  BY CountInit
<1>2. IInv /\ CountInv /\ [Next]_vars => CountInv'
  BY CountInvStep
<1> QED  BY <1>1, <1>2, BookkeepingCorrect, PTL DEF Spec

LEMMA CommonHash ==
  ASSUME NEW m, NEW n
  PROVE  HashesOf(m) \cap HashesOf(n) # {} <=> m.left = n.left \/ m.right = n.right
<1>1. ASSUME NEW h \in HashesOf(m) \cap HashesOf(n)
      PROVE  m.left = n.left \/ m.right = n.right
  <2>1. h = <<"left", m.left>> \/ h = <<"right", m.right>>
    BY DEF HashesOf
  <2>2. h = <<"left", n.left>> \/ h = <<"right", n.right>>
    BY DEF HashesOf
  <2> QED  BY <2>1, <2>2
<1>2. CASE m.left = n.left
  BY <1>2 DEF HashesOf
<1>3. CASE m.right = n.right
  BY <1>3 DEF HashesOf
<1> QED  BY <1>1, <1>2, <1>3

LEMMA PairHashIs ==
  ASSUME NEW m, NEW n, NEW h \in PairHashesOf(m, n)
  PROVE  \/ h[1] = "left left" /\ h[2] = m.left /\ h[3] = n.left
         \/ h[1] = "left right" /\ h[2] = m.left /\ h[3] = n.right
         \/ h[1] = "right left" /\ h[2] = m.right /\ h[3] = n.left
         \/ h[1] = "right right" /\ h[2] = m.right /\ h[3] = n.right
<1>1. \/ h = <<"left left", m.left, n.left>> \/ h = <<"left right", m.left, n.right>>
      \/ h = <<"right left", m.right, n.left>> \/ h = <<"right right", m.right, n.right>>
  BY DEF PairHashesOf
<1>2. CASE h = <<"left left", m.left, n.left>>
  BY <1>2
<1>3. CASE h = <<"left right", m.left, n.right>>
  BY <1>3
<1>4. CASE h = <<"right left", m.right, n.left>>
  BY <1>4
<1>5. CASE h = <<"right right", m.right, n.right>>
  BY <1>5
<1> QED  BY <1>1, <1>2, <1>3, <1>4, <1>5

LEMMA CommonPairHash ==
  ASSUME NEW m, NEW n, NEW x, NEW y
  PROVE  PairHashesOf(m, n) \cap PairHashesOf(x, y) # {} <=>
           /\ m.left = x.left \/ m.right = x.right
           /\ n.left = y.left \/ n.right = y.right
<1>1. ASSUME NEW h \in PairHashesOf(m, n) \cap PairHashesOf(x, y)
      PROVE  /\ m.left = x.left \/ m.right = x.right
             /\ n.left = y.left \/ n.right = y.right
  <2>1. \/ h[1] = "left left" /\ h[2] = m.left /\ h[3] = n.left
        \/ h[1] = "left right" /\ h[2] = m.left /\ h[3] = n.right
        \/ h[1] = "right left" /\ h[2] = m.right /\ h[3] = n.left
        \/ h[1] = "right right" /\ h[2] = m.right /\ h[3] = n.right
    BY PairHashIs
  <2>2. \/ h[1] = "left left" /\ h[2] = x.left /\ h[3] = y.left
        \/ h[1] = "left right" /\ h[2] = x.left /\ h[3] = y.right
        \/ h[1] = "right left" /\ h[2] = x.right /\ h[3] = y.left
        \/ h[1] = "right right" /\ h[2] = x.right /\ h[3] = y.right
    BY PairHashIs
  <2> QED  BY <2>1, <2>2
<1>2. ASSUME m.left = x.left, n.left = y.left
      PROVE  <<"left left", m.left, n.left>> \in PairHashesOf(m, n) \cap PairHashesOf(x, y)
  BY <1>2 DEF PairHashesOf
<1>3. ASSUME m.left = x.left, n.right = y.right
      PROVE  <<"left right", m.left, n.right>> \in PairHashesOf(m, n) \cap PairHashesOf(x, y)
  BY <1>3 DEF PairHashesOf
<1>4. ASSUME m.right = x.right, n.left = y.left
      PROVE  <<"right left", m.right, n.left>> \in PairHashesOf(m, n) \cap PairHashesOf(x, y)
  BY <1>4 DEF PairHashesOf
<1>5. ASSUME m.right = x.right, n.right = y.right
      PROVE  <<"right right", m.right, n.right>> \in PairHashesOf(m, n) \cap PairHashesOf(x, y)
  BY <1>5 DEF PairHashesOf
<1> QED  BY <1>1, <1>2, <1>3, <1>4, <1>5

LEMMA EntryIs ==
  ASSUME NEW x \in Int, NEW y \in Int, NEW u \in Int, NEW v \in Int, u <= v
  PROVE  Entry(x, y) = <<u, v>> <=> {y, x} = {u, v}
<1>1. {y, x} = {u, v} <=> (x = u /\ y = v) \/ (x = v /\ y = u)
  OBVIOUS
<1>2. Entry(x, y) = <<u, v>> <=> IF x <= y THEN x = u /\ y = v ELSE y = u /\ x = v
  BY DEF Entry
<1> QED  BY <1>1, <1>2

LEMMA EntryDetermines ==
  ASSUME NEW x \in Int, NEW y \in Int, NEW u \in Int, Entry(x, y) = Entry(x, u)
  PROVE  y = u
<1>1. (IF x <= y THEN <<x, y>> ELSE <<y, x>>) = (IF x <= u THEN <<x, u>> ELSE <<u, x>>)
  BY DEF Entry
<1>2. CASE x <= y /\ x <= u
  BY <1>1, <1>2
<1>3. CASE x <= y /\ ~(x <= u)
  <2>1. <<x, y>> = <<u, x>>
    BY <1>1, <1>3
  <2> QED  BY <2>1
<1>4. CASE ~(x <= y) /\ x <= u
  <2>1. <<y, x>> = <<x, u>>
    BY <1>1, <1>4
  <2> QED  BY <2>1
<1>5. CASE ~(x <= y) /\ ~(x <= u)
  <2>1. <<y, x>> = <<u, x>>
    BY <1>1, <1>5
  <2> QED  BY <2>1
<1> QED  BY <1>2, <1>3, <1>4, <1>5

\* Two occurrences of a pair are alike when they share a hash in one table.
LEMMA AlikeByHashes ==
  ASSUME NEW ad \in Seq(Programs), NEW o \in AllOccurrences(ad), NEW u \in AllOccurrences(ad),
         ad = added, CellOf(ad, o) = CellOf(ad, u)
  PROVE  SameContext(o, u) <=>
           TableOf(ad, o) = TableOf(ad, u) /\ HashesIn(ad, u) \cap HashesIn(ad, o) # {}
<1> DEFINE fo == FirstIn(ad, o)  so == SecondIn(ad, o)
           fu == FirstIn(ad, u)  su == SecondIn(ad, u)
           Alike(x, y) == x.left = y.left \/ x.right = y.right
<1>1. SameContext(o, u) <=> fo.expr = fu.expr /\ Alike(fo, fu) /\ Alike(so, su)
  BY DEF SameContext, FirstIn, SecondIn
<1>2. /\ fo \in Matches /\ so \in Matches /\ fu \in Matches /\ su \in Matches
      /\ so.expr # fo.expr \/ o[2] = o[3]
      /\ su.expr # fu.expr \/ u[2] = u[3]
  BY OccurrenceFacts
<1>3. (o[2] = o[3] => so = fo) /\ (u[2] = u[3] => su = fu)
  BY DEF FirstIn, SecondIn
<1>4. fo.expr \in Int /\ so.expr \in Int /\ fu.expr \in Int /\ su.expr \in Int
  BY <1>2, ExpressionsAssumption DEF Matches
<1>5. CellOf(ad, o) = Entry(fo.expr, so.expr) /\ CellOf(ad, u) = Entry(fu.expr, su.expr)
  BY DEF CellOf
<1>6. TableOf(ad, o) = <<fo.expr, so.expr>> /\ TableOf(ad, u) = <<fu.expr, su.expr>>
  BY DEF TableOf
<1>7. /\ HashesIn(ad, o) = IF o[2] = o[3] THEN HashesOf(so) ELSE PairHashesOf(fo, so)
      /\ HashesIn(ad, u) = IF u[2] = u[3] THEN HashesOf(su) ELSE PairHashesOf(fu, su)
  BY DEF HashesIn
<1> HIDE DEF fo, so, fu, su
<1>8. TableOf(ad, o) = TableOf(ad, u) <=> fo.expr = fu.expr
  <2>1. ASSUME fo.expr = fu.expr PROVE so.expr = su.expr
    <3>1. Entry(fo.expr, so.expr) = Entry(fo.expr, su.expr)
      BY <1>5, <2>1
    <3> QED  BY <1>4, <3>1, EntryDetermines
  <2> QED  BY <1>6, <2>1
<1>9. ASSUME fo.expr = fu.expr PROVE o[2] = o[3] <=> u[2] = u[3]
  <2>1. so.expr = su.expr
    BY <1>6, <1>8, <1>9
  <2> QED  BY <1>2, <1>3, <1>9, <2>1
<1>10. ASSUME o[2] = o[3], u[2] = u[3]
       PROVE  HashesIn(ad, u) \cap HashesIn(ad, o) # {} <=> Alike(fo, fu) /\ Alike(so, su)
  BY <1>3, <1>7, <1>10, CommonHash
<1>11. ASSUME o[2] # o[3], u[2] # u[3]
       PROVE  HashesIn(ad, u) \cap HashesIn(ad, o) # {} <=> Alike(fo, fu) /\ Alike(so, su)
  BY <1>7, <1>11, CommonPairHash
<1> QED  BY <1>1, <1>8, <1>9, <1>10, <1>11

\* For any expressions, windows, lists of matches and distance: when
\* add_program returns, every entry counts the occurrences of its pair, the
\* programs with one, and the programs with one in surroundings not met before.
THEOREM CountsMeanOccurrences == Spec => []CountsMeanWhatTheySay
<1>1. IInv /\ CountInv => CountsMeanWhatTheySay
  <2> SUFFICES ASSUME IInv, CountInv, pc = "scan", it0 > Len(positions), Alone(added),
                      NEW e \in Expressions, NEW f \in Expressions, e <= f
               PROVE  LET all == Occurrences(e, f)
                          new == {o \in all : \A u \in all : Before(u, o) => ~SameContext(o, u)}
                      IN  /\ totals[<<e, f>>] = Cardinality(all)
                          /\ programs[<<e, f>>] = Cardinality({o[1] : o \in all})
                          /\ contexts[<<e, f>>] = Cardinality({o[1] : o \in new})
    BY DEF CountsMeanWhatTheySay, Alone
  <2> DEFINE p == <<e, f>>
             all == Occurrences(e, f)
             new == {o \in all : \A u \in all : Before(u, o) => ~SameContext(o, u)}
  <2>0. /\ TypeOK /\ Scanning /\ added \in Seq(Programs) /\ Len(added) \in Nat
        /\ positions = added[Len(added)] /\ Len(positions) \in Nat /\ it0 \in Nat
    BY ScanFacts DEF IInv, CountInv
  <2>1. Met = AllOccurrences(added)
    <3> SUFFICES ASSUME NEW o \in AllOccurrences(added) PROVE o \in Met
      BY DEF Met
    <3>1. o[1] \in 1..Len(added) /\ o[1] \in Nat /\ o[2] \in 1..Len(added[o[1]]) /\ o[2] \in Nat
      BY <2>0, OccurrenceFacts
    <3>2. o[1] < Len(added) \/ (o[1] = Len(added) /\ o[2] < it0)
      BY <2>0, <3>1
    <3> QED  BY <3>2 DEF Met
  <2>2. /\ totals[p] = Cardinality(InCell(added, Met, p))
        /\ programs[p] = Cardinality(ProgramsOf(InCell(added, Met, p)))
        /\ contexts[p] = Cardinality(ProgramsOf(InCell(added, NewOf(added, Met), p)))
    BY DEF CountInv, TablesCounted, Counted, Pairs
  <2>3. all = InCell(added, Met, p)
    <3>1. ASSUME NEW o
          PROVE  o \in all <=> o \in AllOccurrences(added) /\ CellOf(added, o) = p
      <4>1. o \in all <=>
              /\ o \in UNION {{n} \X (DOMAIN added[n]) \X (DOMAIN added[n]) : n \in DOMAIN added}
              /\ o[3] <= o[2]
              /\ SecondIn(added, o).pos - FirstIn(added, o).pos <= Distance
              /\ {SecondIn(added, o).expr, FirstIn(added, o).expr} = {e, f}
              /\ e = f <=> o[2] = o[3]
        BY DEF Occurrences, FirstIn, SecondIn
      <4>2. o \in AllOccurrences(added) <=>
              /\ o \in UNION {{n} \X (DOMAIN added[n]) \X (DOMAIN added[n]) : n \in DOMAIN added}
              /\ o[3] <= o[2]
              /\ SecondIn(added, o).pos - FirstIn(added, o).pos <= Distance
              /\ SecondIn(added, o).expr # FirstIn(added, o).expr \/ o[2] = o[3]
        BY DEF AllOccurrences, FirstIn, SecondIn
      <4>3. ASSUME o \in all PROVE o \in AllOccurrences(added)
        <5>1. {SecondIn(added, o).expr, FirstIn(added, o).expr} = {e, f}
          BY <4>1, <4>3
        <5>2. SecondIn(added, o).expr = FirstIn(added, o).expr => e = f
          <6>1. /\ e = SecondIn(added, o).expr \/ e = FirstIn(added, o).expr
                /\ f = SecondIn(added, o).expr \/ f = FirstIn(added, o).expr
            BY <5>1
          <6> QED  BY <6>1
        <5> QED  BY <4>1, <4>2, <4>3, <5>2
      <4>4. ASSUME o \in AllOccurrences(added)
            PROVE  o \in all <=> CellOf(added, o) = p
        <5>1. /\ FirstIn(added, o).expr \in Int /\ SecondIn(added, o).expr \in Int
              /\ e \in Int /\ f \in Int
          <6>1. FirstIn(added, o) \in Matches /\ SecondIn(added, o) \in Matches
            BY <2>0, <4>4, OccurrenceFacts
          <6> QED  BY <6>1, ExpressionsAssumption DEF Matches
        <5>2. o[2] = o[3] => SecondIn(added, o) = FirstIn(added, o)
          BY DEF FirstIn, SecondIn
        <5>3. CellOf(added, o) = p <=>
                {SecondIn(added, o).expr, FirstIn(added, o).expr} = {e, f}
          <6> DEFINE x == FirstIn(added, o).expr
                     y == SecondIn(added, o).expr
          <6>1. x \in Int /\ y \in Int /\ e \in Int /\ f \in Int /\ e <= f
            BY <5>1
          <6>2. CellOf(added, o) = Entry(x, y)
            BY DEF CellOf
          <6> HIDE DEF x, y
          <6>3. Entry(x, y) = <<e, f>> <=> {y, x} = {e, f}
            BY ONLY <6>1, EntryIs
          <6> QED  BY <6>2, <6>3 DEF x, y
        <5>4. CellOf(added, o) = p =>
                (e = f <=> SecondIn(added, o).expr = FirstIn(added, o).expr)
          BY <5>1 DEF CellOf, Entry
        <5> QED  BY <4>1, <4>2, <4>4, <5>2, <5>3, <5>4
      <4> QED  BY <4>3, <4>4
    <3> QED  BY <2>1, <3>1 DEF InCell
  <2>4. new = InCell(added, NewOf(added, Met), p)
    <3> HIDE DEF all
    <3>1. ASSUME NEW o \in all
          PROVE  (\A u \in all : Before(u, o) => ~SameContext(o, u)) <=> Unlike(added, Met, o)
      <4>1. o \in AllOccurrences(added) /\ CellOf(added, o) = p
        BY <2>1, <2>3 DEF InCell
      <4>2. ASSUME NEW u \in all
            PROVE  SameContext(o, u) <=> /\ TableOf(added, o) = TableOf(added, u)
                                         /\ HashesIn(added, u) \cap HashesIn(added, o) # {}
        <5>1. u \in AllOccurrences(added) /\ CellOf(added, u) = p
          BY <2>1, <2>3, <4>2 DEF InCell
        <5> QED  BY <2>0, <4>1, <5>1, AlikeByHashes
      <4>3. ASSUME NEW u \in Met, TableOf(added, u) = TableOf(added, o) PROVE u \in all
        <5>1. CellOf(added, u) = CellOf(added, o)
          BY <4>3 DEF TableOf, CellOf
        <5> QED  BY <2>3, <4>1, <5>1 DEF InCell
      <4>4. all \subseteq Met
        BY <2>3 DEF InCell
      <4> QED  BY <4>2, <4>3, <4>4 DEF Unlike
    <3> QED  BY <2>3, <3>1 DEF InCell, NewOf
  <2> QED  BY <2>2, <2>3, <2>4 DEF ProgramsOf
<1> QED  BY <1>1, CountsAreOfOccurrences, PTL

------------------------------------------------------------------------------
(* pair_search: its steps on the matrix are those of CoOccurrenceMatrix. *)

MatrixSteps == SameMatch \/ DifferentMatches \/ SameExpression \/ NextMatch \/ Return

LEMMA MatrixStepOrNone ==
  ASSUME [PairNext]_pairVars
  PROVE  [Next]_vars
<1>1. ASSUME NEW program \in Programs, NextProgram(program) PROVE Next
  BY <1>1 DEF NextProgram, Next
<1>2. CASE MatrixStep
  BY <1>2 DEF MatrixStep, Next
<1>3. CASE UNCHANGED vars
  BY <1>3
<1> QED
  BY <1>1, <1>2, <1>3
  DEF PairNext, MissingFile, CorruptFile, OpenFile, EndOfFile, CopyResults, FindZeroKeys,
      EraseZeroKey, FilterTop, FilterKey, FilterNone, Visualize, matrix, pairVars

\* Every run of pair_search uses the matrix as CoOccurrence has it used.
THEOREM MatrixIsImplemented == PairSpec => Spec
<1>1. PairInit => Init
  BY DEF PairInit
<1>2. [PairNext]_pairVars => [Next]_vars
  BY MatrixStepOrNone
<1> QED  BY <1>1, <1>2, PTL DEF PairSpec, Spec

\* So the counts of the matrix are nested whatever files were read.
THEOREM CountsAreNestedInSearch == PairSpec => []CountsNested
BY MatrixIsImplemented, CountsAreNested, PTL

\* And a diagonal entry, which a correlation is divided by, is not 0 where an
\* entry beside it is not.
THEOREM DiagonalIsCoveredInSearch == PairSpec => []DiagonalCovers
BY MatrixIsImplemented, DiagonalIsCovered, PTL

\* What the entries of the matrix mean, whatever files were read.
THEOREM CountsMeanOccurrencesInSearch == PairSpec => []CountsMeanWhatTheySay
BY CountsMeanOccurrences, MatrixIsImplemented, PTL

------------------------------------------------------------------------------
(* The program added last is the one at hand, and a program that was added  *)
(* and has a match has given some expression a context.                     *)

HistoryInv ==
  /\ pc = "scan" => added # <<>> /\ positions = added[Len(added)]
  /\ \A k \in 1..Len(added) :
       (pc = "idle" \/ k < Len(added)) /\ added[k] # <<>> =>
         \E e \in Expressions : contexts[<<e, e>>] > 0

(* The report. *)

\* The keys that some program gave a context.
Live == {e \in Expressions : contexts[<<e, e>>] > 0}

\* In the phases behind the removal of the keys the entries of a key that is
\* left are those of the matrix, and a key goes only if it has no context.
ResultsInv ==
  /\ phase = "matrix" => results = [p \in UpperHalf |-> contexts[p]]
  /\ phase \in {"zero keys", "top", "done", "undefined"} =>
       /\ zero_keys \subseteq Expressions \ Live
       /\ RowKeys = Live \cup zero_keys
       /\ \A e, f \in RowKeys : e <= f =>
            <<e, f>> \in DOMAIN results /\ results[<<e, f>>] = contexts[<<e, f>>]
  /\ phase \notin {"zero keys"} => zero_keys = {}
  /\ phase # "programs" => pc = "idle"

\* The keys looked at: the queue holds the first of them, as many as are asked
\* for.
LookedAt == RowKeys \ keys
TopInv ==
  /\ phase \in {"files", "programs", "matrix", "zero keys"} => top = {}
  /\ phase \in {"top", "done", "undefined"} =>
       /\ topFilter \in Nat
       /\ keys \subseteq RowKeys
       /\ top \subseteq LookedAt
       /\ Cardinality(top) = IF topFilter < Cardinality(LookedAt) THEN topFilter
                             ELSE Cardinality(LookedAt)
       /\ \A e \in top, f \in LookedAt \ top : Above(e, f)
  /\ phase = "done" =>
       /\ keys = {}
       /\ \A e, f \in top : e <= f => occurences[<<e, f>>] = contexts[<<e, f>>]
  /\ phase = "undefined" => topFilter = 0 \/ RowKeys = {}

PhaseOK == phase \in {"files", "programs", "matrix", "zero keys", "top", "done", "undefined"}
ReportInv == PhaseOK /\ HistoryInv /\ ResultsInv /\ TopInv

------------------------------------------------------------------------------
LEMMA HistoryStep ==
  ASSUME IInv, HistoryInv, [Next]_vars
  PROVE  HistoryInv'
<1>0. /\ Len(added) \in Nat /\ added \in Seq(Programs) /\ DOMAIN contexts = Pairs
      /\ \A p \in Pairs : contexts[p] \in Nat
      /\ pc \in {"idle", "scan"}
  BY DEF IInv, TypeOK
<1>1. ASSUME NEW program \in Programs, AddProgram(program) PROVE HistoryInv'
  <2>1. /\ added' = Append(added, program) /\ contexts' = contexts /\ positions' = program
        /\ pc = "idle" /\ pc' = "scan"
    BY <1>1 DEF AddProgram
  <2>2. /\ Len(added') = Len(added) + 1 /\ added'[Len(added) + 1] = program /\ added' # <<>>
        /\ \A k \in 1..Len(added) : added'[k] = added[k]
    BY <1>0, <2>1
  <2>3. ASSUME NEW k \in 1..Len(added'), k < Len(added'), added'[k] # <<>>
        PROVE  \E e \in Expressions : contexts[<<e, e>>] > 0
    <3>1. k \in 1..Len(added)
      BY <1>0, <2>2, <2>3
    <3> QED  BY <2>1, <2>2, <2>3, <3>1 DEF HistoryInv
  <2> QED  BY <2>1, <2>2, <2>3 DEF HistoryInv
<1>2. ASSUME UNCHANGED <<added, positions>>, pc' = pc, CountStep \/ contexts' = contexts
      PROVE  HistoryInv'
  <2>1. ASSUME NEW e \in Expressions, contexts[<<e, e>>] > 0 PROVE contexts'[<<e, e>>] > 0
    <3>1. <<e, e>> \in Pairs
      BY DEF Pairs
    <3>2. contexts'[<<e, e>>] \in {contexts[<<e, e>>], contexts[<<e, e>>] + 1}
      BY <1>2, <3>1, CountEffect DEF IInv
    <3> QED  BY <1>0, <2>1, <3>1, <3>2
  <2> QED  BY <1>2, <2>1 DEF HistoryInv
<1>3. CASE Return
  <2>1. /\ pc = "scan" /\ it0 > Len(positions) /\ pc' = "idle"
        /\ UNCHANGED <<added, positions, contexts>>
    BY <1>3 DEF Return, counts
  <2>2. ASSUME added[Len(added)] # <<>>
        PROVE  \E e \in Expressions : contexts[<<e, e>>] > 0
    <3>1. positions # <<>> /\ positions \in Seq(Matches) /\ it0 \in Nat
      BY <2>1, <2>2 DEF HistoryInv, IInv, TypeOK
    <3>2. 1 \in Matched /\ 1 < it0
      BY <2>1, <3>1, EmptySeq DEF Matched
    <3>3. seen[Diagonal(positions[1])] # {} /\ positions[1].expr \in Expressions
      BY <2>1, <3>2, MatchFacts DEF IInv, Bookkeeping, VisitedAreSeen
    <3> QED  BY <3>3 DEF IInv, Bookkeeping, SeenHaveContext, Diagonal
  <2>3. ASSUME NEW k \in 1..Len(added), added[k] # <<>>
        PROVE  \E e \in Expressions : contexts[<<e, e>>] > 0
    <3>1. k < Len(added) \/ k = Len(added)
      BY <1>0
    <3> QED  BY <2>2, <2>3, <3>1 DEF HistoryInv
  <2> QED  BY <2>1, <2>3 DEF HistoryInv
<1>4. CASE CountStep
  BY <1>2, <1>4, InnerLoopFacts DEF IInv, CountStep, SameMatch, DifferentMatches
<1>5. CASE SameExpression
  BY <1>2, <1>5 DEF SameExpression, InnerLoop, counts
<1>6. CASE NextMatch
  BY <1>2, <1>6 DEF NextMatch, counts
<1>7. CASE UNCHANGED vars
  BY <1>2, <1>7 DEF vars, counts
<1> QED  BY <1>1, <1>3, <1>4, <1>5, <1>6, <1>7 DEF Next, CountStep

\* An entry beside the diagonal that has a context belongs to two live keys.
LEMMA ContextsBelongToLive ==
  ASSUME IInv, NEW e \in Expressions, NEW f \in Expressions, contexts[<<e, f>>] # 0
  PROVE  e \in Live /\ f \in Live
<1>1. <<e, f>> \in Pairs
  BY DEF Pairs
<1>2. contexts[<<e, f>>] \in Nat /\ programs[<<e, f>>] \in Nat /\ totals[<<e, f>>] \in Nat
  BY <1>1 DEF IInv, TypeOK
<1>3. totals[<<e, f>>] > 0
  <2>1. /\ contexts[<<e, f>>] + (IF <<e, f>> \in program_added \ context_added THEN 1 ELSE 0)
             <= programs[<<e, f>>]
        /\ programs[<<e, f>>] <= totals[<<e, f>>]
    BY <1>1 DEF IInv, Bookkeeping, RoomForContext, RoomForProgram
  <2> QED  BY <1>2, <2>1
<1> QED  BY <1>3 DEF IInv, Bookkeeping, Covered, SeenHaveContext, Live

LEMMA EntryFacts ==
  ASSUME NEW e \in Expressions, NEW f \in Expressions
  PROVE  /\ Entry(e, f) \in UpperHalf /\ UpperHalf \subseteq Pairs
         /\ Entry(e, e) = <<e, e>> /\ <<e, e>> \in UpperHalf
         /\ e <= f => Entry(e, f) = <<e, f>> /\ <<e, f>> \in UpperHalf
         /\ Entry(e, f) \in {<<e, f>>, <<f, e>>}
BY ExpressionsAssumption DEF Entry, UpperHalf, Pairs

\* Min is the least element of a finite set of numbers.
LEMMA LeastOf ==
  ASSUME NEW S \in SUBSET Int, IsFiniteSet(S), S # {}
  PROVE  Min(S) \in S /\ \A y \in S : Min(S) <= y
<1>1. \E x \in S : \A y \in S : x <= y
  BY LeastInteger
<1> QED  BY <1>1 DEF Min

LEMMA MinInSet ==
  ASSUME NEW S \in SUBSET Expressions, S # {}
  PROVE  Min(S) \in S
<1>1. IsFiniteSet(S) /\ S \subseteq Int
  BY ExpressionsAssumption, FS_Subset
<1> QED  BY <1>1, LeastOf

LEMMA ResultsStep ==
  ASSUME IInv, PhaseOK, ResultsInv, TopInv, [PairNext]_pairVars
  PROVE  ResultsInv'
<1>1. CASE phase = "programs" \/ MissingFile \/ CorruptFile \/ OpenFile
  BY <1>1
  DEF ResultsInv, PairNext, MissingFile, CorruptFile, OpenFile, NextProgram, MatrixStep,
      EndOfFile, CopyResults, FindZeroKeys, EraseZeroKey, FilterTop, FilterKey, FilterNone,
      Visualize, NextFile, main, report, matrix, vars, pairVars
<1>2. CASE CopyResults
  BY <1>2 DEF CopyResults, ResultsInv, matrix, vars, counts, UpperHalf, Pairs
<1>3. CASE FindZeroKeys
  <2>1. /\ phase = "matrix" /\ results = [p \in UpperHalf |-> contexts[p]] /\ pc = "idle"
        /\ contexts' = contexts /\ pc' = pc /\ phase' = "zero keys"
    BY <1>3 DEF FindZeroKeys, ResultsInv, matrix, vars, counts
  <2>2. RowKeys = Expressions
    <3>1. DOMAIN results = UpperHalf
      BY <2>1
    <3>2. ASSUME NEW e \in Expressions PROVE e \in RowKeys
      <4>1. <<e, e>> \in DOMAIN results
        BY <3>1, EntryFacts
      <4> QED  BY <4>1 DEF RowKeys
    <3>3. RowKeys \subseteq Expressions
      BY <3>1 DEF RowKeys, UpperHalf, Pairs
    <3> QED  BY <3>2, <3>3
  <2>3. \A e, f \in Expressions : IsZero(e, f) <=> contexts[Entry(e, f)] = 0
    BY <2>1, EntryFacts DEF IsZero
  <2>4. zero_keys' = {e \in Expressions : \A f \in Expressions : IsZero(e, f)}
    BY <1>3, <2>2 DEF FindZeroKeys
  <2>5. zero_keys' = Expressions \ Live
    <3>1. ASSUME NEW e \in Expressions, e \in zero_keys' PROVE e \notin Live
      BY <2>3, <2>4, <3>1, EntryFacts DEF Live
    <3>2. ASSUME NEW e \in Expressions, e \notin zero_keys' PROVE e \in Live
      <4>1. PICK f \in Expressions : contexts[Entry(e, f)] # 0
        BY <2>3, <2>4, <3>2
      <4> QED  BY <4>1, EntryFacts, ContextsBelongToLive
    <3> QED  BY <2>4, <3>1, <3>2
  <2>6. PICK new \in SUBSET (Expressions \X Expressions) : results' = WithEntries(new)
    BY <1>3, <2>2 DEF FindZeroKeys
  <2>7. /\ DOMAIN results' = UpperHalf \cup new
        /\ \A p \in UpperHalf : results'[p] = contexts[p]
    BY <2>1, <2>6 DEF WithEntries
  <2>8. RowKeys' = Expressions
    <3>1. ASSUME NEW e \in Expressions PROVE e \in RowKeys'
      <4>1. <<e, e>> \in DOMAIN results'
        BY <2>7, EntryFacts
      <4> QED  BY <4>1 DEF RowKeys
    <3>2. RowKeys' \subseteq Expressions
      BY <2>7 DEF RowKeys, UpperHalf, Pairs
    <3> QED  BY <3>1, <3>2
  <2>9. Live' = Live /\ Live \subseteq Expressions
    BY <2>1 DEF Live
  <2> QED  BY <2>1, <2>5, <2>7, <2>8, <2>9, EntryFacts DEF ResultsInv
<1>4. CASE EraseZeroKey
  <2>1. /\ phase = "zero keys" /\ phase' = phase /\ contexts' = contexts /\ pc' = pc
        /\ zero_keys # {} /\ zero_keys \subseteq Expressions /\ pc = "idle"
    BY <1>4 DEF EraseZeroKey, ResultsInv, matrix, vars, counts
  <2>2. PICK key \in zero_keys :
          /\ results' = [p \in {q \in DOMAIN results :
                                  q[1] # key /\ ~(q[1] > key /\ q[2] = key)} |-> results[p]]
          /\ zero_keys' = zero_keys \ {key}
    BY <1>4, <2>1, MinInSet DEF EraseZeroKey
  <2>3. /\ RowKeys = Live \cup zero_keys /\ Live \cap zero_keys = {}
        /\ Live' = Live /\ RowKeys \subseteq Expressions
        /\ \A e, f \in RowKeys : e <= f =>
             <<e, f>> \in DOMAIN results /\ results[<<e, f>>] = contexts[<<e, f>>]
    BY <2>1 DEF ResultsInv, Live
  <2>4. ASSUME NEW e \in RowKeys \ {key}, NEW f \in RowKeys \ {key}, e <= f
        PROVE  <<e, f>> \in DOMAIN results' /\ results'[<<e, f>>] = contexts[<<e, f>>]
    BY <2>2, <2>3, <2>4
  <2>5. RowKeys' = RowKeys \ {key}
    <3>1. ASSUME NEW e \in RowKeys \ {key} PROVE e \in RowKeys'
      <4>1. e \in Int
        BY <2>3, ExpressionsAssumption
      <4>2. <<e, e>> \in DOMAIN results'
        BY <2>4, <4>1
      <4> QED  BY <4>2 DEF RowKeys
    <3>2. RowKeys' \subseteq RowKeys \ {key}
      BY <2>2 DEF RowKeys
    <3> QED  BY <3>1, <3>2
  <2>6. RowKeys' = Live' \cup zero_keys' /\ zero_keys' \subseteq Expressions \ Live'
    BY <2>1, <2>2, <2>3, <2>5
  <2>7. \A e, f \in RowKeys' : e <= f =>
          <<e, f>> \in DOMAIN results' /\ results'[<<e, f>>] = contexts'[<<e, f>>]
    BY <2>1, <2>4, <2>5
  <2> QED  BY <2>1, <2>6, <2>7 DEF ResultsInv
<1>5. CASE FilterKey \/ FilterNone \/ UNCHANGED pairVars \/ \E n \in TopFilters : FilterTop(n)
  <2>1. /\ UNCHANGED <<results, zero_keys, contexts, pc>>
        /\ phase' = phase \/ (phase \in {"zero keys", "top"} /\ phase' \in {"top", "undefined"}
                             /\ zero_keys = {})
    BY <1>5
    DEF FilterTop, FilterKey, FilterNone, ResultsInv, matrix, vars, counts, report, pairVars, main
  <2>2. RowKeys' = RowKeys /\ Live' = Live
    BY <2>1 DEF RowKeys, Live
  <2> QED  BY <2>1, <2>2 DEF ResultsInv
<1>6. CASE Visualize
  <2>1. /\ phase = "top" /\ phase' \in {"undefined", "done"}
        /\ UNCHANGED <<contexts, zero_keys, pc>> /\ zero_keys = {}
        /\ results' = WithEntries(top \X top)
    BY <1>6 DEF Visualize, ResultsInv, matrix, vars, counts
  <2>2. top \subseteq RowKeys
    BY <2>1 DEF TopInv, LookedAt
  <2>3. /\ DOMAIN results' = DOMAIN results \cup (top \X top)
        /\ \A p \in DOMAIN results : results'[p] = results[p]
    BY <2>1 DEF WithEntries
  <2>4. RowKeys' = RowKeys
    BY <2>2, <2>3 DEF RowKeys
  <2>5. Live' = Live
    BY <2>1 DEF Live
  <2> QED  BY <2>1, <2>3, <2>4, <2>5 DEF ResultsInv
<1> QED
  BY <1>1, <1>2, <1>3, <1>4, <1>5, <1>6 DEF PairNext, PhaseOK, NextProgram, MatrixStep, EndOfFile

------------------------------------------------------------------------------
(* The queue of the keys with the most contexts. *)

LEMMA NotAboveItself == \A e \in Int : e <= e
OBVIOUS

\* The sizes of the keys are those of the matrix, natural numbers.
LEMMA SizesAreContexts ==
  ASSUME IInv, ResultsInv, phase \in {"zero keys", "top", "done", "undefined"}
  PROVE  /\ RowKeys \subseteq Expressions
         /\ \A e \in RowKeys : Size(e) = contexts[<<e, e>>] /\ Size(e) \in Nat /\ e \in Int
<1>1. RowKeys \subseteq Expressions
  BY DEF ResultsInv, Live
<1>2. ASSUME NEW e \in RowKeys
      PROVE  Size(e) = contexts[<<e, e>>] /\ Size(e) \in Nat /\ e \in Int
  <2>0. e \in Expressions /\ e \in Int
    BY <1>1, ExpressionsAssumption
  <2>1. e \in Expressions /\ e \in Int /\ e <= e
    BY <2>0, NotAboveItself, Zenon
  <2>2. Size(e) = contexts[<<e, e>>]
    BY <2>1 DEF ResultsInv, Size
  <2>3. contexts[<<e, e>>] \in Nat
    BY <2>1 DEF IInv, TypeOK, Pairs
  <2> QED  BY <2>1, <2>2, <2>3
<1> QED  BY <1>1, <1>2

\* Above orders the keys one after the other.
LEMMA AboveOrders ==
  ASSUME NEW e \in Int, NEW f \in Int, NEW g \in Int,
         Size(e) \in Nat, Size(f) \in Nat, Size(g) \in Nat
  PROVE  /\ e # f => Above(e, f) \/ Above(f, e)
         /\ Above(e, f) /\ Above(f, g) => Above(e, g)
BY DEF Above

LEMMA LastOfQueue ==
  ASSUME NEW queue \in SUBSET Expressions, queue # {}, \A e \in queue : Size(e) \in Nat
  PROVE  /\ LastOf(queue) \in queue
         /\ \A f \in queue \ {LastOf(queue)} : Above(f, LastOf(queue))
<1>1. PICK R : \A e, f \in queue : <<e, f>> \in R <=> Above(f, e)
  <2> DEFINE R == {p \in queue \X queue : Above(p[2], p[1])}
  <2>1. \A e, f \in queue : <<e, f>> \in R <=> Above(f, e)
    OBVIOUS
  <2> HIDE DEF R
  <2> QED  BY <2>1
<1>2. IsFiniteSet(queue) /\ queue \subseteq Int
  BY ExpressionsAssumption, FS_Subset
<1>3. Orders(R, queue)
  <2>1. ASSUME NEW e \in queue, NEW f \in queue, e # f PROVE <<e, f>> \in R \/ <<f, e>> \in R
    BY <1>1, <1>2, <2>1, AboveOrders
  <2>2. ASSUME NEW e \in queue, NEW f \in queue, NEW g \in queue, <<e, f>> \in R, <<f, g>> \in R
        PROVE  <<e, g>> \in R
    <3>1. e \in Int /\ f \in Int /\ g \in Int
      BY <1>2
    <3>2. Above(f, e) /\ Above(g, f)
      BY <1>1, <2>2
    <3>3. Above(g, e)
      BY <3>1, <3>2, AboveOrders
    <3> QED  BY <1>1, <3>3
  <2> QED  BY <2>1, <2>2 DEF Orders
<1>4. IsFiniteSet(queue)
  BY <1>2
<1>5. PICK e \in queue : \A f \in queue \ {e} : <<e, f>> \in R
  BY ONLY queue # {}, <1>3, <1>4, FirstElement
<1>6. \E x \in queue : \A f \in queue \ {x} : Above(f, x)
  BY <1>1, <1>5
<1> QED  BY <1>6 DEF LastOf

\* One key is looked at: the queue still holds the first of those looked at.
LEMMA FilterKeyKeepsTop ==
  ASSUME IInv, ResultsInv, TopInv, FilterKey
  PROVE  TopInv'
<1>1. /\ phase = "top" /\ phase' = "top" /\ topFilter' = topFilter /\ topFilter \in Nat \ {0}
      /\ results' = results /\ RowKeys' = RowKeys
      /\ \A e, f : Above(e, f)' <=> Above(e, f)
  BY DEF FilterKey, TopInv, RowKeys, Above, Size
<1>2. /\ keys \subseteq RowKeys /\ top \subseteq LookedAt /\ LookedAt \subseteq RowKeys
      /\ RowKeys \subseteq Expressions
      /\ \A e \in RowKeys : Size(e) \in Nat /\ e \in Int
      /\ \A e \in top, f \in LookedAt \ top : Above(e, f)
  BY <1>1, SizesAreContexts DEF TopInv, LookedAt
<1>3. PICK key \in keys :
        /\ keys' = keys \ {key}
        /\ top' = IF Cardinality(top) < topFilter THEN top \cup {key}
                  ELSE IF Above(key, LastOf(top)) THEN (top \ {LastOf(top)}) \cup {key}
                  ELSE top
  <2>1. keys \in SUBSET Expressions /\ keys # {}
    BY <1>2 DEF FilterKey
  <2>2. Min(keys) \in keys
    BY <2>1, MinInSet
  <2> QED  BY <2>2 DEF FilterKey
<1>4. LookedAt' = LookedAt \cup {key} /\ key \notin LookedAt /\ key \in RowKeys /\ key \notin top
  BY <1>1, <1>2, <1>3 DEF LookedAt
<1>5. /\ IsFiniteSet(LookedAt) /\ IsFiniteSet(top)
      /\ Cardinality(LookedAt) \in Nat /\ Cardinality(top) \in Nat
      /\ Cardinality(LookedAt') = Cardinality(LookedAt) + 1
      /\ Cardinality(top) = Cardinality(LookedAt) => top = LookedAt
  <2>1. IsFiniteSet(LookedAt) /\ IsFiniteSet(top)
    BY <1>2, ExpressionsAssumption, FS_Subset
  <2> QED  BY <1>2, <1>4, <2>1, FS_AddElement, FS_CardinalityType, FS_Subset
<1>6. Cardinality(top) = IF topFilter < Cardinality(LookedAt) THEN topFilter
                         ELSE Cardinality(LookedAt)
  BY <1>1 DEF TopInv
<1> SUFFICES /\ top' \subseteq LookedAt'
             /\ Cardinality(top') = IF topFilter < Cardinality(LookedAt') THEN topFilter
                                   ELSE Cardinality(LookedAt')
             /\ \A e \in top', f \in LookedAt' \ top' : Above(e, f)
  BY <1>1, <1>2, <1>3 DEF TopInv
<1>7. CASE Cardinality(top) < topFilter
  <2>1. top = LookedAt /\ top' = top \cup {key}
    BY <1>1, <1>3, <1>5, <1>6, <1>7
  <2>2. Cardinality(top') = Cardinality(LookedAt) + 1
    BY <1>4, <1>5, <2>1
  <2>3. ~(topFilter < Cardinality(LookedAt'))
    BY <1>1, <1>5, <1>7, <2>1
  <2> QED  BY <1>4, <1>5, <2>1, <2>2, <2>3
<1>8. CASE ~(Cardinality(top) < topFilter)
  <2>1. Cardinality(top) = topFilter /\ topFilter < Cardinality(LookedAt')
    BY <1>1, <1>5, <1>6, <1>8
  <2>2. top # {}
    BY <1>1, <2>1, FS_EmptySet
  <2> DEFINE last == LastOf(top)
  <2>3. last \in top /\ \A f \in top \ {last} : Above(f, last)
    BY <1>2, <2>2, LastOfQueue
  <2> HIDE DEF last
  <2>4. CASE Above(key, last)
    <3>1. top' = (top \ {last}) \cup {key}
      BY <1>3, <1>8, <2>4 DEF last
    <3>2. Cardinality(top') = topFilter
      <4>1. IsFiniteSet(top \ {last}) /\ Cardinality(top \ {last}) = topFilter - 1
        BY <1>5, <2>1, <2>3, FS_RemoveElement
      <4>2. Cardinality((top \ {last}) \cup {key}) = topFilter - 1 + 1
        BY <1>4, <4>1, FS_AddElement
      <4> QED  BY <1>1, <3>1, <4>2
    <3>3. ASSUME NEW e \in top', NEW f \in LookedAt' \ top' PROVE Above(e, f)
      <4>1. f = last \/ (f \in LookedAt \ top)
        BY <1>4, <3>1
      <4>2. e = key \/ e \in top \ {last}
        BY <3>1
      <4>3. last \in RowKeys /\ (f \in LookedAt \ top => Above(last, f) /\ f \in RowKeys)
        BY <1>2, <2>3
      <4>4. CASE e = key
        BY <1>2, <1>4, <2>4, <4>1, <4>3, <4>4, AboveOrders
      <4>5. CASE e \in top \ {last}
        BY <1>2, <2>3, <4>1, <4>5
      <4> QED  BY <4>2, <4>4, <4>5
    <3>4. top' \subseteq LookedAt'
      BY <1>2, <1>4, <3>1
    <3> QED  BY <2>1, <3>2, <3>3, <3>4
  <2>5. CASE ~Above(key, last)
    <3>1. top' = top
      BY <1>3, <1>8, <2>5 DEF last
    <3>2. Above(last, key) /\ last \in RowKeys
      <4>1. last \in RowKeys /\ last # key
        BY <1>2, <1>4, <2>3
      <4> QED  BY <1>2, <1>4, <2>5, <4>1, AboveOrders
    <3>3. ASSUME NEW e \in top', NEW f \in LookedAt' \ top' PROVE Above(e, f)
      <4>1. CASE f \in LookedAt
        BY <1>2, <3>1, <3>3, <4>1
      <4>2. CASE f = key
        <5>1. e = last \/ Above(e, last)
          BY <2>3, <3>1
        <5>2. e \in RowKeys
          BY <1>2, <3>1
        <5> QED  BY <1>2, <1>4, <3>2, <4>2, <5>1, <5>2, AboveOrders
      <4> QED  BY <1>4, <3>3, <4>1, <4>2
    <3> QED  BY <1>2, <1>4, <2>1, <3>1, <3>3
  <2> QED  BY <2>4, <2>5
<1> QED  BY <1>7, <1>8

LEMMA TopStep ==
  ASSUME IInv, PhaseOK, ResultsInv, TopInv, [PairNext]_pairVars
  PROVE  TopInv'
<1>1. CASE /\ phase \in {"files", "programs", "matrix", "zero keys"}
           /\ phase' \in {"files", "programs", "matrix", "zero keys"}
           /\ top' = top
  BY <1>1 DEF TopInv
<1>2. ASSUME NEW n \in TopFilters, FilterTop(n) PROVE TopInv'
  <2>1. /\ phase' = "top" /\ topFilter' \in Nat /\ keys' = RowKeys /\ RowKeys' = RowKeys
        /\ top' = {}
    BY <1>2, TopFiltersAssumption DEF FilterTop, TopInv, RowKeys
  <2>2. LookedAt' = {}
    BY <2>1 DEF LookedAt
  <2>3. Cardinality(LookedAt') = 0 /\ Cardinality(top') = 0 /\ ~(topFilter' < 0)
    BY <2>1, <2>2, FS_EmptySet
  <2> QED  BY <2>1, <2>2, <2>3 DEF TopInv
<1>3. CASE FilterKey
  BY <1>3, FilterKeyKeepsTop
<1>4. CASE FilterNone
  BY <1>4 DEF FilterNone, TopInv, LookedAt, RowKeys, Above, Size, report
<1>5. CASE Visualize
  <2>1. /\ phase = "top" /\ keys = {} /\ phase' = IF top = {} THEN "undefined" ELSE "done"
        /\ UNCHANGED <<contexts, topFilter, keys, top>>
        /\ results' = WithEntries(top \X top)
        /\ occurences' = [p \in top \X top |-> results'[p]]
    BY <1>5 DEF Visualize, matrix, vars, counts
  <2>2. top \subseteq RowKeys /\ LookedAt = RowKeys
    BY <2>1 DEF TopInv, LookedAt
  <2>3. /\ DOMAIN results' = DOMAIN results \cup (top \X top)
        /\ \A p \in DOMAIN results : results'[p] = results[p]
    BY <2>1 DEF WithEntries
  <2>4. RowKeys' = RowKeys /\ LookedAt' = LookedAt
    <3>1. RowKeys' = RowKeys
      BY <2>2, <2>3 DEF RowKeys
    <3> QED  BY <2>1, <3>1 DEF LookedAt
  <2>5. ASSUME NEW e \in RowKeys, NEW f \in RowKeys, e <= f
        PROVE  results'[<<e, f>>] = contexts[<<e, f>>]
    BY <2>1, <2>3, <2>5 DEF ResultsInv
  <2>6. ASSUME NEW e \in RowKeys, NEW f \in RowKeys PROVE Above(e, f)' <=> Above(e, f)
    <3>0. e \in Int /\ f \in Int
      BY <2>1, SizesAreContexts
    <3>1. e <= e /\ f <= f
      BY <3>0
    <3>2. Size(e)' = Size(e) /\ Size(f)' = Size(f)
      BY <2>1, <2>5, <3>1, SizesAreContexts DEF Size
    <3> QED  BY <3>2 DEF Above
  <2>7. \A e, f \in top : e <= f => occurences'[<<e, f>>] = contexts[<<e, f>>]
    BY <2>1, <2>2, <2>5
  <2>8. top = {} => topFilter = 0 \/ RowKeys = {}
    <3> SUFFICES ASSUME top = {}, topFilter # 0 PROVE RowKeys = {}
      OBVIOUS
    <3>1. IsFiniteSet(RowKeys)
      BY <2>1, SizesAreContexts, ExpressionsAssumption, FS_Subset
    <3>2. Cardinality(RowKeys) = 0
      BY <2>1, <2>2, <3>1, FS_EmptySet DEF TopInv
    <3> QED  BY <3>1, <3>2, FS_EmptySet
  <2>9. \A e \in top, f \in LookedAt' \ top : Above(e, f)'
    BY <2>1, <2>2, <2>4, <2>6 DEF TopInv
  <2> QED  BY <2>1, <2>2, <2>4, <2>7, <2>8, <2>9, ZenonT(30) DEF TopInv
<1>6. CASE UNCHANGED pairVars
  BY <1>6, ZenonT(30) DEF pairVars, main, report, matrix, vars, counts, TopInv, LookedAt, RowKeys, Above, Size
<1> QED
  BY <1>1, <1>2, <1>3, <1>4, <1>5, <1>6
  DEF PairNext, MissingFile, CorruptFile, OpenFile, NextProgram, MatrixStep, EndOfFile,
      CopyResults, FindZeroKeys, EraseZeroKey, NextFile, main, report, PhaseOK

------------------------------------------------------------------------------
(* The sums the correlations are divided by. *)

\* g is the recursive function of SumOver on the subsets of U.
SumIs(w, g, U) ==
  g = [T \in SUBSET U |-> IF T = {} THEN 0 ELSE g[T \ {Min(T)}] + w[Min(T)]]

\* The recursive function of SumOver exists.
LEMMA SumExists ==
  ASSUME NEW S, S \in SUBSET Int, IsFiniteSet(S), NEW w
  PROVE  \E g : SumIs(w, g, S)
<1> DEFINE Bad == {U \in SUBSET S : ~\E g : SumIs(w, g, U)}
<1> SUFFICES ASSUME Bad # {} PROVE FALSE
  OBVIOUS
<1>0. Bad \subseteq SUBSET S
  OBVIOUS
<1>1. PICK U \in Bad : \A V \in Bad : V \subseteq U => V = U
  <2> HIDE DEF Bad
  <2> QED  BY ONLY Bad # {}, IsFiniteSet(S), <1>0, SmallestSet
<1>2. U \in SUBSET S /\ IsFiniteSet(U) /\ ~\E g : SumIs(w, g, U)
  BY <1>1, FS_Subset
<1>3. CASE U = {}
  <2> DEFINE zero == [T \in SUBSET U |-> 0]
  <2>1. SumIs(w, zero, U)
    BY <1>3 DEF SumIs
  <2> QED  BY <1>2, <2>1
<1>4. CASE U # {}
  <2> DEFINE x == Min(U)
  <2>1. x \in U /\ \A y \in U : x <= y
    BY <1>2, <1>4, LeastOf
  <2>2. \E g0 : SumIs(w, g0, U \ {x})
    <3>1. U \ {x} \in SUBSET S /\ U \ {x} \subseteq U /\ U \ {x} # U
      BY <1>2, <2>1
    <3> QED  BY <1>1, <3>1
  <2> HIDE DEF x
  <2>3. PICK g0 : SumIs(w, g0, U \ {x})
    BY <2>2
  <2>4. \A V \in SUBSET (U \ {x}) :
          g0[V] = IF V = {} THEN 0 ELSE g0[V \ {Min(V)}] + w[Min(V)]
    BY <2>3, Zenon DEF SumIs
  <2> DEFINE g == [T \in SUBSET U |-> IF x \in T THEN g0[T \ {x}] + w[x] ELSE g0[T]]
  <2>5. ASSUME NEW T \in SUBSET U
        PROVE  g[T] = IF T = {} THEN 0 ELSE g[T \ {Min(T)}] + w[Min(T)]
    <3>1. CASE T = {}
      <4>1. g[T] = g0[{}] /\ {} \in SUBSET (U \ {x})
        BY <3>1
      <4> QED  BY <2>4, <3>1, <4>1
    <3>2. CASE T # {} /\ x \in T
      <4> DEFINE m == Min(T)
      <4>1. T \in SUBSET Int /\ IsFiniteSet(T)
        BY <1>2, FS_Subset
      <4>2. m \in T /\ \A y \in T : m <= y
        BY <3>2, <4>1, LeastOf
      <4>3. m \in Int /\ x \in Int /\ m <= x /\ x <= m
        BY <2>1, <3>2, <4>1, <4>2
      <4> HIDE DEF m
      <4>4. m = x
        BY <4>3
      <4>5. g[T \ {x}] = g0[T \ {x}] /\ g[T] = g0[T \ {x}] + w[x]
        BY <3>2
      <4> HIDE DEF g
      <4>6. Min(T) = x
        BY <4>4 DEF m
      <4> QED  BY <3>2, <4>5, <4>6
    <3>3. CASE T # {} /\ x \notin T
      <4>1. T \in SUBSET (U \ {x})
        BY <3>3
      <4>2. Min(T) \in T
        <5>1. T \in SUBSET Int /\ IsFiniteSet(T)
          BY <1>2, FS_Subset
        <5> QED  BY <3>3, <5>1, LeastOf
      <4>3. g[T] = g0[T] /\ g[T \ {Min(T)}] = g0[T \ {Min(T)}]
        BY <3>3
      <4> QED  BY <2>4, <3>3, <4>1, <4>3
    <3> QED  BY <3>1, <3>2, <3>3
  <2>6. g = [T \in SUBSET U |-> g[T]]
    OBVIOUS
  <2> HIDE DEF g
  <2>7. SumIs(w, g, U)
    BY <2>5, <2>6 DEF SumIs
  <2> QED  BY <1>2, <2>7
<1> QED  BY <1>3, <1>4

\* A sum of natural numbers is one.
LEMMA SumIsNatural ==
  ASSUME NEW S, S \in SUBSET Int, IsFiniteSet(S), NEW w \in [S -> Nat]
  PROVE  SumOver(w) \in Nat
<1> DEFINE sum == CHOOSE g : SumIs(w, g, S)
<1>1. SumIs(w, sum, S)
  BY SumExists, Zenon
<1>2. DOMAIN w = S
  OBVIOUS
<1>3. SumOver(w) = sum[S]
  BY <1>2 DEF SumOver, SumIs
<1> HIDE DEF sum
<1>4. \A T \in SUBSET S : sum[T] = IF T = {} THEN 0 ELSE sum[T \ {Min(T)}] + w[Min(T)]
  BY <1>1, Zenon DEF SumIs
<1> DEFINE Bad == {T \in SUBSET S : sum[T] \notin Nat}
<1>5. Bad = {}
  <2> SUFFICES ASSUME Bad # {} PROVE FALSE
    OBVIOUS
  <2>1. Bad \subseteq SUBSET S
    OBVIOUS
  <2>2. PICK T \in Bad : \A V \in Bad : V \subseteq T => V = T
    <3> HIDE DEF Bad
    <3> QED  BY ONLY Bad # {}, IsFiniteSet(S), <2>1, SmallestSet
  <2>3. T \in SUBSET S /\ sum[T] \notin Nat
    BY <2>2
  <2>4. sum[{}] = 0
    BY <1>4
  <2>5. T # {} /\ T \in SUBSET Int /\ IsFiniteSet(T)
    <3>1. T # {}
      BY <2>3, <2>4
    <3>2. T \in SUBSET Int
      BY <2>3
    <3>3. IsFiniteSet(T)
      BY <2>3, FS_Subset
    <3> QED  BY <3>1, <3>2, <3>3
  <2>6. Min(T) \in T
    BY <2>5, LeastOf
  <2>7. sum[T \ {Min(T)}] \in Nat
    BY <2>2, <2>6
  <2>8. w[Min(T)] \in Nat
    BY <2>2, <2>6
  <2>9. sum[T] = sum[T \ {Min(T)}] + w[Min(T)]
    BY <1>4, <2>3, <2>5
  <2> QED  BY <2>3, <2>7, <2>8, <2>9
<1> QED  BY <1>3, <1>5

------------------------------------------------------------------------------
(* The report is that of the matrix. *)

LEMMA PhaseStep ==
  ASSUME PhaseOK, [PairNext]_pairVars
  PROVE  PhaseOK'
BY DEF PhaseOK, PairNext, MissingFile, CorruptFile, OpenFile, NextProgram, MatrixStep, EndOfFile,
       CopyResults, FindZeroKeys, EraseZeroKey, FilterTop, FilterKey, FilterNone, Visualize,
       main, pairVars

LEMMA ReportInit ==
  ASSUME PairInit
  PROVE  ReportInv
<1>1. /\ phase = "files" /\ pc = "idle" /\ added = <<>> /\ zero_keys = {} /\ top = {}
  BY DEF PairInit, Init
<1>2. Len(added) = 0
  BY <1>1
<1>3. HistoryInv
  BY <1>1, <1>2 DEF HistoryInv
<1>4. PhaseOK /\ ResultsInv /\ TopInv
  BY <1>1 DEF PhaseOK, ResultsInv, TopInv
<1> QED  BY <1>3, <1>4 DEF ReportInv

\* The report keeps to the matrix: an inductive invariant of pair_search.
THEOREM ReportIsCorrect == PairSpec => [](IInv /\ ReportInv)
<1>1. PairSpec => []IInv
  BY MatrixIsImplemented, BookkeepingCorrect, PTL
<1>2. IInv /\ ReportInv /\ [PairNext]_pairVars => ReportInv'
  BY MatrixStepOrNone, HistoryStep, PhaseStep, ResultsStep, TopStep DEF ReportInv
<1> QED  BY <1>1, <1>2, ReportInit, PTL DEF PairSpec

\* remove_zero_keys removes the keys without a context and no others, and the
\* counts of the keys that are left are those of the matrix.
THEOREM ZeroKeysAreRemoved == PairSpec => []ZeroKeysRemoved
<1>1. IInv /\ ReportInv => ZeroKeysRemoved
  <2> SUFFICES ASSUME IInv, ReportInv,
                      phase \in {"top", "done"} \/ (phase = "zero keys" /\ zero_keys = {})
               PROVE  /\ RowKeys = {e \in Expressions : contexts[<<e, e>>] > 0}
                      /\ \A e \in Expressions \ RowKeys, f \in Expressions :
                           contexts[Entry(e, f)] = 0
                      /\ \A e, f \in RowKeys : e <= f =>
                           <<e, f>> \in DOMAIN results /\ results[<<e, f>>] = contexts[<<e, f>>]
    BY DEF ZeroKeysRemoved
  <2>1. /\ RowKeys = Live
        /\ \A e, f \in RowKeys : e <= f =>
             <<e, f>> \in DOMAIN results /\ results[<<e, f>>] = contexts[<<e, f>>]
    BY DEF ReportInv, ResultsInv
  <2>2. ASSUME NEW e \in Expressions \ RowKeys, NEW f \in Expressions
        PROVE  contexts[Entry(e, f)] = 0
    <3>1. e \notin Live
      BY <2>1
    <3>2. contexts[<<e, f>>] = 0 /\ contexts[<<f, e>>] = 0
      BY <3>1, ContextsBelongToLive
    <3> QED  BY <3>2, EntryFacts
  <2> QED  BY <2>1, <2>2 DEF Live
<1> QED  BY <1>1, ReportIsCorrect, PTL

LEMMA SumIsPositive ==
  ASSUME IInv, ReportInv, phase = "done", NEW e \in top
  PROVE  SumOf(e) > 0
<1>1. /\ top \subseteq RowKeys /\ RowKeys = Live /\ RowKeys \subseteq Expressions
      /\ \A d, f \in RowKeys : d <= f => results[<<d, f>>] = contexts[<<d, f>>]
  BY DEF ReportInv, TopInv, LookedAt, ResultsInv, Live
<1>2. Size(e) \in Nat /\ Size(e) > 0
  <2>1. ResultsInv /\ phase \in {"zero keys", "top", "done", "undefined"}
    BY DEF ReportInv
  <2>2. Size(e) = contexts[<<e, e>>] /\ Size(e) \in Nat
    BY <1>1, <2>1, SizesAreContexts
  <2> QED  BY <1>1, <2>2 DEF Live
<1> DEFINE S == top \ {e}
           w == [f \in S |-> results[Entry(e, f)]]
<1>3. ASSUME NEW f \in S PROVE results[Entry(e, f)] \in Nat
  <2>0. e \in RowKeys /\ f \in RowKeys /\ e \in Expressions /\ f \in Expressions
    BY <1>1
  <2>1. e \in Int /\ f \in Int
    BY <2>0, ExpressionsAssumption
  <2>2. CASE e <= f
    <3>1. results[Entry(e, f)] = contexts[<<e, f>>]
      BY <1>1, <2>0, <2>2 DEF Entry
    <3>2. <<e, f>> \in Pairs
      BY <2>0 DEF Pairs
    <3> QED  BY <3>1, <3>2 DEF IInv, TypeOK
  <2>3. CASE ~(e <= f)
    <3>0. f <= e
      BY <2>1, <2>3
    <3>1. results[Entry(e, f)] = contexts[<<f, e>>]
      BY <1>1, <2>0, <2>3, <3>0 DEF Entry
    <3>2. <<f, e>> \in Pairs
      BY <2>0 DEF Pairs
    <3> QED  BY <3>1, <3>2 DEF IInv, TypeOK
  <2> QED  BY <2>2, <2>3
<1>4. w \in [S -> Nat]
  BY <1>3
<1>5. S \in SUBSET Int /\ IsFiniteSet(S)
  <2>1. S \in SUBSET Expressions
    BY <1>1
  <2>2. S \in SUBSET Int
    BY <2>1, ExpressionsAssumption
  <2>3. IsFiniteSet(S)
    BY <2>1, ExpressionsAssumption, FS_Subset
  <2> QED  BY <2>2, <2>3
<1>6. SumOf(e) = Size(e) + SumOver(w)
  BY DEF SumOf
<1> HIDE DEF w, S
<1>7. SumOver(w) \in Nat
  BY <1>4, <1>5, SumIsNatural
<1> QED  BY <1>2, <1>6, <1>7

\* The graph shows the keys with the most contexts, no correlation is divided
\* by 0, the counts beside the links are those of the matrix, and there is no
\* graph only if none was asked for or no program had a match.
THEOREM GraphIsOfTheTop == PairSpec => []GraphShowsTheTop
<1>1. ASSUME IInv, ReportInv, phase = "done"
      PROVE  /\ Cardinality(top) = IF topFilter < Cardinality(RowKeys) THEN topFilter
                                   ELSE Cardinality(RowKeys)
             /\ \A e \in top, f \in RowKeys \ top : Above(e, f)
             /\ \A e \in top : SumOf(e) > 0
             /\ \A e, f \in top : e <= f => occurences[<<e, f>>] = contexts[<<e, f>>]
  <2>1. TopInv /\ keys = {}
    BY <1>1 DEF ReportInv, TopInv
  <2>2. LookedAt = RowKeys
    BY <2>1 DEF LookedAt
  <2> QED  BY <1>1, <2>1, <2>2, SumIsPositive DEF TopInv
<1>2. ASSUME IInv, ReportInv, phase = "undefined"
      PROVE  topFilter = 0 \/ \A k \in DOMAIN added : added[k] = <<>>
  <2> SUFFICES ASSUME topFilter # 0, NEW k \in DOMAIN added, added[k] # <<>> PROVE FALSE
    OBVIOUS
  <2>1. RowKeys = {} /\ RowKeys = Live \cup zero_keys /\ pc = "idle"
    BY <1>2 DEF ReportInv, TopInv, ResultsInv
  <2>2. k \in 1..Len(added)
    BY <1>2 DEF IInv, TypeOK
  <2>3. Live # {}
    BY <1>2, <2>1, <2>2 DEF ReportInv, HistoryInv, Live
  <2> QED  BY <2>1, <2>3
<1>3. IInv /\ ReportInv => GraphShowsTheTop
  BY <1>1, <1>2 DEF GraphShowsTheTop
<1> QED  BY <1>3, ReportIsCorrect, PTL
=============================================================================
