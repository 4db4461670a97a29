---------------------------- MODULE CoOccurrence ----------------------------
(***************************************************************************)
(* CoOccurrenceMatrix: the counts behind pair_search.  add_program is      *)
(* called once for every selected program.  It walks the program's matches *)
(* in order with it0 and, for each, backwards with it1 over the matches at *)
(* most distance before it, and counts for every pair of expressions       *)
(*   totals    the pairs of matches,                                       *)
(*   programs  the programs with such a pair,                              *)
(*   contexts  the programs with a pair in surroundings never seen before. *)
(* The diagonal counts single matches.                                     *)
(*                                                                         *)
(* A match is a record of its position, its expression, and the text to    *)
(* its left and right that is hashed; different texts are taken to have    *)
(* different hashes.  Expressions are numbered in the order of their       *)
(* spelling.  The hash counts are only ever compared with 0, so the tables *)
(* are kept as the sets of hashes counted.                                 *)
(***************************************************************************)
EXTENDS Integers, Sequences, FiniteSets

CONSTANTS
  Expressions,   (* The search expressions.                                *)
  Windows,       (* The texts that may stand left or right of a match.     *)
  Programs,      (* The match lists of the programs that may be added.     *)
  Distance,      (* The distance of the search.                            *)
  MaxPrograms    (* Bound on the number of programs added.                 *)

Matches == [pos : Nat, expr : Expressions, left : Windows, right : Windows]

Precedes(m, n) == m.pos < n.pos \/ (m.pos = n.pos /\ m.expr <= n.expr)

ASSUME ExpressionsAssumption == Expressions \subseteq Int /\ IsFiniteSet(Expressions)
ASSUME DistanceAssumption == Distance \in Nat
ASSUME ProgramsAssumption ==
  \* std::sort orders the list of matches by position, then by expression.
  /\ Programs \subseteq Seq(Matches)
  /\ \A m \in Programs : \A j, k \in 1..Len(m) : j < k => Precedes(m[j], m[k])

Pairs == Expressions \X Expressions

VARIABLES
  positions,        (* The matches of the program being added.          *)
  it0, it1,         (* The iterators.                                   *)
  contexts, programs, totals,  (* The three counts of cooccurrences.    *)
  seen,             (* left_hash_cnts and right_hash_cnts of e: entry   *)
                    (* <<e, e>>.  The four tables of an oriented pair,  *)
                    (* pair_hash_cnts[e][f]: entry <<e, f>>.            *)
  program_added,    (* program_added_pairs                              *)
  context_added,    (* context_added_pairs                              *)
  added,            (* The programs added so far, the current one last. *)
  pc                (* "idle" or "scan".                                *)

counts == <<contexts, programs, totals, seen, program_added, context_added>>
vars == <<positions, it0, it1, counts, added, pc>>

Init ==
  /\ positions = <<>>
  /\ it0 = 1
  /\ it1 = 1
  /\ contexts = [p \in Pairs |-> 0]
  /\ programs = [p \in Pairs |-> 0]
  /\ totals = [p \in Pairs |-> 0]
  /\ seen = [p \in Pairs |-> {}]
  /\ program_added = {}
  /\ context_added = {}
  /\ added = <<>>
  /\ pc = "idle"

\* Mutant: the pairs of the program before still count as added.
AddProgramKeepsPairs(program) ==
  /\ pc = "idle"
  /\ Len(added) < MaxPrograms
  /\ positions' = program
  /\ it0' = 1
  /\ it1' = 1
  /\ context_added' = {}
  /\ added' = Append(added, program)
  /\ pc' = "scan"
  /\ UNCHANGED <<contexts, programs, totals, seen, program_added>>

\* add_program is called.
AddProgram(program) ==
  /\ pc = "idle"
  /\ Len(added) < MaxPrograms
  /\ positions' = program
  /\ it0' = 1
  /\ it1' = 1
  /\ program_added' = {}
  /\ context_added' = {}
  /\ added' = Append(added, program)
  /\ pc' = "scan"
  /\ UNCHANGED <<contexts, programs, totals, seen>>

\* The hashes entered for a single match and for a pair, the earlier first.
HashesOf(m) == {<<"left", m.left>>, <<"right", m.right>>}
\* Mutant: two of the four tables.
PairHashesByOneSide(m, n) ==
  {<<"left left", m.left, n.left>>, <<"right right", m.right, n.right>>}

PairHashesOf(m, n) ==
  {<<"left left", m.left, n.left>>, <<"left right", m.left, n.right>>,
   <<"right left", m.right, n.left>>, <<"right right", m.right, n.right>>}

\* One occurrence is counted in cell, once per program under key, and its
\* hashes are looked up and entered in table.
Count(cell, key, table, hashes) ==
  LET isNewProgram == key \notin program_added
      isNewContext == seen[table] \cap hashes = {} /\ key \notin context_added
  IN  /\ totals' = [totals EXCEPT ![cell] = @ + 1]
      /\ programs' = IF isNewProgram THEN [programs EXCEPT ![cell] = @ + 1] ELSE programs
      /\ program_added' = program_added \cup {key}
      /\ seen' = [seen EXCEPT ![table] = @ \cup hashes]
      /\ contexts' = IF isNewContext THEN [contexts EXCEPT ![cell] = @ + 1] ELSE contexts
      /\ context_added' = IF isNewContext THEN context_added \cup {key} ELSE context_added

\* The condition of the inner loop.
InReach == it1 >= 1 /\ positions[it0].pos - positions[it1].pos <= Distance

InnerLoop ==
  /\ pc = "scan"
  /\ it0 <= Len(positions)
  /\ InReach
  /\ it1' = it1 - 1
  /\ UNCHANGED <<positions, it0, added, pc>>

e0 == positions[it0].expr
e1 == positions[it1].expr

\* "if points to the same match"
SameMatch ==
  /\ InnerLoop
  /\ positions[it0].pos = positions[it1].pos
  /\ Count(<<e0, e1>>, <<e0, e0>>, <<e0, e0>>, HashesOf(positions[it0]))

\* Counted under the lesser expression first, whatever the order in the text;
\* looked up under the order in the text.
DifferentMatches ==
  /\ InnerLoop
  /\ positions[it0].pos # positions[it1].pos
  /\ e0 # e1
  /\ LET pair == IF e0 < e1 THEN <<e0, e1>> ELSE <<e1, e0>>
     IN  Count(pair, pair, <<e1, e0>>, PairHashesOf(positions[it1], positions[it0]))

SameExpression ==
  /\ InnerLoop
  /\ positions[it0].pos # positions[it1].pos
  /\ e0 = e1
  /\ UNCHANGED counts

\* Mutant: it1 starts one match before it0.
NextMatchFromBefore ==
  /\ pc = "scan"
  /\ it0 <= Len(positions)
  /\ ~InReach
  /\ it0' = it0 + 1
  /\ it1' = it0
  /\ UNCHANGED <<positions, counts, added, pc>>

NextMatch ==
  /\ pc = "scan"
  /\ it0 <= Len(positions)
  /\ ~InReach
  /\ it0' = it0 + 1
  /\ it1' = it0 + 1
  /\ UNCHANGED <<positions, counts, added, pc>>

Return ==
  /\ pc = "scan"
  /\ it0 > Len(positions)
  /\ pc' = "idle"
  /\ UNCHANGED <<positions, it0, it1, counts, added>>

Next ==
  \/ \E program \in Programs : AddProgram(program)
  \/ SameMatch \/ DifferentMatches \/ SameExpression
  \/ NextMatch \/ Return

Spec == Init /\ [][Next]_vars
------------------------------------------------------------------------------
TypeOK ==
  /\ positions \in Seq(Matches)
  /\ it0 \in 1..(Len(positions) + 1)
  /\ it1 \in 0..it0
  /\ contexts \in [Pairs -> Nat]
  /\ programs \in [Pairs -> Nat]
  /\ totals \in [Pairs -> Nat]
  /\ DOMAIN seen = Pairs
  /\ program_added \subseteq Pairs
  /\ context_added \subseteq Pairs
  /\ added \in Seq(Programs)
  /\ pc \in {"idle", "scan"}

\* In every cell a context is counted only with its program, and a program
\* only with an occurrence; no cell counts more programs than were added.
CountsNested ==
  \A p \in Pairs :
    contexts[p] <= programs[p] /\ programs[p] <= totals[p] /\ programs[p] <= Len(added)

\* Two expressions with a common context each have a context of their own:
\* the diagonal entry, which the size and the correlation of the graph are
\* divided by, is not 0 where an entry beside it is not.
DiagonalCovers ==
  \A e, f \in Expressions :
    totals[<<e, f>>] > 0 => contexts[<<e, e>>] > 0 /\ contexts[<<f, f>>] > 0

------------------------------------------------------------------------------
(* What the counts mean, from the programs added alone. *)

\* The occurrences of a pair of expressions in the programs added: program n,
\* with match j and an earlier match i within distance (i = j on the diagonal).
Occurrences(e, f) ==
  {o \in UNION {{n} \X (DOMAIN added[n]) \X (DOMAIN added[n]) : n \in DOMAIN added} :
     LET m == added[o[1]]
     IN  /\ o[3] <= o[2]
         /\ m[o[2]].pos - m[o[3]].pos <= Distance
         /\ {m[o[2]].expr, m[o[3]].expr} = {e, f}
         /\ e = f <=> o[2] = o[3]}

\* The order in which the two loops meet them.
Before(o, u) ==
  \/ o[1] < u[1]
  \/ o[1] = u[1] /\ o[2] < u[2]
  \/ o[1] = u[1] /\ o[2] = u[2] /\ o[3] > u[3]

\* "(A,B,Al,Ar,Bl,Br,p) == (C,D,Cl,Cr,Dl,Dr,q)"
SameContext(o, u) ==
  LET second(x) == added[x[1]][x[2]]
      first(x) == added[x[1]][x[3]]
      alike(m, n) == m.left = n.left \/ m.right = n.right
  IN  /\ first(o).expr = first(u).expr
      /\ alike(first(o), first(u))
      /\ alike(second(o), second(u))

OneMatchPerPosition(m) == \A j, k \in DOMAIN m : m[j].pos = m[k].pos => j = k

\* When add_program returns, the entry of every pair of expressions
\* counts its occurrences, the programs that hold one, and the programs that
\* hold one unlike all that came before it, in whatever programs they were:
\* the four tables decide the equivalence of the comment exactly.  This is so
\* while no two expressions match at the same character.
CountsMeanWhatTheySay ==
  pc = "scan" /\ it0 > Len(positions) /\ (\A k \in DOMAIN added : OneMatchPerPosition(added[k])) =>
    \A e, f \in Expressions : e <= f =>
      LET all == Occurrences(e, f)
          new == {o \in all : \A u \in all : Before(u, o) => ~SameContext(o, u)}
      IN  /\ totals[<<e, f>>] = Cardinality(all)
          /\ programs[<<e, f>>] = Cardinality({o[1] : o \in all})
          /\ contexts[<<e, f>>] = Cardinality({o[1] : o \in new})
==============================================================================
