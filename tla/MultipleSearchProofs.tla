------------------------ MODULE MultipleSearchProofs ------------------------
(***************************************************************************)
(* multiple_search for all search strings, entered once or more often, all *)
(* ranges of files and all windows: excerpts show the contexts of the      *)
(* range, the total line is the sum of the days, and every string has the  *)
(* contexts it would have if it were searched alone.                       *)
(***************************************************************************)
EXTENDS MultipleSearch, SequenceTheorems, FiniteLemmas

Counts == [contexts : Nat, programs : Nat, matches : Nat]

\* The loops stand on a program, a string and a match that are there.
TypeInv ==
  /\ search_strings \in Seq(Strings)
  /\ programs \in Seq(ProgramsOf)
  /\ p \in Nat \ {0} /\ ss \in Nat \ {0} /\ m \in Nat \ {0}
  /\ pc \in {"files", "programs", "matches", "done"}
  /\ pc = "matches" => p <= Len(programs) /\ ss <= Len(search_strings)
  /\ DOMAIN total = Strings
  /\ excerpts \in [Strings -> Seq(Matches)]
  /\ match_counts \in [Strings -> Counts]

\* The tables of the range hold both sides of every excerpt.
ExcerptsEntered ==
  \A s \in Strings : \A k \in DOMAIN excerpts[s] :
    excerpts[s][k].left \in total[s].left /\ excerpts[s][k].right \in total[s].right

Inv == TypeInv /\ ExcerptsEntered /\ ExcerptsShowContexts

LEMMA InitInv == Init => Inv
<1> SUFFICES ASSUME Init PROVE Inv
  OBVIOUS
<1>1. TypeInv
  BY SearchListsAssumption DEF Init, TypeInv, NoTables, Zero, Counts
<1>2. ExcerptsEntered /\ ExcerptsShowContexts
  BY DEF Init, ExcerptsEntered, ExcerptsShowContexts, AllUnlike, Zero
<1> QED  BY <1>1, <1>2 DEF Inv

\* What the loops stand on when a match is examined.
LEMMA AtHand ==
  ASSUME TypeInv, pc = "matches" \/ NextString
  PROVE  /\ string \in Strings
         /\ match_positions \in Seq(Matches)
<1>1. ss \in 1..Len(search_strings) /\ p \in 1..Len(programs)
  BY DEF TypeInv, NextString
<1>2. string \in Strings
  BY <1>1, ElementOfSeq DEF TypeInv, string
<1>3. programs[p] \in ProgramsOf
  BY <1>1, ElementOfSeq DEF TypeInv
<1> QED  BY <1>2, <1>3 DEF ProgramsOf, match_positions

\* One more context for one string.
LEMMA OneContextMore ==
  ASSUME NEW cnts \in [Strings -> Counts], NEW s \in Strings
  PROVE  LET more == [cnts EXCEPT ![s].contexts = @ + 1]
         IN  /\ more \in [Strings -> Counts]
             /\ more[s].contexts = cnts[s].contexts + 1
             /\ \A r \in Strings \ {s} : more[r] = cnts[r]
  BY DEF Counts

\* One more program, with n matches.
LEMMA OneProgramMore ==
  ASSUME NEW c \in Counts, NEW n \in Nat
  PROVE  [c EXCEPT !.programs = @ + 1, !.matches = @ + n] \in Counts
<1>1. [c EXCEPT !.programs = @ + 1] \in Counts
  BY DEF Counts
<1>2. ASSUME NEW d \in Counts PROVE [d EXCEPT !.matches = @ + n] \in Counts
  BY DEF Counts
<1>3. [c EXCEPT !.programs = @ + 1, !.matches = @ + n] =
        [[c EXCEPT !.programs = @ + 1] EXCEPT !.matches = @ + n]
  BY DEF Counts
<1> QED  BY <1>1, <1>2, <1>3

\* A match that is unlike what is in the tables is unlike all excerpts.
LEMMA AppendUnlike ==
  ASSUME NEW ex \in Seq(Matches), NEW match \in Matches, NEW t,
         AllUnlike(ex), IsNew(match, t),
         \A k \in DOMAIN ex : ex[k].left \in t.left /\ ex[k].right \in t.right
  PROVE  /\ Append(ex, match) \in Seq(Matches)
         /\ Len(Append(ex, match)) = Len(ex) + 1
         /\ AllUnlike(Append(ex, match))
         /\ \A k \in DOMAIN Append(ex, match) :
              /\ Append(ex, match)[k].left \in Enter(match, t).left
              /\ Append(ex, match)[k].right \in Enter(match, t).right
<1>1. /\ Append(ex, match) \in Seq(Matches)
      /\ Len(Append(ex, match)) = Len(ex) + 1
      /\ \A k \in 1..Len(ex) : Append(ex, match)[k] = ex[k]
      /\ Append(ex, match)[Len(ex) + 1] = match
  BY AppendProperties
<1>2. DOMAIN Append(ex, match) = 1..(Len(ex) + 1) /\ DOMAIN ex = 1..Len(ex) /\ Len(ex) \in Nat
  BY <1>1
<1> HIDE DEF Matches
<1>3. AllUnlike(Append(ex, match))
  BY <1>1, <1>2 DEF AllUnlike, IsNew
<1>4. \A k \in DOMAIN Append(ex, match) :
        /\ Append(ex, match)[k].left \in Enter(match, t).left
        /\ Append(ex, match)[k].right \in Enter(match, t).right
  BY <1>1, <1>2 DEF Enter
<1> QED  BY <1>1, <1>3, <1>4

\* Only Examine touches the excerpts, and the tables and counts beside them.
LEMMA TypeStep ==
  ASSUME TypeInv, [Next]_vars
  PROVE  TypeInv'
<1> USE DEF files, tables, sums, vars
<1> HIDE DEF TypeInv
<1>1. CASE MissingFile \/ CorruptFile
  BY <1>1 DEF TypeInv, MissingFile, CorruptFile, NextFile
<1>2. ASSUME NEW content \in Files, OpenFile(content) PROVE TypeInv'
  BY <1>2, FilesAssumption DEF TypeInv, OpenFile, NextFile
<1>3. CASE StringWithoutMatch
  BY <1>3 DEF TypeInv, StringWithoutMatch, NextString
<1>4. CASE StringWithMatches
  <2>1. string \in Strings /\ match_positions \in Seq(Matches)
    BY <1>4, AtHand DEF StringWithMatches
  <2>2. match_counts' \in [Strings -> Counts]
    <3> DEFINE len == Len(match_positions)
    <3>1. match_counts' = [match_counts EXCEPT ![string].programs = @ + 1, ![string].matches = @ + len]
      BY <1>4 DEF StringWithMatches, WithMatches
    <3>2. len \in Nat
      BY <2>1
    <3>3. match_counts \in [Strings -> Counts]
      BY DEF TypeInv
    <3> HIDE DEF len
    <3>4. [match_counts[string] EXCEPT !.programs = @ + 1, !.matches = @ + len] \in Counts
      BY <2>1, <3>2, <3>3, OneProgramMore
    <3>5. match_counts' = [match_counts EXCEPT ![string] =
                             [match_counts[string] EXCEPT !.programs = @ + 1, !.matches = @ + len]]
      BY <2>1, <3>1, <3>3 DEF Counts
    <3> QED  BY <2>1, <3>3, <3>4, <3>5
  <2> QED  BY <1>4, <2>2 DEF TypeInv, StringWithMatches, NextString
<1>5. CASE Examine
  <2>1. string \in Strings /\ match_positions \in Seq(Matches)
    BY <1>5, AtHand DEF Examine
  <2>2. m \in 1..Len(match_positions)
    BY <1>5 DEF Examine, TypeInv
  <2>3. match_positions[m] \in Matches
    BY <2>1, <2>2, ElementOfSeq
  <2>4. DOMAIN total' = Strings
    BY <1>5 DEF Examine, TypeInv
  <2>5. match_counts' \in [Strings -> Counts]
    BY <1>5, <2>1, OneContextMore DEF Examine, TypeInv
  <2>6. excerpts' \in [Strings -> Seq(Matches)]
    <3>1. Append(excerpts[string], match_positions[m]) \in Seq(Matches)
      BY <2>1, <2>3, AppendProperties DEF TypeInv
    <3> QED  BY <1>5, <2>1, <3>1 DEF Examine, TypeInv
  <2> QED  BY <1>5, <2>4, <2>5, <2>6 DEF TypeInv, Examine
<1>6. CASE EndOfString
  BY <1>6 DEF TypeInv, EndOfString
<1>7. CASE EndOfProgram
  BY <1>7 DEF TypeInv, EndOfProgram
<1>8. CASE EndOfFile
  BY <1>8 DEF TypeInv, EndOfFile
<1>9. CASE Finish
  BY <1>9 DEF TypeInv, Finish
<1>10. CASE UNCHANGED vars
  BY <1>10 DEF TypeInv
<1> QED
  BY <1>1, <1>2, <1>3, <1>4, <1>5, <1>6, <1>7, <1>8, <1>9, <1>10 DEF Next

\* An excerpt is kept only if it is new to the tables of the range, which hold
\* the excerpts before it; and a context is counted only along with one.
LEMMA ExcerptsStep ==
  ASSUME Inv, [Next]_vars
  PROVE  ExcerptsEntered' /\ ExcerptsShowContexts'
<1> USE DEF files, tables, sums, vars
<1>1. CASE Examine
  <2> DEFINE match == match_positions[m]
  <2>1. string \in Strings /\ match_positions \in Seq(Matches)
    BY <1>1, AtHand DEF Examine, Inv
  <2>2. m \in 1..Len(match_positions)
    BY <1>1 DEF Examine, Inv, TypeInv
  <2>3. match \in Matches
    BY <2>1, <2>2, ElementOfSeq
  <2> HIDE DEF match
  <2>4. /\ \A s \in Strings : excerpts[s] \in Seq(Matches)
        /\ match_counts \in [Strings -> Counts]
        /\ DOMAIN total = Strings
    BY DEF Inv, TypeInv
  <2>5. total' = [total EXCEPT ![string] = Enter(match, @)]
    BY <1>1 DEF Examine, match
  <2>6. \/ UNCHANGED <<excerpts, match_counts>>
        \/ /\ IsNew(match, total[string])
           /\ excerpts' = [excerpts EXCEPT ![string] = Append(@, match)]
           /\ match_counts' \in {match_counts, [match_counts EXCEPT ![string].contexts = @ + 1]}
    BY <1>1 DEF Examine, IsKept, match
  <2>7. \A s \in Strings : total[s].left \subseteq total'[s].left /\ total[s].right \subseteq total'[s].right
    BY <2>1, <2>4, <2>5 DEF Enter
  <2>8. CASE UNCHANGED <<excerpts, match_counts>>
    BY <2>7, <2>8 DEF Inv, ExcerptsEntered, ExcerptsShowContexts
  <2>9. CASE /\ IsNew(match, total[string])
             /\ excerpts' = [excerpts EXCEPT ![string] = Append(@, match)]
             /\ match_counts' \in {match_counts, [match_counts EXCEPT ![string].contexts = @ + 1]}
    <3> DEFINE ex == excerpts[string]
    <3>1. /\ ex \in Seq(Matches)
          /\ AllUnlike(ex)
          /\ match_counts[string].contexts <= Len(ex)
          /\ \A k \in DOMAIN ex : ex[k].left \in total[string].left /\ ex[k].right \in total[string].right
      BY <2>1, <2>4 DEF Inv, ExcerptsEntered, ExcerptsShowContexts
    <3>2. excerpts'[string] = Append(ex, match) /\ \A s \in Strings \ {string} : excerpts'[s] = excerpts[s]
      BY <2>1, <2>9 DEF Inv, TypeInv
    <3>3. total'[string] = Enter(match, total[string])
      BY <2>1, <2>4, <2>5
    <3>4. /\ Len(excerpts'[string]) = Len(ex) + 1
          /\ AllUnlike(excerpts'[string])
          /\ \A k \in DOMAIN excerpts'[string] : /\ excerpts'[string][k].left \in total'[string].left
                                                 /\ excerpts'[string][k].right \in total'[string].right
      <4> HIDE DEF ex
      <4>1. PICK t, longer : t = total[string] /\ longer = Append(ex, match)
        OBVIOUS
      <4>2. /\ ex \in Seq(Matches) /\ AllUnlike(ex) /\ match \in Matches /\ IsNew(match, t)
            /\ \A k \in DOMAIN ex : ex[k].left \in t.left /\ ex[k].right \in t.right
        BY <2>3, <2>9, <3>1, <4>1
      <4>3. /\ Len(longer) = Len(ex) + 1
            /\ AllUnlike(longer)
            /\ \A k \in DOMAIN longer : /\ longer[k].left \in Enter(match, t).left
                                        /\ longer[k].right \in Enter(match, t).right
        BY <4>1, <4>2, AppendUnlike, Zenon
      <4>4. excerpts'[string] = longer /\ total'[string] = Enter(match, t)
        BY <3>2, <3>3, <4>1
      <4> QED  BY <4>3, <4>4, Zenon
    <3>5. /\ match_counts'[string].contexts <= Len(excerpts'[string])
          /\ \A s \in Strings \ {string} : match_counts'[s] = match_counts[s]
      <4>1. match_counts[string].contexts \in Nat /\ Len(ex) \in Nat
        BY <2>1, <2>4, <3>1 DEF Counts
      <4>2. /\ match_counts'[string].contexts <= match_counts[string].contexts + 1
            /\ \A s \in Strings \ {string} : match_counts'[s] = match_counts[s]
        <5>1. CASE match_counts' = match_counts
          BY <4>1, <5>1
        <5>2. CASE match_counts' = [match_counts EXCEPT ![string].contexts = @ + 1]
          BY <2>1, <2>4, <4>1, <5>2, OneContextMore
        <5> QED  BY <2>9, <5>1, <5>2
      <4>3. match_counts'[string].contexts \in Nat
        BY <2>1, TypeStep DEF Inv, TypeInv, Counts
      <4> HIDE DEF ex
      <4> QED  BY <3>1, <3>4, <4>1, <4>2, <4>3
    <3> QED
      BY <2>7, <3>2, <3>4, <3>5 DEF Inv, ExcerptsEntered, ExcerptsShowContexts
  <2> QED  BY <2>6, <2>8, <2>9
<1>2. CASE StringWithMatches
  <2>1. string \in Strings /\ match_counts \in [Strings -> Counts]
    BY <1>2, AtHand DEF StringWithMatches, Inv, TypeInv
  <2>2. \A s \in Strings : match_counts'[s].contexts = match_counts[s].contexts
    BY <1>2, <2>1 DEF StringWithMatches, WithMatches, Counts
  <2> QED  BY <1>2, <2>2 DEF StringWithMatches, Inv, ExcerptsEntered, ExcerptsShowContexts
<1>3. ASSUME UNCHANGED <<total, excerpts, match_counts>>
      PROVE  ExcerptsEntered' /\ ExcerptsShowContexts'
  BY <1>3 DEF Inv, ExcerptsEntered, ExcerptsShowContexts
<1>4. \/ Examine \/ StringWithMatches \/ UNCHANGED <<total, excerpts, match_counts>>
  BY DEF Next, MissingFile, CorruptFile, OpenFile, StringWithoutMatch, EndOfString, EndOfProgram,
         EndOfFile, Finish
<1> QED  BY <1>1, <1>2, <1>3, <1>4

\* Types, and what the tables of the range say of the excerpts, in every run.
THEOREM InvCorrect == Spec => []Inv
<1>1. Inv /\ [Next]_vars => Inv'
  BY TypeStep, ExcerptsStep DEF Inv
<1> QED  BY <1>1, InitInv, PTL DEF Spec

\* For all lists of search strings, entered twice or not, no two excerpts of a
\* string share a side, and there are at least as many as contexts in its total.
THEOREM ExcerptsShowAllContexts == Spec => []ExcerptsShowContexts
<1>1. Inv => ExcerptsShowContexts
  BY DEF Inv
<1> QED  BY <1>1, InvCorrect, PTL
------------------------------------------------------------------------------
(* That the total line adds up.                                            *)

RowsOf(n) == [dt : Nat, selected : Nat, cnts : [1..n -> Counts]]

\* While a file is open its counts are in no row yet.
FileIsOpen == pc \in {"programs", "matches"}
Today(k, f) == IF FileIsOpen THEN daily_match_counts[search_strings[k]][f] ELSE 0

SumTypes ==
  /\ it \in 1..(NumFiles + 1)
  /\ search_results \in Seq(RowsOf(Len(search_strings)))
  /\ missing_files \in Seq(1..NumFiles)
  /\ corrupt_files \in Seq(1..NumFiles)
  /\ daily_match_counts \in [Strings -> Counts]
  /\ total_programs_cnt \in Nat
  /\ DOMAIN day = Strings
  /\ context_added \in BOOLEAN /\ total_context_added \in BOOLEAN
  /\ FileIsOpen => it <= NumFiles
  /\ \A n \in DOMAIN search_results : search_results[n].dt < it

SelectedAddUp ==
  total_programs_cnt =
    SelectedIn(search_results) + IF FileIsOpen THEN Len(programs) ELSE 0

CountsAddUp ==
  \A k \in DOMAIN search_strings : \A f \in {"programs", "matches"} :
    match_counts[search_strings[k]][f] = Column(search_results, k, f) + Today(k, f)

\* The program at hand counts in the day of a string, and not yet in the range.
OnlyInDay(s) == pc = "matches" /\ s = string /\ context_added /\ ~total_context_added

ContextsAtMost ==
  \A k \in DOMAIN search_strings :
    LET s == search_strings[k]
    IN  match_counts[s].contexts + (IF OnlyInDay(s) THEN 1 ELSE 0)
          <= Column(search_results, k, "contexts") + Today(k, "contexts")

\* The tables of the range have an entry only after the first context.
ContextsIfAny ==
  /\ \A s \in Strings :
       /\ match_counts[s].contexts = 0 => total[s].left = {} /\ total[s].right = {}
       /\ day[s].left \subseteq total[s].left /\ day[s].right \subseteq total[s].right
  /\ \A k \in DOMAIN search_strings :
       match_counts[search_strings[k]].contexts = 0 =>
         Column(search_results, k, "contexts") + Today(k, "contexts") = 0
  /\ pc = "matches" /\ total_context_added => match_counts[string].contexts > 0 /\ context_added

DaysAddUp ==
  /\ SumTypes /\ FilesAreListed(search_results, it - 1)
  /\ SelectedAddUp /\ CountsAddUp /\ ContextsAtMost /\ ContextsIfAny

SumInv == (pc # "done" => DaysAddUp) /\ TotalLineAddsUp

\* A row more adds its numbers to the sums.
LEMMA ColumnAppend ==
  ASSUME NEW n \in Nat, NEW rows \in Seq(RowsOf(n)), NEW row \in RowsOf(n), NEW k \in 1..n,
         NEW f \in {"contexts", "programs", "matches"}
  PROVE  /\ Column(rows, k, f) \in Int
         /\ Column(Append(rows, row), k, f) = Column(rows, k, f) + row.cnts[k][f]
<1> DEFINE more == Append(rows, row)
           x == [j \in DOMAIN rows |-> rows[j].cnts[k][f]]
           y == [j \in DOMAIN more |-> more[j].cnts[k][f]]
<1>1. ASSUME NEW r \in RowsOf(n) PROVE r.cnts[k][f] \in Int
  <2>1. r.cnts[k] \in Counts
    BY DEF RowsOf
  <2>2. \A c \in Counts : c[f] \in Int
    BY DEF Counts
  <2> QED  BY <2>1, <2>2
<1>2. /\ more \in Seq(RowsOf(n)) /\ Len(more) = Len(rows) + 1 /\ Len(rows) \in Nat
      /\ (\A j \in 1..Len(rows) : more[j] = rows[j]) /\ more[Len(rows) + 1] = row
  BY AppendProperties
<1> HIDE DEF more
<1> HIDE DEF RowsOf
<1>3. x \in Seq(Int) /\ Len(x) = Len(rows)
  <2>1. DOMAIN rows = 1..Len(rows) /\ \A j \in 1..Len(rows) : rows[j] \in RowsOf(n)
    BY ElementOfSeq, LenProperties
  <2>2. x \in [1..Len(rows) -> Int]
    BY <1>1, <2>1
  <2> HIDE DEF x
  <2> QED  BY <1>2, <2>2
<1>4. y \in Seq(Int) /\ Len(y) = Len(rows) + 1
  BY <1>1, <1>2
<1>5. (\A j \in 1..Len(rows) : y[j] = x[j]) /\ y[Len(rows) + 1] = row.cnts[k][f]
  BY <1>2
<1> HIDE DEF x, y
<1>6. SumSeq(y) = SumSeq(x) + row.cnts[k][f] /\ SumSeq(x) \in Int
  BY <1>3, <1>4, <1>5, SumLonger, SumType
<1> QED  BY <1>6 DEF Column, x, y, more

LEMMA SelectedAppend ==
  ASSUME NEW n \in Nat, NEW rows \in Seq(RowsOf(n)), NEW row \in RowsOf(n)
  PROVE  /\ SelectedIn(rows) \in Int
         /\ SelectedIn(Append(rows, row)) = SelectedIn(rows) + row.selected
<1> DEFINE more == Append(rows, row)
           x == [j \in DOMAIN rows |-> rows[j].selected]
           y == [j \in DOMAIN more |-> more[j].selected]
<1>1. \A r \in RowsOf(n) : r.selected \in Int
  BY DEF RowsOf
<1>2. /\ more \in Seq(RowsOf(n)) /\ Len(more) = Len(rows) + 1 /\ Len(rows) \in Nat
      /\ (\A j \in 1..Len(rows) : more[j] = rows[j]) /\ more[Len(rows) + 1] = row
  BY AppendProperties
<1> HIDE DEF more
<1> HIDE DEF RowsOf
<1>3. x \in Seq(Int) /\ Len(x) = Len(rows)
  <2>1. DOMAIN rows = 1..Len(rows) /\ \A j \in 1..Len(rows) : rows[j] \in RowsOf(n)
    BY ElementOfSeq, LenProperties
  <2>2. x \in [1..Len(rows) -> Int]
    BY <1>1, <2>1
  <2> HIDE DEF x
  <2> QED  BY <1>2, <2>2
<1>4. y \in Seq(Int) /\ Len(y) = Len(rows) + 1
  BY <1>1, <1>2
<1>5. (\A j \in 1..Len(rows) : y[j] = x[j]) /\ y[Len(rows) + 1] = row.selected
  BY <1>2
<1> HIDE DEF x, y
<1>6. SumSeq(y) = SumSeq(x) + row.selected /\ SumSeq(x) \in Int
  BY <1>3, <1>4, <1>5, SumLonger, SumType
<1> QED  BY <1>6 DEF SelectedIn, x, y, more

\* One program more for a string, with n matches.
WithProgram(cnts, s, n) == [cnts EXCEPT ![s].programs = @ + 1, ![s].matches = @ + n]

LEMMA ProgramCounted ==
  ASSUME NEW cnts \in [Strings -> Counts], NEW s \in Strings, NEW n \in Nat
  PROVE  LET more == WithProgram(cnts, s, n) IN
         /\ more \in [Strings -> Counts]
         /\ more[s].contexts = cnts[s].contexts
         /\ more[s].programs = cnts[s].programs + 1
         /\ more[s].matches = cnts[s].matches + n
         /\ \A r \in Strings \ {s} : more[r] = cnts[r]
<1> DEFINE more == WithProgram(cnts, s, n)
           c == cnts[s]
           d == [c EXCEPT !.programs = @ + 1, !.matches = @ + n]
<1>1. c \in Counts
  OBVIOUS
<1>2. d \in Counts
  <2> HIDE DEF c
  <2> QED  BY <1>1, OneProgramMore
<1>3. d.contexts = c.contexts /\ d.programs = c.programs + 1 /\ d.matches = c.matches + n
  BY <1>1 DEF Counts
<1>4. more = [cnts EXCEPT ![s] = d]
  BY DEF WithProgram, Counts
<1> HIDE DEF d, more
<1>5. /\ more \in [Strings -> Counts] /\ more[s] = d
      /\ \A r \in Strings \ {s} : more[r] = cnts[r]
  BY <1>2, <1>4
<1>6. PICK e : e = more
  OBVIOUS
<1> QED  BY <1>3, <1>5 DEF more

LEMMA InitSums == Init => SumInv
<1> SUFFICES ASSUME Init PROVE DaysAddUp /\ TotalLineAddsUp
  BY DEF SumInv
<1>1. /\ search_results = <<>> /\ missing_files = <<>> /\ corrupt_files = <<>>
      /\ total_programs_cnt = 0 /\ match_counts = Zero /\ daily_match_counts = Zero
      /\ it = 1 /\ pc = "files" /\ day = NoTables /\ total = NoTables
      /\ context_added = FALSE /\ total_context_added = FALSE
      /\ search_strings \in Seq(Strings)
  BY SearchListsAssumption DEF Init
<1>2. \A k, f : Column(<<>>, k, f) = 0
  <2> SUFFICES ASSUME NEW k, NEW f PROVE Column(<<>>, k, f) = 0
    OBVIOUS
  <2> DEFINE x == [n \in DOMAIN <<>> |-> <<>>[n].cnts[k][f]]
  <2>1. x = <<>>
    OBVIOUS
  <2> HIDE DEF x
  <2>2. SumSeq(x) = 0
    BY <2>1, SumEmpty
  <2> QED  BY <2>2 DEF Column, x
<1>3. SelectedIn(<<>>) = 0
  <2> DEFINE x == [n \in DOMAIN <<>> |-> <<>>[n].selected]
  <2>1. x = <<>>
    OBVIOUS
  <2> HIDE DEF x
  <2>2. SumSeq(x) = 0
    BY <2>1, SumEmpty
  <2> QED  BY <2>2 DEF SelectedIn, x
<1>4. Zero \in [Strings -> Counts] /\ \A s \in Strings : Zero[s] = [contexts |-> 0, programs |-> 0, matches |-> 0]
  BY DEF Zero, Counts
<1>5. \A k \in DOMAIN search_strings : search_strings[k] \in Strings
  BY <1>1, ElementOfSeq
<1>6. SumTypes
  <2>1. it \in 1..(NumFiles + 1)
    BY <1>1, NumFilesAssumption
  <2>2. search_results \in Seq(RowsOf(Len(search_strings))) /\ \A n \in DOMAIN search_results : FALSE
    BY <1>1
  <2>3. missing_files \in Seq(1..NumFiles) /\ corrupt_files \in Seq(1..NumFiles)
    BY <1>1
  <2>4. daily_match_counts \in [Strings -> Counts] /\ DOMAIN day = Strings
    BY <1>1, <1>4 DEF NoTables
  <2>5. context_added \in BOOLEAN /\ total_context_added \in BOOLEAN
    BY <1>1
  <2>6. ~FileIsOpen
    BY <1>1 DEF FileIsOpen
  <2> QED  BY <1>1, <2>1, <2>2, <2>3, <2>4, <2>5, <2>6 DEF SumTypes
<1>7. FilesAreListed(search_results, it - 1)
  BY <1>1 DEF FilesAreListed, ToSet
<1>8. SelectedAddUp /\ CountsAddUp /\ ContextsAtMost /\ ContextsIfAny
  <2>1. SelectedAddUp
    BY <1>1, <1>3 DEF SelectedAddUp, FileIsOpen
  <2>2. CountsAddUp
    BY <1>1, <1>2, <1>4, <1>5 DEF CountsAddUp, Today, FileIsOpen
  <2>3. ContextsAtMost
    BY <1>1, <1>2, <1>4, <1>5 DEF ContextsAtMost, OnlyInDay, Today, FileIsOpen
  <2>4. ContextsIfAny
    BY <1>1, <1>2, <1>4, <1>5 DEF ContextsIfAny, Today, FileIsOpen, NoTables, NoHashes
  <2> QED  BY <2>1, <2>2, <2>3, <2>4
<1>9. TotalLineAddsUp
  BY <1>1 DEF TotalLineAddsUp
<1> QED  BY <1>6, <1>7, <1>8, <1>9 DEF DaysAddUp

\* What a step on a string does to the counts.
LEMMA StringCounted ==
  ASSUME Inv, SumTypes, StringWithMatches
  PROVE  /\ string \in Strings
         /\ match_counts' \in [Strings -> Counts] /\ daily_match_counts' \in [Strings -> Counts]
         /\ \A s \in Strings \ {string} : match_counts'[s] = match_counts[s] /\ daily_match_counts'[s] = daily_match_counts[s]
         /\ match_counts'[string].contexts = match_counts[string].contexts
         /\ daily_match_counts'[string].contexts = daily_match_counts[string].contexts
         /\ \E n \in Nat :
              /\ n = Len(match_positions)
              /\ match_counts'[string].programs = match_counts[string].programs + 1
              /\ match_counts'[string].matches = match_counts[string].matches + n
              /\ daily_match_counts'[string].programs = daily_match_counts[string].programs + 1
              /\ daily_match_counts'[string].matches = daily_match_counts[string].matches + n
<1>1. string \in Strings /\ match_positions \in Seq(Matches)
  BY AtHand DEF StringWithMatches, Inv
<1> DEFINE n == Len(match_positions)
<1>2. n \in Nat
  BY <1>1
<1>3. /\ match_counts' = [match_counts EXCEPT ![string].programs = @ + 1, ![string].matches = @ + n]
      /\ daily_match_counts' = [daily_match_counts EXCEPT ![string].programs = @ + 1, ![string].matches = @ + n]
  BY DEF StringWithMatches, WithMatches
<1>4. match_counts \in [Strings -> Counts] /\ daily_match_counts \in [Strings -> Counts]
  BY DEF Inv, TypeInv, SumTypes
<1> HIDE DEF n
<1> DEFINE mc == WithProgram(match_counts, string, n)
           dc == WithProgram(daily_match_counts, string, n)
<1>7. /\ mc \in [Strings -> Counts]
      /\ mc[string].contexts = match_counts[string].contexts
      /\ mc[string].programs = match_counts[string].programs + 1
      /\ mc[string].matches = match_counts[string].matches + n
      /\ \A r \in Strings \ {string} : mc[r] = match_counts[r]
  BY <1>1, <1>2, <1>4, ProgramCounted
<1>8. /\ dc \in [Strings -> Counts]
      /\ dc[string].contexts = daily_match_counts[string].contexts
      /\ dc[string].programs = daily_match_counts[string].programs + 1
      /\ dc[string].matches = daily_match_counts[string].matches + n
      /\ \A r \in Strings \ {string} : dc[r] = daily_match_counts[r]
  BY <1>1, <1>2, <1>4, ProgramCounted
<1>9. match_counts' = mc /\ daily_match_counts' = dc
  BY <1>3 DEF WithProgram
<1> HIDE DEF mc, dc
<1>5. /\ match_counts' \in [Strings -> Counts]
      /\ match_counts'[string].contexts = match_counts[string].contexts
      /\ match_counts'[string].programs = match_counts[string].programs + 1
      /\ match_counts'[string].matches = match_counts[string].matches + n
      /\ \A r \in Strings \ {string} : match_counts'[r] = match_counts[r]
  BY <1>7, <1>9
<1>6. /\ daily_match_counts' \in [Strings -> Counts]
      /\ daily_match_counts'[string].contexts = daily_match_counts[string].contexts
      /\ daily_match_counts'[string].programs = daily_match_counts[string].programs + 1
      /\ daily_match_counts'[string].matches = daily_match_counts[string].matches + n
      /\ \A r \in Strings \ {string} : daily_match_counts'[r] = daily_match_counts[r]
  BY <1>8, <1>9
<1>10. n = Len(match_positions)
  BY DEF n
<1> QED  BY <1>1, <1>2, <1>5, <1>6, <1>10

\* c are the counts before a match, d those after: one context more at most.
OneMore(c, d, isMore) ==
  /\ d \in [Strings -> Counts]
  /\ d[string].programs = c[string].programs /\ d[string].matches = c[string].matches
  /\ d[string].contexts = c[string].contexts + (IF isMore THEN 1 ELSE 0)
  /\ \A s \in Strings \ {string} : d[s] = c[s]

LEMMA OneMoreIs ==
  ASSUME string \in Strings, NEW c \in [Strings -> Counts], NEW isMore \in BOOLEAN, NEW d,
         d = IF isMore THEN [c EXCEPT ![string].contexts = @ + 1] ELSE c
  PROVE  OneMore(c, d, isMore)
<1>1. PICK s \in Strings : s = string
  OBVIOUS
<1>2. c[s].contexts \in Nat
  BY DEF Counts
<1>3. CASE isMore
  <2>1. d = [c EXCEPT ![s].contexts = @ + 1]
    BY <1>1, <1>3
  <2> DEFINE more == [c EXCEPT ![s].contexts = @ + 1]
  <2>4. /\ more \in [Strings -> Counts]
        /\ more[s].contexts = c[s].contexts + 1
        /\ \A r \in Strings \ {s} : more[r] = c[r]
    BY OneContextMore
  <2>2. /\ d \in [Strings -> Counts]
        /\ d[s].contexts = c[s].contexts + 1
        /\ \A r \in Strings \ {s} : d[r] = c[r]
    <3> HIDE DEF more
    <3>1. d = more
      BY <2>1 DEF more
    <3> QED  BY <2>4, <3>1
  <2>3. d[s].programs = c[s].programs /\ d[s].matches = c[s].matches
    BY <2>1 DEF Counts
  <2> QED  BY <1>1, <1>3, <2>2, <2>3 DEF OneMore
<1>4. CASE ~isMore
  BY <1>1, <1>2, <1>4 DEF OneMore
<1> QED  BY <1>3, <1>4

\* What examining a match does to counts and tables.
LEMMA MatchCounted ==
  ASSUME Inv, SumTypes, Examine
  PROVE  /\ string \in Strings /\ string' = string
         /\ \E isNew, isKept \in BOOLEAN :
              /\ isKept => isNew
              /\ OneMore(daily_match_counts, daily_match_counts', isNew /\ ~context_added)
              /\ OneMore(match_counts, match_counts', isKept /\ ~total_context_added)
              /\ context_added' = (context_added \/ isNew)
              /\ total_context_added' = (total_context_added \/ isKept)
              /\ \E match \in Matches :
                   /\ isNew <=> IsNew(match, day[string])
                   /\ isKept <=> isNew /\ IsNew(match, total[string])
                   /\ day' = [day EXCEPT ![string] = Enter(match, @)]
                   /\ total' = [total EXCEPT ![string] = Enter(match, @)]
<1>1. string \in Strings /\ match_positions \in Seq(Matches)
  BY AtHand DEF Examine, Inv
<1>2. m \in 1..Len(match_positions)
  BY DEF Examine, Inv, TypeInv
<1>3. match_positions[m] \in Matches
  BY <1>1, <1>2, ElementOfSeq
<1>4. string' = string
  BY DEF Examine, files, string
<1> DEFINE isNew == IsNew(match_positions[m], day[string])
           isKept == isNew /\ IsNew(match_positions[m], total[string])
<1>5. isNew \in BOOLEAN /\ isKept \in BOOLEAN
  BY DEF IsNew
<1>6. /\ day' = [day EXCEPT ![string] = Enter(match_positions[m], @)]
      /\ total' = [total EXCEPT ![string] = Enter(match_positions[m], @)]
      /\ context_added' = (context_added \/ isNew)
      /\ total_context_added' = (total_context_added \/ isKept)
      /\ daily_match_counts' = IF isNew /\ ~context_added
           THEN [daily_match_counts EXCEPT ![string].contexts = @ + 1] ELSE daily_match_counts
      /\ match_counts' = IF isKept /\ ~total_context_added
           THEN [match_counts EXCEPT ![string].contexts = @ + 1] ELSE match_counts
  BY DEF Examine, IsKept
<1>7. match_counts \in [Strings -> Counts] /\ daily_match_counts \in [Strings -> Counts]
  BY DEF Inv, TypeInv, SumTypes
<1>8. (isNew /\ ~context_added) \in BOOLEAN /\ (isKept /\ ~total_context_added) \in BOOLEAN
  OBVIOUS
<1>9. /\ OneMore(daily_match_counts, daily_match_counts', isNew /\ ~context_added)
      /\ OneMore(match_counts, match_counts', isKept /\ ~total_context_added)
  <2> HIDE DEF isNew, isKept
  <2> QED  BY <1>1, <1>6, <1>7, <1>8, OneMoreIs
<1> QED  BY <1>1, <1>3, <1>4, <1>5, <1>6, <1>9, Zenon

LEMMA RowIsRow ==
  ASSUME Inv, SumTypes, FileIsOpen, NEW cnts \in [Strings -> Counts], NEW n \in Nat
  PROVE  /\ Row(it, cnts, n) \in RowsOf(Len(search_strings))
         /\ Row(it, cnts, n).dt = it /\ Row(it, cnts, n).selected = n
         /\ \A k \in DOMAIN search_strings : Row(it, cnts, n).cnts[k] = cnts[search_strings[k]]
<1>1. it \in Nat
  BY NumFilesAssumption DEF SumTypes
<1>2. DOMAIN search_strings = 1..Len(search_strings) /\ \A k \in DOMAIN search_strings : search_strings[k] \in Strings
  BY ElementOfSeq DEF Inv, TypeInv
<1> QED  BY <1>1, <1>2 DEF Row, RowsOf

\* The steps that leave the rows, and the totals, as they are.
LEMMA WorkTypes ==
  ASSUME Inv, SumTypes, Next, pc # "done", pc' # "done"
  PROVE  SumTypes'
<1>0. NumFiles \in Nat
  BY NumFilesAssumption
<1>d. \A j \in DOMAIN search_results : search_results[j].dt < it + 1
  <2> SUFFICES ASSUME NEW j \in DOMAIN search_results PROVE search_results[j].dt < it + 1
    OBVIOUS
  <2>1. search_results[j] \in RowsOf(Len(search_strings))
    BY ElementOfSeq DEF SumTypes
  <2>2. search_results[j].dt \in Nat /\ search_results[j].dt < it /\ it \in Nat
    BY <1>0, <2>1 DEF RowsOf, SumTypes
  <2> QED  BY <2>2
<1> USE DEF SumTypes, FileIsOpen, files, tables, sums
<1>1. CASE MissingFile
  <2>1. Append(missing_files, it) \in Seq(1..NumFiles) /\ it + 1 \in 1..(NumFiles + 1)
    BY <1>0, <1>1, AppendProperties DEF MissingFile, NextFile
  <2> QED  BY <1>0, <1>d, <1>1, <2>1 DEF MissingFile, NextFile
<1>2. CASE CorruptFile
  <2>1. Append(corrupt_files, it) \in Seq(1..NumFiles) /\ it + 1 \in 1..(NumFiles + 1)
    BY <1>0, <1>2, AppendProperties DEF CorruptFile, NextFile
  <2> QED  BY <1>0, <1>d, <1>2, <2>1 DEF CorruptFile, NextFile
<1>3. ASSUME NEW content \in Files, OpenFile(content) PROVE SumTypes'
  <2>1. Zero \in [Strings -> Counts] /\ DOMAIN NoTables = Strings
    BY DEF Zero, Counts, NoTables
  <2>2. content \in Seq(ProgramsOf)
    BY FilesAssumption
  <2>3. total_programs_cnt + Len(content) \in Nat
    BY <2>2
  <2> QED  BY <1>0, <1>3, <2>1, <2>3 DEF OpenFile, NextFile
<1>4. CASE StringWithoutMatch
  BY <1>4 DEF StringWithoutMatch, NextString
<1>5. CASE StringWithMatches
  <2>1. daily_match_counts' \in [Strings -> Counts]
    BY <1>5, StringCounted
  <2> QED  BY <1>5, <2>1 DEF StringWithMatches, NextString
<1>6. CASE Examine
  <2> HIDE DEF SumTypes
  <2>1. daily_match_counts' \in [Strings -> Counts] /\ DOMAIN day' = DOMAIN day
        /\ context_added' \in BOOLEAN /\ total_context_added' \in BOOLEAN
    BY <1>6, MatchCounted DEF OneMore
  <2> QED  BY <1>6, <2>1 DEF Examine, SumTypes
<1>7. CASE EndOfString
  BY <1>7 DEF EndOfString
<1>8. CASE EndOfProgram
  BY <1>8 DEF EndOfProgram
<1>9. CASE EndOfFile
  <2> DEFINE row == Row(it, daily_match_counts, Len(programs))
             rows == Append(search_results, row)
             n == Len(search_strings)
  <2>1. Len(programs) \in Nat /\ FileIsOpen
    BY <1>9 DEF Inv, TypeInv, EndOfFile
  <2>2. row \in RowsOf(n) /\ row.dt = it
    <3> HIDE DEF SumTypes, FileIsOpen
    <3>1. daily_match_counts \in [Strings -> Counts]
      BY DEF SumTypes
    <3> QED  BY <2>1, <3>1, RowIsRow
  <2> HIDE DEF row
  <2>3. /\ rows \in Seq(RowsOf(n)) /\ Len(rows) = Len(search_results) + 1 /\ Len(search_results) \in Nat
        /\ (\A j \in 1..Len(search_results) : rows[j] = search_results[j])
        /\ rows[Len(search_results) + 1] = row
    BY <2>2, AppendProperties
  <2> HIDE DEF rows
  <2>4. it \in 1..NumFiles /\ \A j \in 1..Len(search_results) : search_results[j].dt < it /\ search_results[j].dt \in Nat
    <3>1. \A j \in 1..Len(search_results) : search_results[j] \in RowsOf(n)
      BY ElementOfSeq
    <3>2. ASSUME NEW j \in 1..Len(search_results)
          PROVE  search_results[j].dt < it /\ search_results[j].dt \in Nat
      <4>1. search_results[j].dt \in Nat
        BY <3>1 DEF RowsOf
      <4>2. j \in DOMAIN search_results
        BY LenProperties
      <4> QED  BY <4>1, <4>2
    <3>3. it \in 1..NumFiles
      BY <1>0, <2>1
    <3> QED  BY <3>2, <3>3
  <2>5. ASSUME NEW j \in DOMAIN rows PROVE rows[j].dt < it + 1
    <3>1. j \in 1..(Len(search_results) + 1)
      BY <2>3
    <3>2. CASE j = Len(search_results) + 1
      BY <2>2, <2>3, <2>4, <3>2
    <3>3. CASE j # Len(search_results) + 1
      <4>1. j \in 1..Len(search_results)
        BY <2>3, <3>1, <3>3
      <4> QED  BY <2>3, <2>4, <4>1
    <3> QED  BY <3>2, <3>3
  <2>6. search_results' = rows /\ it' = it + 1 /\ ~FileIsOpen'
    BY <1>9 DEF EndOfFile, row, rows
  <2>7. it + 1 \in 1..(NumFiles + 1)
    BY <1>0, <2>4
  <2> QED  BY <1>9, <2>3, <2>5, <2>6, <2>7 DEF EndOfFile
<1>10. CASE Finish
  BY <1>10 DEF Finish
<1> QED
  BY <1>1, <1>2, <1>3, <1>4, <1>5, <1>6, <1>7, <1>8, <1>9, <1>10 DEF Next

\* Every file at hand goes to one of the three lists.
LEMMA WorkListed ==
  ASSUME Inv, SumTypes, FilesAreListed(search_results, it - 1), Next, pc # "done", pc' # "done"
  PROVE  FilesAreListed(search_results, it - 1)'
<1> DEFINE n == Len(search_strings)
           dates == {search_results[j].dt : j \in DOMAIN search_results}
<1>0. /\ NumFiles \in Nat /\ it \in 1..(NumFiles + 1)
      /\ missing_files \in Seq(1..NumFiles) /\ corrupt_files \in Seq(1..NumFiles)
      /\ search_results \in Seq(RowsOf(n))
  BY NumFilesAssumption DEF SumTypes
<1>1. /\ Len(search_results) \in Nat /\ Len(missing_files) \in Nat /\ Len(corrupt_files) \in Nat
      /\ Len(search_results) + Len(missing_files) + Len(corrupt_files) = it - 1
      /\ dates \cup ToSet(missing_files) \cup ToSet(corrupt_files) = 1..(it - 1)
  BY <1>0 DEF FilesAreListed
<1>2. 1..it = 1..(it - 1) \cup {it} /\ it + 1 - 1 = it
  BY <1>0
<1>3. \A s \in Seq(1..NumFiles) : it \in 1..NumFiles =>
        ToSet(Append(s, it)) = ToSet(s) \cup {it} /\ Len(Append(s, it)) = Len(s) + 1
  <2> SUFFICES ASSUME NEW s \in Seq(1..NumFiles), it \in 1..NumFiles
               PROVE  ToSet(Append(s, it)) = ToSet(s) \cup {it} /\ Len(Append(s, it)) = Len(s) + 1
    OBVIOUS
  <2>1. /\ Len(Append(s, it)) = Len(s) + 1 /\ Len(s) \in Nat
        /\ \A j \in 1..Len(s) : Append(s, it)[j] = s[j]
        /\ Append(s, it)[Len(s) + 1] = it
        /\ DOMAIN Append(s, it) = 1..(Len(s) + 1) /\ DOMAIN s = 1..Len(s)
    BY AppendProperties
  <2>2. 1..(Len(s) + 1) = 1..Len(s) \cup {Len(s) + 1}
    BY <2>1
  <2> QED  BY <2>1, <2>2 DEF ToSet
<1>4. CASE MissingFile
  <2>1. it \in 1..NumFiles /\ missing_files' = Append(missing_files, it) /\ it' = it + 1
        /\ UNCHANGED <<search_results, corrupt_files>>
    BY <1>0, <1>4 DEF MissingFile, NextFile, sums
  <2>2. /\ ToSet(missing_files)' = ToSet(missing_files) \cup {it}
        /\ Len(missing_files)' = Len(missing_files) + 1
    BY <1>0, <1>3, <2>1
  <2> HIDE DEF dates
  <2>3. dates \cup ToSet(missing_files)' \cup ToSet(corrupt_files) = 1..it
    BY <1>1, <1>2, <2>2
  <2>4. Len(search_results) + Len(missing_files)' + Len(corrupt_files) = it
    BY <1>0, <1>1, <2>2
  <2> QED  BY <1>2, <2>1, <2>3, <2>4 DEF FilesAreListed, dates
<1>5. CASE CorruptFile
  <2>1. it \in 1..NumFiles /\ corrupt_files' = Append(corrupt_files, it) /\ it' = it + 1
        /\ UNCHANGED <<search_results, missing_files>>
    BY <1>0, <1>5 DEF CorruptFile, NextFile, sums
  <2>2. /\ ToSet(corrupt_files)' = ToSet(corrupt_files) \cup {it}
        /\ Len(corrupt_files)' = Len(corrupt_files) + 1
    BY <1>0, <1>3, <2>1
  <2> HIDE DEF dates
  <2>3. dates \cup ToSet(missing_files) \cup ToSet(corrupt_files)' = 1..it
    BY <1>1, <1>2, <2>2
  <2>4. Len(search_results) + Len(missing_files) + Len(corrupt_files)' = it
    BY <1>0, <1>1, <2>2
  <2> QED  BY <1>2, <2>1, <2>3, <2>4 DEF FilesAreListed, dates
<1>6. CASE EndOfFile
  <2> DEFINE row == Row(it, daily_match_counts, Len(programs))
             rows == Append(search_results, row)
  <2>1. Len(programs) \in Nat /\ FileIsOpen
    BY <1>6 DEF Inv, TypeInv, EndOfFile, FileIsOpen
  <2>2. row \in RowsOf(n) /\ row.dt = it
    <3>1. daily_match_counts \in [Strings -> Counts]
      BY DEF SumTypes
    <3> QED  BY <2>1, <3>1, RowIsRow
  <2>3. search_results' = rows /\ it' = it + 1 /\ UNCHANGED <<missing_files, corrupt_files>>
    BY <1>6 DEF EndOfFile
  <2> HIDE DEF row
  <2>4. /\ Len(rows) = Len(search_results) + 1
        /\ (\A j \in 1..Len(search_results) : rows[j] = search_results[j])
        /\ rows[Len(search_results) + 1] = row
        /\ DOMAIN rows = 1..(Len(search_results) + 1) /\ DOMAIN search_results = 1..Len(search_results)
    BY <1>0, <2>2, AppendProperties
  <2> HIDE DEF rows
  <2>5. {rows[j].dt : j \in DOMAIN rows} = dates \cup {it}
    <3>1. 1..(Len(search_results) + 1) = 1..Len(search_results) \cup {Len(search_results) + 1}
      BY <1>1
    <3> QED  BY <2>2, <2>4, <3>1
  <2>6. ASSUME NEW j \in DOMAIN rows, NEW k \in DOMAIN rows, j < k
        PROVE  rows[j].dt < rows[k].dt
    <3>1. j \in 1..Len(search_results) /\ k \in 1..(Len(search_results) + 1)
      BY <1>1, <2>4, <2>6
    <3>2. CASE k = Len(search_results) + 1
      BY <2>2, <2>4, <3>1, <3>2 DEF SumTypes
    <3>3. CASE k # Len(search_results) + 1
      <4>1. k \in 1..Len(search_results)
        BY <1>1, <3>1, <3>3
      <4> QED  BY <2>4, <2>6, <3>1, <4>1 DEF FilesAreListed
    <3> QED  BY <3>2, <3>3
  <2> HIDE DEF dates
  <2>7. {rows[j].dt : j \in DOMAIN rows} \cup ToSet(missing_files) \cup ToSet(corrupt_files) = 1..it
    BY <1>1, <1>2, <2>5
  <2>8. Len(rows) + Len(missing_files) + Len(corrupt_files) = it
    BY <1>0, <1>1, <2>4
  <2> QED  BY <1>2, <2>3, <2>6, <2>7, <2>8 DEF FilesAreListed
<1>7. CASE UNCHANGED <<search_results, missing_files, corrupt_files, it>>
  BY <1>7 DEF FilesAreListed
<1>8. \/ MissingFile \/ CorruptFile \/ EndOfFile
      \/ UNCHANGED <<search_results, missing_files, corrupt_files, it>>
  BY DEF Next, OpenFile, StringWithoutMatch, StringWithMatches, Examine, EndOfString, EndOfProgram,
         Finish, files, tables, sums
<1> QED  BY <1>4, <1>5, <1>6, <1>7, <1>8

LEMMA StringsAreStrings ==
  ASSUME Inv
  PROVE  /\ DOMAIN search_strings = 1..Len(search_strings) /\ Len(search_strings) \in Nat
         /\ \A k \in DOMAIN search_strings : search_strings[k] \in Strings
BY ElementOfSeq DEF Inv, TypeInv

\* The row of a day takes over what the day had.
LEMMA RowTakesOver ==
  ASSUME Inv, SumTypes, EndOfFile
  PROVE  /\ \A k \in DOMAIN search_strings : \A f \in {"contexts", "programs", "matches"} :
              /\ Column(search_results, k, f) \in Int
              /\ daily_match_counts[search_strings[k]][f] \in Nat
              /\ Column(search_results', k, f) =
                   Column(search_results, k, f) + daily_match_counts[search_strings[k]][f]
         /\ SelectedIn(search_results) \in Int
         /\ SelectedIn(search_results') = SelectedIn(search_results) + Len(programs)
<1> DEFINE row == Row(it, daily_match_counts, Len(programs))
           n == Len(search_strings)
<1>1. Len(programs) \in Nat /\ FileIsOpen
  BY DEF Inv, TypeInv, EndOfFile, FileIsOpen
<1>2. daily_match_counts \in [Strings -> Counts] /\ search_results \in Seq(RowsOf(n))
  BY DEF SumTypes
<1>3. /\ row \in RowsOf(n) /\ row.selected = Len(programs)
      /\ \A k \in DOMAIN search_strings : row.cnts[k] = daily_match_counts[search_strings[k]]
  BY <1>1, <1>2, RowIsRow
<1>4. search_results' = Append(search_results, row)
  BY DEF EndOfFile
<1>5. n \in Nat /\ DOMAIN search_strings = 1..n /\ \A k \in 1..n : search_strings[k] \in Strings
  BY StringsAreStrings
<1> HIDE DEF row, n
<1>6. ASSUME NEW k \in DOMAIN search_strings, NEW f \in {"contexts", "programs", "matches"}
      PROVE  /\ Column(search_results, k, f) \in Int
             /\ daily_match_counts[search_strings[k]][f] \in Nat
             /\ Column(search_results', k, f) =
                  Column(search_results, k, f) + daily_match_counts[search_strings[k]][f]
  <2>1. /\ Column(search_results, k, f) \in Int
        /\ Column(Append(search_results, row), k, f) = Column(search_results, k, f) + row.cnts[k][f]
    BY <1>2, <1>3, <1>5, ColumnAppend
  <2>2. daily_match_counts[search_strings[k]] \in Counts
    BY <1>2, <1>5
  <2>3. daily_match_counts[search_strings[k]][f] \in Nat
    BY <2>2 DEF Counts
  <2> QED  BY <1>3, <1>4, <2>1, <2>3
<1>7. /\ SelectedIn(search_results) \in Int
      /\ SelectedIn(Append(search_results, row)) = SelectedIn(search_results) + row.selected
  BY <1>2, <1>3, <1>5, SelectedAppend
<1> QED  BY <1>3, <1>4, <1>6, <1>7

LEMMA ColumnsAreNumbers ==
  ASSUME Inv, SumTypes
  PROVE  /\ SelectedIn(search_results) \in Int
         /\ \A k \in DOMAIN search_strings : \A f \in {"contexts", "programs", "matches"} :
              Column(search_results, k, f) \in Int /\ daily_match_counts[search_strings[k]][f] \in Nat
<1> DEFINE n == Len(search_strings)
           row == [dt |-> 0, selected |-> 0, cnts |-> [j \in 1..n |-> Zero[search_strings[j]]]]
<1>1. n \in Nat /\ DOMAIN search_strings = 1..n /\ search_results \in Seq(RowsOf(n))
  BY StringsAreStrings DEF SumTypes
<1>2. \A k \in DOMAIN search_strings : search_strings[k] \in Strings
  BY StringsAreStrings
<1>3. row \in RowsOf(n)
  BY <1>1, <1>2 DEF RowsOf, Zero, Counts
<1> HIDE DEF n, row
<1>4. SelectedIn(search_results) \in Int
  BY <1>1, <1>3, SelectedAppend
<1>5. ASSUME NEW k \in DOMAIN search_strings, NEW f \in {"contexts", "programs", "matches"}
      PROVE  Column(search_results, k, f) \in Int /\ daily_match_counts[search_strings[k]][f] \in Nat
  <2>1. Column(search_results, k, f) \in Int
    BY <1>1, <1>3, ColumnAppend
  <2>2. daily_match_counts[search_strings[k]] \in Counts
    BY <1>2 DEF SumTypes
  <2> QED  BY <2>1, <2>2 DEF Counts
<1> QED  BY <1>4, <1>5

LEMMA WorkSelected ==
  ASSUME Inv, SumTypes, SelectedAddUp, Next, pc # "done", pc' # "done"
  PROVE  SelectedAddUp'
<1> USE DEF FileIsOpen, files, tables, sums
<1>1. CASE EndOfFile
  <2>1. /\ SelectedIn(search_results') = SelectedIn(search_results) + Len(programs)
        /\ SelectedIn(search_results) \in Int
    BY <1>1, RowTakesOver
  <2>2. Len(programs) \in Nat /\ total_programs_cnt = SelectedIn(search_results) + Len(programs)
    BY <1>1 DEF EndOfFile, SelectedAddUp, Inv, TypeInv
  <2>3. total_programs_cnt' = total_programs_cnt /\ ~FileIsOpen'
    BY <1>1 DEF EndOfFile
  <2> QED  BY <2>1, <2>2, <2>3 DEF SelectedAddUp
<1>2. ASSUME NEW content \in Files, OpenFile(content) PROVE SelectedAddUp'
  <2>1. total_programs_cnt = SelectedIn(search_results)
    BY <1>2, ColumnsAreNumbers DEF OpenFile, NextFile, SelectedAddUp
  <2>2. search_results' = search_results /\ total_programs_cnt' = total_programs_cnt + Len(content)
        /\ FileIsOpen' /\ programs' = content
    BY <1>2 DEF OpenFile
  <2> QED  BY <2>1, <2>2 DEF SelectedAddUp
<1>3. CASE UNCHANGED <<search_results, programs, total_programs_cnt, FileIsOpen>>
  BY <1>3 DEF SelectedAddUp
<1>4. \/ EndOfFile \/ \E content \in Files : OpenFile(content)
      \/ UNCHANGED <<search_results, programs, total_programs_cnt, FileIsOpen>>
  BY DEF Next, MissingFile, CorruptFile, NextFile, StringWithoutMatch, NextString, StringWithMatches, Examine,
         EndOfString, EndOfProgram, Finish
<1> QED  BY <1>1, <1>2, <1>3, <1>4

LEMMA WorkCounts ==
  ASSUME Inv, SumTypes, CountsAddUp, Next, pc # "done", pc' # "done"
  PROVE  CountsAddUp'
<1> USE DEF files, tables, sums
<1>0. /\ \A k \in DOMAIN search_strings : search_strings[k] \in Strings
      /\ search_strings' = search_strings
  BY StringsAreStrings DEF Next, MissingFile, CorruptFile, OpenFile, StringWithoutMatch, StringWithMatches,
       Examine, EndOfString, EndOfProgram, EndOfFile, Finish
<1>1. CASE EndOfFile
  <2> SUFFICES ASSUME NEW k \in DOMAIN search_strings, NEW f \in {"programs", "matches"}
               PROVE  match_counts'[search_strings[k]][f] = Column(search_results', k, f) + 0
    BY <1>0, <1>1 DEF EndOfFile, CountsAddUp, Today, FileIsOpen
  <2>1. /\ Column(search_results', k, f) =
             Column(search_results, k, f) + daily_match_counts[search_strings[k]][f]
    BY <1>1, RowTakesOver
  <2>2. match_counts[search_strings[k]][f] =
          Column(search_results, k, f) + daily_match_counts[search_strings[k]][f]
    BY <1>1 DEF CountsAddUp, EndOfFile, Today, FileIsOpen
  <2>3. match_counts' = match_counts
    BY <1>1 DEF EndOfFile
  <2>4. Column(search_results, k, f) \in Int /\ daily_match_counts[search_strings[k]][f] \in Nat
    BY ColumnsAreNumbers
  <2> QED  BY <2>1, <2>2, <2>3, <2>4
<1>2. ASSUME NEW content \in Files, OpenFile(content) PROVE CountsAddUp'
  <2> SUFFICES ASSUME NEW k \in DOMAIN search_strings, NEW f \in {"programs", "matches"}
               PROVE  match_counts'[search_strings[k]][f] =
                        Column(search_results', k, f) + daily_match_counts'[search_strings[k]][f]
    BY <1>0, <1>2 DEF OpenFile, CountsAddUp, Today, FileIsOpen
  <2>1. match_counts[search_strings[k]][f] = Column(search_results, k, f) + 0
    BY <1>2 DEF CountsAddUp, OpenFile, NextFile, Today, FileIsOpen
  <2>2. daily_match_counts'[search_strings[k]][f] = 0
    BY <1>0, <1>2 DEF OpenFile, Zero
  <2>3. match_counts' = match_counts /\ search_results' = search_results
    BY <1>2 DEF OpenFile
  <2> QED  BY <2>1, <2>2, <2>3
<1>3. CASE StringWithMatches
  <2> SUFFICES ASSUME NEW k \in DOMAIN search_strings, NEW f \in {"programs", "matches"}
               PROVE  match_counts'[search_strings[k]][f] =
                        Column(search_results', k, f) + daily_match_counts'[search_strings[k]][f]
    BY <1>0, <1>3 DEF StringWithMatches, CountsAddUp, Today, FileIsOpen
  <2> DEFINE s == search_strings[k]
  <2>1. match_counts[s][f] = Column(search_results, k, f) + daily_match_counts[s][f]
    BY <1>3 DEF CountsAddUp, StringWithMatches, NextString, Today, FileIsOpen
  <2>2. search_results' = search_results
    BY <1>3 DEF StringWithMatches
  <2>3. \E d \in Nat : /\ match_counts'[s][f] = match_counts[s][f] + d
                       /\ daily_match_counts'[s][f] = daily_match_counts[s][f] + d
    <3>1. match_counts \in [Strings -> Counts] /\ daily_match_counts \in [Strings -> Counts] /\ s \in Strings
      BY <1>0 DEF Inv, TypeInv, SumTypes
    <3>2. CASE s = string
      <4>1. PICK n \in Nat :
              /\ match_counts'[string].programs = match_counts[string].programs + 1
              /\ match_counts'[string].matches = match_counts[string].matches + n
              /\ daily_match_counts'[string].programs = daily_match_counts[string].programs + 1
              /\ daily_match_counts'[string].matches = daily_match_counts[string].matches + n
        BY <1>3, StringCounted
      <4>2. CASE f = "programs"
        BY <3>2, <4>1, <4>2
      <4>3. CASE f = "matches"
        BY <3>2, <4>1, <4>3
      <4> QED  BY <4>2, <4>3
    <3>3. CASE s # string
      <4>1. match_counts'[s] = match_counts[s] /\ daily_match_counts'[s] = daily_match_counts[s]
        BY <1>3, <3>1, <3>3, StringCounted
      <4>2. match_counts[s][f] \in Nat /\ daily_match_counts[s][f] \in Nat
        BY <3>1 DEF Counts
      <4>3. match_counts'[s][f] = match_counts[s][f] + 0 /\ daily_match_counts'[s][f] = daily_match_counts[s][f] + 0
        BY <4>1, <4>2
      <4> QED  BY <4>3
    <3> QED  BY <3>2, <3>3
  <2> HIDE DEF s
  <2>4. PICK d \in Nat : /\ match_counts'[s][f] = match_counts[s][f] + d
                        /\ daily_match_counts'[s][f] = daily_match_counts[s][f] + d
    BY <2>3
  <2>5. Column(search_results, k, f) \in Int /\ daily_match_counts[s][f] \in Nat
    BY ColumnsAreNumbers DEF s
  <2>6. match_counts'[s][f] = Column(search_results, k, f) + daily_match_counts'[s][f]
    BY <2>1, <2>4, <2>5
  <2> QED  BY <2>2, <2>6 DEF s
<1>4. CASE Examine
  <2>0. FileIsOpen /\ FileIsOpen'
    <3>1. pc = "matches" /\ pc' = pc
      BY <1>4 DEF Examine
    <3> QED  BY <3>1 DEF FileIsOpen
  <2> SUFFICES ASSUME NEW k \in DOMAIN search_strings, NEW f \in {"programs", "matches"}
               PROVE  match_counts'[search_strings[k]][f] =
                        Column(search_results', k, f) + daily_match_counts'[search_strings[k]][f]
    BY <1>0, <2>0 DEF CountsAddUp, Today
  <2> DEFINE s == search_strings[k]
  <2>1. match_counts[s][f] = Column(search_results, k, f) + daily_match_counts[s][f]
    BY <1>4 DEF CountsAddUp, Examine, Today, FileIsOpen
  <2>2. search_results' = search_results /\ s \in Strings
    BY <1>0, <1>4 DEF Examine
  <2>3. PICK a, b : OneMore(daily_match_counts, daily_match_counts', a) /\ OneMore(match_counts, match_counts', b)
    BY <1>4, MatchCounted
  <2>4. match_counts'[s][f] = match_counts[s][f] /\ daily_match_counts'[s][f] = daily_match_counts[s][f]
    BY <2>2, <2>3 DEF OneMore
  <2> QED  BY <2>1, <2>2, <2>4
<1>5. CASE UNCHANGED <<search_results, match_counts, daily_match_counts, FileIsOpen>>
  BY <1>0, <1>5 DEF CountsAddUp, Today
<1>6. \/ EndOfFile \/ (\E content \in Files : OpenFile(content)) \/ StringWithMatches \/ Examine
      \/ UNCHANGED <<search_results, match_counts, daily_match_counts, FileIsOpen>>
  BY DEF Next, MissingFile, CorruptFile, NextFile, StringWithoutMatch, NextString,
         EndOfString, EndOfProgram, Finish, FileIsOpen
<1> QED  BY <1>1, <1>2, <1>3, <1>4, <1>5, <1>6

\* What a step on a match does to the contexts of day and range: a program is
\* counted in the day at the first match new to the day, in the range at the
\* first match new to the range.
LEMMA MatchContexts ==
  ASSUME Inv, SumTypes, ContextsAtMost, ContextsIfAny, Examine
  PROVE  ContextsAtMost' /\ ContextsIfAny'
<1>1. PICK isNew \in BOOLEAN, isKept \in BOOLEAN :
        /\ isKept => isNew
        /\ OneMore(daily_match_counts, daily_match_counts', isNew /\ ~context_added)
        /\ OneMore(match_counts, match_counts', isKept /\ ~total_context_added)
        /\ context_added' = (context_added \/ isNew)
        /\ total_context_added' = (total_context_added \/ isKept)
        /\ \E match \in Matches :
             /\ isNew <=> IsNew(match, day[string])
             /\ isKept <=> isNew /\ IsNew(match, total[string])
             /\ day' = [day EXCEPT ![string] = Enter(match, @)]
             /\ total' = [total EXCEPT ![string] = Enter(match, @)]
  BY MatchCounted
<1>2. PICK match \in Matches :
        /\ isNew <=> IsNew(match, day[string])
        /\ isKept <=> isNew /\ IsNew(match, total[string])
        /\ day' = [day EXCEPT ![string] = Enter(match, @)]
        /\ total' = [total EXCEPT ![string] = Enter(match, @)]
  BY <1>1
<1>3. /\ string \in Strings /\ string' = string
      /\ pc = "matches" /\ pc' = "matches"
      /\ UNCHANGED <<search_strings, search_results>>
  BY MatchCounted DEF Examine, files
<1>4. /\ \A k \in DOMAIN search_strings : search_strings[k] \in Strings
      /\ DOMAIN day = Strings /\ DOMAIN total = Strings
      /\ \A s \in Strings : match_counts[s].contexts \in Nat /\ daily_match_counts[s].contexts \in Nat
      /\ context_added \in BOOLEAN /\ total_context_added \in BOOLEAN
  BY StringsAreStrings DEF SumTypes, Inv, TypeInv, Counts
<1>5. \A k \in DOMAIN search_strings : Column(search_results, k, "contexts") \in Int
  BY ColumnsAreNumbers
<1> DEFINE was(s) == match_counts[s].contexts
           is(s) == match_counts'[s].contexts
           had(s) == daily_match_counts[s].contexts
           has(s) == daily_match_counts'[s].contexts
           col(k) == Column(search_results, k, "contexts")
<1>6. /\ is(string) = was(string) + IF isKept /\ ~total_context_added THEN 1 ELSE 0
      /\ has(string) = had(string) + IF isNew /\ ~context_added THEN 1 ELSE 0
      /\ \A s \in Strings \ {string} : is(s) = was(s) /\ has(s) = had(s)
  BY <1>1 DEF OneMore
<1>7. /\ \A s \in Strings : was(s) \in Nat /\ had(s) \in Nat
      /\ \A k \in DOMAIN search_strings : col(k) \in Int
  BY <1>4, <1>5
<1>8. /\ \A k \in DOMAIN search_strings :
           LET s == search_strings[k]
           IN  was(s) + (IF s = string /\ context_added /\ ~total_context_added THEN 1 ELSE 0) <= col(k) + had(s)
      /\ \A s \in Strings : was(s) = 0 => total[s].left = {} /\ total[s].right = {}
      /\ \A s \in Strings : day[s].left \subseteq total[s].left /\ day[s].right \subseteq total[s].right
      /\ \A k \in DOMAIN search_strings : was(search_strings[k]) = 0 => col(k) + had(search_strings[k]) = 0
      /\ total_context_added => was(string) > 0 /\ context_added
  BY <1>3 DEF ContextsAtMost, ContextsIfAny, OnlyInDay, Today, FileIsOpen
<1>9. is(string) > 0
  <2>1. CASE was(string) = 0
    <3>1. isNew /\ isKept
      BY <1>2, <1>3, <1>8, <2>1 DEF IsNew
    <3>2. ~total_context_added
      BY <1>3, <1>7, <1>8, <2>1
    <3> QED  BY <1>6, <2>1, <3>1, <3>2
  <2>2. CASE was(string) # 0
    <3>1. was(string) \in Nat /\ (is(string) = was(string) \/ is(string) = was(string) + 1)
      BY <1>3, <1>6, <1>7
    <3> HIDE DEF was, is
    <3> QED  BY <2>2, <3>1
  <2> QED  BY <2>1, <2>2
<1>10. ASSUME NEW k \in DOMAIN search_strings
       PROVE  LET s == search_strings[k]
              IN  is(s) + (IF s = string /\ context_added' /\ ~total_context_added' THEN 1 ELSE 0)
                    <= col(k) + has(s)
  <2> DEFINE s == search_strings[k]
  <2>1. s \in Strings /\ was(s) \in Nat /\ had(s) \in Nat /\ col(k) \in Int
    BY <1>4, <1>7
  <2>2. was(s) + (IF s = string /\ context_added /\ ~total_context_added THEN 1 ELSE 0) <= col(k) + had(s)
    BY <1>8
  <2>3. CASE s # string
    <3>1. is(s) = was(s) /\ has(s) = had(s)
      BY <1>6, <2>1, <2>3
    <3> HIDE DEF was, is, had, has, col, s
    <3> QED  BY <2>1, <2>2, <2>3, <3>1 DEF s
  <2>4. CASE s = string
    <3>1. /\ is(s) = was(s) + IF isKept /\ ~total_context_added THEN 1 ELSE 0
          /\ has(s) = had(s) + IF isNew /\ ~context_added THEN 1 ELSE 0
      BY <1>6, <2>4
    <3>2. /\ context_added' = (context_added \/ isNew)
          /\ total_context_added' = (total_context_added \/ isKept)
          /\ isKept => isNew
          /\ total_context_added => context_added
      BY <1>1, <1>8
    <3> HIDE DEF was, is, had, has, col, s
    <3>3. is(s) + (IF context_added' /\ ~total_context_added' THEN 1 ELSE 0) <= col(k) + has(s)
      <4>1. was(s) + (IF context_added /\ ~total_context_added THEN 1 ELSE 0) <= col(k) + had(s)
        BY <2>2, <2>4
      <4>2. CASE context_added /\ total_context_added
        <5>1. is(s) = was(s) /\ has(s) = had(s) /\ was(s) <= col(k) + had(s)
          BY <2>1, <3>1, <4>1, <4>2
        <5>2. total_context_added'
          BY <3>2, <4>2, Zenon
        <5> QED  BY <2>1, <5>1, <5>2
      <4>3. CASE context_added /\ ~total_context_added /\ isKept
        <5>1. is(s) = was(s) + 1 /\ has(s) = had(s) /\ was(s) + 1 <= col(k) + had(s)
          BY <2>1, <3>1, <4>1, <4>3
        <5>2. total_context_added'
          BY <3>2, <4>3, Zenon
        <5> QED  BY <2>1, <5>1, <5>2
      <4>4. CASE context_added /\ ~total_context_added /\ ~isKept
        <5>1. is(s) = was(s) /\ has(s) = had(s) /\ was(s) + 1 <= col(k) + had(s)
          BY <2>1, <3>1, <3>2, <4>1, <4>4
        <5> QED  BY <2>1, <5>1
      <4>5. CASE ~context_added /\ isNew
        <5>1. /\ has(s) = had(s) + 1 /\ was(s) <= col(k) + had(s) /\ ~total_context_added
              /\ is(s) = was(s) + (IF isKept THEN 1 ELSE 0)
              /\ total_context_added' = isKept
          BY <2>1, <3>1, <3>2, <4>1, <4>5
        <5>2. CASE isKept
          BY <2>1, <5>1, <5>2
        <5>3. CASE ~isKept
          BY <2>1, <5>1, <5>3
        <5> QED  BY <5>2, <5>3
      <4>6. CASE ~context_added /\ ~isNew
        <5>1. is(s) = was(s) /\ has(s) = had(s) /\ was(s) <= col(k) + had(s) /\ ~context_added'
          BY <2>1, <3>1, <3>2, <4>1, <4>6
        <5> QED  BY <2>1, <5>1
      <4> QED  BY <1>4, <4>2, <4>3, <4>4, <4>5, <4>6
    <3> QED  BY <2>4, <3>3 DEF s
  <2> QED  BY <2>3, <2>4
<1>11. ContextsAtMost'
  <2> SUFFICES ASSUME NEW k \in DOMAIN search_strings
               PROVE  LET s == search_strings[k]
                      IN  is(s) + (IF s = string /\ context_added' /\ ~total_context_added' THEN 1 ELSE 0)
                            <= col(k) + has(s)
    BY <1>3 DEF ContextsAtMost, OnlyInDay, Today, FileIsOpen
  <2> QED  BY <1>10
<1>12. \A s \in Strings : is(s) = 0 => total'[s].left = {} /\ total'[s].right = {}
  <2> SUFFICES ASSUME NEW s \in Strings, is(s) = 0 PROVE total'[s].left = {} /\ total'[s].right = {}
    OBVIOUS
  <2>1. s # string
    BY <1>9
  <2>2. total'[s] = total[s] /\ is(s) = was(s)
    BY <1>2, <1>4, <1>6, <2>1
  <2> QED  BY <1>8, <2>2
<1>13. \A s \in Strings : day'[s].left \subseteq total'[s].left /\ day'[s].right \subseteq total'[s].right
  <2> SUFFICES ASSUME NEW s \in Strings
               PROVE  day'[s].left \subseteq total'[s].left /\ day'[s].right \subseteq total'[s].right
    OBVIOUS
  <2>1. CASE s = string
    <3>1. day'[s] = Enter(match, day[s]) /\ total'[s] = Enter(match, total[s])
      BY <1>2, <1>4, <2>1
    <3>2. day[s].left \subseteq total[s].left /\ day[s].right \subseteq total[s].right
      BY <1>8
    <3> QED  BY <3>1, <3>2 DEF Enter
  <2>2. CASE s # string
    <3>1. day'[s] = day[s] /\ total'[s] = total[s]
      BY <1>2, <1>4, <2>2
    <3> QED  BY <1>8, <3>1
  <2> QED  BY <2>1, <2>2
<1>14. \A k \in DOMAIN search_strings : is(search_strings[k]) = 0 => col(k) + has(search_strings[k]) = 0
  <2> SUFFICES ASSUME NEW k \in DOMAIN search_strings, is(search_strings[k]) = 0
               PROVE  col(k) + has(search_strings[k]) = 0
    OBVIOUS
  <2>1. search_strings[k] # string /\ search_strings[k] \in Strings
    BY <1>4, <1>9
  <2> QED  BY <1>6, <1>8, <2>1
<1>15. total_context_added' => is(string) > 0 /\ context_added'
  BY <1>1, <1>8, <1>9
<1>16. ContextsIfAny'
  <2> HIDE DEF was, had
  <2> QED  BY <1>3, <1>9, <1>12, <1>13, <1>14, <1>15 DEF ContextsIfAny, Today, FileIsOpen
<1> QED  BY <1>11, <1>16

LEMMA WorkContexts ==
  ASSUME Inv, SumTypes, ContextsAtMost, ContextsIfAny, Next, pc # "done", pc' # "done"
  PROVE  ContextsAtMost' /\ ContextsIfAny'
<1> USE DEF files, tables, sums
<1>0. /\ \A k \in DOMAIN search_strings : search_strings[k] \in Strings
      /\ search_strings' = search_strings
  BY StringsAreStrings DEF Next, MissingFile, CorruptFile, OpenFile, StringWithoutMatch, StringWithMatches,
       Examine, EndOfString, EndOfProgram, EndOfFile, Finish
<1>1. \A k \in DOMAIN search_strings :
        /\ Column(search_results, k, "contexts") \in Int
        /\ daily_match_counts[search_strings[k]].contexts \in Nat
        /\ match_counts[search_strings[k]].contexts \in Nat
  BY <1>0, ColumnsAreNumbers DEF Inv, TypeInv, Counts
\* What is left to show unless a match is examined.
<1> DEFINE TodayThen(k) == IF pc' \in {"programs", "matches"}
                        THEN daily_match_counts'[search_strings[k]].contexts ELSE 0
<1>2. ASSUME pc' # "matches" \/ (~context_added' /\ ~total_context_added'),
             \A k \in DOMAIN search_strings :
               /\ match_counts'[search_strings[k]].contexts <= Column(search_results', k, "contexts") + TodayThen(k)
               /\ match_counts'[search_strings[k]].contexts = 0 =>
                    Column(search_results', k, "contexts") + TodayThen(k) = 0,
             \A s \in Strings : match_counts'[s].contexts = match_counts[s].contexts,
             total' = total, day' = day \/ day' = NoTables
      PROVE  ContextsAtMost' /\ ContextsIfAny'
  <2>1. ContextsAtMost'
    <3> SUFFICES ASSUME NEW k \in DOMAIN search_strings
                 PROVE  match_counts'[search_strings[k]].contexts + 0 <=
                          Column(search_results', k, "contexts") + TodayThen(k)
      BY <1>0, <1>2 DEF ContextsAtMost, OnlyInDay, Today, FileIsOpen
    <3>1. match_counts'[search_strings[k]].contexts \in Nat
      BY <1>0, <1>1, <1>2
    <3>2. match_counts'[search_strings[k]].contexts + 0 = match_counts'[search_strings[k]].contexts
      BY <3>1
    <3> HIDE DEF TodayThen
    <3> QED  BY <1>2, <3>2
  <2>2. \A s \in Strings : match_counts'[s].contexts = 0 => total'[s].left = {} /\ total'[s].right = {}
    BY <1>2 DEF ContextsIfAny
  <2>3. \A s \in Strings : day'[s].left \subseteq total'[s].left /\ day'[s].right \subseteq total'[s].right
    BY <1>2 DEF ContextsIfAny, NoTables, NoHashes
  <2>4. \A k \in DOMAIN search_strings' :
          match_counts'[search_strings'[k]].contexts = 0 =>
            (Column(search_results, k, "contexts") + Today(k, "contexts"))' = 0
    BY <1>0, <1>2 DEF Today, FileIsOpen
  <2> QED  BY <1>2, <2>1, <2>2, <2>3, <2>4 DEF ContextsIfAny
<1>3. CASE EndOfFile
  <2>1. \A k \in DOMAIN search_strings :
          Column(search_results', k, "contexts") =
            Column(search_results, k, "contexts") + daily_match_counts[search_strings[k]].contexts
    BY <1>3, RowTakesOver
  <2>2. pc = "programs" /\ pc' = "files" /\ UNCHANGED <<match_counts, total, day>>
    BY <1>3 DEF EndOfFile
  <2>3. ASSUME NEW k \in DOMAIN search_strings
        PROVE  /\ match_counts[search_strings[k]].contexts + 0 <=
                    Column(search_results, k, "contexts") + daily_match_counts[search_strings[k]].contexts
               /\ match_counts[search_strings[k]].contexts = 0 =>
                    Column(search_results, k, "contexts") + daily_match_counts[search_strings[k]].contexts = 0
    BY <2>2 DEF ContextsAtMost, ContextsIfAny, OnlyInDay, Today, FileIsOpen
  <2>4. ASSUME NEW k \in DOMAIN search_strings
        PROVE  /\ match_counts'[search_strings[k]].contexts <= Column(search_results', k, "contexts") + 0
               /\ match_counts'[search_strings[k]].contexts = 0 => Column(search_results', k, "contexts") + 0 = 0
    BY <1>1, <2>1, <2>2, <2>3
  <2>5. \A k : TodayThen(k) = 0
    BY <2>2
  <2> HIDE DEF TodayThen
  <2>6. pc' # "matches" \/ (~context_added' /\ ~total_context_added')
    BY <2>2
  <2>7. \A s \in Strings : match_counts'[s].contexts = match_counts[s].contexts
    BY <2>2
  <2>8. total' = total /\ (day' = day \/ day' = NoTables)
    BY <2>2
  <2>9. \A k \in DOMAIN search_strings :
          /\ match_counts'[search_strings[k]].contexts <= Column(search_results', k, "contexts") + TodayThen(k)
          /\ match_counts'[search_strings[k]].contexts = 0 =>
               Column(search_results', k, "contexts") + TodayThen(k) = 0
    BY <2>4, <2>5
  <2> QED  BY <1>2, <2>6, <2>7, <2>8, <2>9, Zenon
<1>4. ASSUME NEW content \in Files, OpenFile(content) PROVE ContextsAtMost' /\ ContextsIfAny'
  <2>1. pc = "files" /\ pc' = "programs" /\ UNCHANGED <<match_counts, total, search_results>>
        /\ day' = NoTables /\ daily_match_counts' = Zero
    BY <1>4 DEF OpenFile, NextFile
  <2>2. ASSUME NEW k \in DOMAIN search_strings
        PROVE  /\ match_counts[search_strings[k]].contexts + 0 <= Column(search_results, k, "contexts") + 0
               /\ match_counts[search_strings[k]].contexts = 0 => Column(search_results, k, "contexts") + 0 = 0
    BY <2>1 DEF ContextsAtMost, ContextsIfAny, OnlyInDay, Today, FileIsOpen
  <2>3. \A k \in DOMAIN search_strings : daily_match_counts'[search_strings[k]].contexts = 0
    BY <1>0, <2>1 DEF Zero
  <2>4. ASSUME NEW k \in DOMAIN search_strings
        PROVE  /\ match_counts'[search_strings[k]].contexts <= Column(search_results', k, "contexts") + 0
               /\ match_counts'[search_strings[k]].contexts = 0 => Column(search_results', k, "contexts") + 0 = 0
    BY <1>1, <2>1, <2>2
  <2>5. \A k \in DOMAIN search_strings : TodayThen(k) = 0
    BY <2>1, <2>3
  <2> HIDE DEF TodayThen
  <2>6. pc' # "matches" \/ (~context_added' /\ ~total_context_added')
    BY <2>1
  <2>7. \A s \in Strings : match_counts'[s].contexts = match_counts[s].contexts
    BY <2>1
  <2>8. total' = total /\ (day' = day \/ day' = NoTables)
    BY <2>1
  <2>9. \A k \in DOMAIN search_strings :
          /\ match_counts'[search_strings[k]].contexts <= Column(search_results', k, "contexts") + TodayThen(k)
          /\ match_counts'[search_strings[k]].contexts = 0 =>
               Column(search_results', k, "contexts") + TodayThen(k) = 0
    BY <2>4, <2>5
  <2> QED  BY <1>2, <2>6, <2>7, <2>8, <2>9, Zenon
\* In the middle of a file no context comes or goes.
<1>5. ASSUME pc \in {"programs", "matches"}, pc' \in {"programs", "matches"},
             pc' # "matches" \/ (~context_added' /\ ~total_context_added'),
             \A s \in Strings : /\ match_counts'[s].contexts = match_counts[s].contexts
                               /\ daily_match_counts'[s].contexts = daily_match_counts[s].contexts,
             UNCHANGED <<total, day, search_results>>
      PROVE  ContextsAtMost' /\ ContextsIfAny'
  <2>1. ASSUME NEW k \in DOMAIN search_strings
        PROVE  /\ match_counts[search_strings[k]].contexts <=
                    Column(search_results, k, "contexts") + daily_match_counts[search_strings[k]].contexts
               /\ match_counts[search_strings[k]].contexts = 0 =>
                    Column(search_results, k, "contexts") + daily_match_counts[search_strings[k]].contexts = 0
    <3>1. match_counts[search_strings[k]].contexts + (IF OnlyInDay(search_strings[k]) THEN 1 ELSE 0) <=
            Column(search_results, k, "contexts") + daily_match_counts[search_strings[k]].contexts
      BY <1>5 DEF ContextsAtMost, Today, FileIsOpen
    <3>2. match_counts[search_strings[k]].contexts <=
            Column(search_results, k, "contexts") + daily_match_counts[search_strings[k]].contexts
      BY <1>1, <3>1
    <3> QED  BY <1>5, <3>2 DEF ContextsIfAny, Today, FileIsOpen
  <2>2. ASSUME NEW k \in DOMAIN search_strings
        PROVE  /\ match_counts'[search_strings[k]].contexts <=
                    Column(search_results', k, "contexts") + daily_match_counts'[search_strings[k]].contexts
               /\ match_counts'[search_strings[k]].contexts = 0 =>
                    Column(search_results', k, "contexts") + daily_match_counts'[search_strings[k]].contexts = 0
    BY <1>0, <1>5, <2>1
  <2> QED  BY <1>2, <1>5, <2>2
<1>6. CASE StringWithMatches
  <2>1. \A s \in Strings : /\ match_counts'[s].contexts = match_counts[s].contexts
                         /\ daily_match_counts'[s].contexts = daily_match_counts[s].contexts
    BY <1>6, StringCounted
  <2>2. /\ pc = "programs" /\ pc' = "matches" /\ ~context_added' /\ ~total_context_added'
        /\ UNCHANGED <<total, day, search_results>>
    BY <1>6 DEF StringWithMatches, NextString
  <2> QED  BY <1>5, <2>1, <2>2
<1>7. CASE StringWithoutMatch \/ EndOfString \/ EndOfProgram
  <2>1. /\ pc \in {"programs", "matches"} /\ pc' = "programs"
        /\ UNCHANGED <<total, day, search_results, match_counts, daily_match_counts>>
    BY <1>7 DEF StringWithoutMatch, NextString, EndOfString, EndOfProgram
  <2>2. \A s \in Strings : /\ match_counts'[s].contexts = match_counts[s].contexts
                         /\ daily_match_counts'[s].contexts = daily_match_counts[s].contexts
    BY <2>1
  <2> QED  BY <1>5, <2>1, <2>2
<1>8. CASE MissingFile \/ CorruptFile
  <2>1. /\ pc = "files" /\ pc' = "files"
        /\ UNCHANGED <<total, day, search_results, match_counts>>
    BY <1>8 DEF MissingFile, CorruptFile, NextFile
  <2>2. ASSUME NEW k \in DOMAIN search_strings
        PROVE  /\ match_counts[search_strings[k]].contexts + 0 <= Column(search_results, k, "contexts") + 0
               /\ match_counts[search_strings[k]].contexts = 0 => Column(search_results, k, "contexts") + 0 = 0
    BY <2>1 DEF ContextsAtMost, ContextsIfAny, OnlyInDay, Today, FileIsOpen
  <2>3. ASSUME NEW k \in DOMAIN search_strings
        PROVE  /\ match_counts'[search_strings[k]].contexts <= Column(search_results', k, "contexts") + 0
               /\ match_counts'[search_strings[k]].contexts = 0 => Column(search_results', k, "contexts") + 0 = 0
    BY <1>1, <2>1, <2>2
  <2>5. \A k : TodayThen(k) = 0
    BY <2>1
  <2> HIDE DEF TodayThen
  <2>6. pc' # "matches" \/ (~context_added' /\ ~total_context_added')
    BY <2>1
  <2>7. \A s \in Strings : match_counts'[s].contexts = match_counts[s].contexts
    BY <2>1
  <2>8. total' = total /\ (day' = day \/ day' = NoTables)
    BY <2>1
  <2>9. \A k \in DOMAIN search_strings :
          /\ match_counts'[search_strings[k]].contexts <= Column(search_results', k, "contexts") + TodayThen(k)
          /\ match_counts'[search_strings[k]].contexts = 0 =>
               Column(search_results', k, "contexts") + TodayThen(k) = 0
    BY <2>3, <2>5
  <2> QED  BY <1>2, <2>6, <2>7, <2>8, <2>9, Zenon
<1>9. CASE Examine
  BY <1>9, MatchContexts
<1>10. CASE Finish
  BY <1>10 DEF Finish
<1> QED
  BY <1>3, <1>4, <1>6, <1>7, <1>8, <1>9, <1>10 DEF Next

\* The total line is written when no file is left.
LEMMA LineAddsUp ==
  ASSUME Inv, DaysAddUp, Finish
  PROVE  TotalLineAddsUp'
<1> DEFINE line == Row(0, match_counts, total_programs_cnt)
           n == Len(search_strings)
           rows == Append(search_results, line)
<1>1. /\ search_results' = rows /\ pc = "files" /\ it > NumFiles
      /\ UNCHANGED <<search_strings, missing_files, corrupt_files>>
  BY DEF Finish, files
<1>2. /\ search_results \in Seq(RowsOf(n)) /\ it \in 1..(NumFiles + 1) /\ NumFiles \in Nat
      /\ match_counts \in [Strings -> Counts] /\ total_programs_cnt \in Nat
  BY NumFilesAssumption DEF DaysAddUp, SumTypes, Inv, TypeInv
<1>3. /\ n \in Nat /\ DOMAIN search_strings = 1..n
      /\ \A k \in DOMAIN search_strings : search_strings[k] \in Strings
  BY StringsAreStrings
<1>4. /\ line \in RowsOf(n) /\ line.selected = total_programs_cnt
      /\ \A k \in DOMAIN search_strings : line.cnts[k] = match_counts[search_strings[k]]
  BY <1>2, <1>3 DEF Row, RowsOf
<1> HIDE DEF line
<1>5. /\ rows \in Seq(RowsOf(n)) /\ Len(rows) = Len(search_results) + 1 /\ Len(search_results) \in Nat
      /\ \A j \in 1..Len(search_results) : rows[j] = search_results[j]
      /\ rows[Len(rows)] = line
  BY <1>2, <1>4, AppendProperties
<1> HIDE DEF rows
<1>6. SubSeq(rows, 1, Len(rows) - 1) = search_results
  <2> DEFINE days == SubSeq(rows, 1, Len(rows) - 1)
  <2>1. days \in Seq(RowsOf(n)) /\ Len(days) = Len(search_results)
        /\ \A j \in 1..Len(search_results) : days[j] = rows[j]
    BY <1>5, SubSeqProperties
  <2> HIDE DEF days
  <2>2. days = search_results
    BY <1>2, <1>5, <2>1, SeqEqual
  <2> QED  BY <2>2 DEF days
<1>7. /\ \A k \in DOMAIN search_strings : \A f \in {"contexts", "programs", "matches"} :
           Column(search_results, k, f) \in Int
      /\ SelectedIn(search_results) \in Int
  BY ColumnsAreNumbers DEF DaysAddUp
<1>8. line.selected = SelectedIn(search_results)
  BY <1>1, <1>4, <1>7 DEF DaysAddUp, SelectedAddUp, FileIsOpen
<1>9. ASSUME NEW k \in DOMAIN search_strings
      PROVE  /\ line.cnts[k].programs = Column(search_results, k, "programs")
             /\ line.cnts[k].matches = Column(search_results, k, "matches")
             /\ line.cnts[k].contexts <= Column(search_results, k, "contexts")
             /\ line.cnts[k].contexts > 0 <=> Column(search_results, k, "contexts") > 0
  <2> DEFINE c == match_counts[search_strings[k]]
  <2>1. line.cnts[k] = c /\ c \in Counts
    BY <1>2, <1>3, <1>4
  <2>2. \A f \in {"programs", "matches"} : c[f] = Column(search_results, k, f) + 0
    BY <1>1 DEF DaysAddUp, CountsAddUp, Today, FileIsOpen
  <2>3. /\ c.contexts + 0 <= Column(search_results, k, "contexts") + 0
        /\ c.contexts = 0 => Column(search_results, k, "contexts") + 0 = 0
    BY <1>1 DEF DaysAddUp, ContextsAtMost, ContextsIfAny, OnlyInDay, Today, FileIsOpen
  <2> HIDE DEF c
  <2>4. c.contexts \in Nat
    BY <2>1 DEF Counts
  <2>5. c.programs = Column(search_results, k, "programs") /\ c.matches = Column(search_results, k, "matches")
    BY <1>7, <2>2
  <2>6. c.contexts <= Column(search_results, k, "contexts") /\ (c.contexts > 0 <=> Column(search_results, k, "contexts") > 0)
    BY <1>7, <2>3, <2>4
  <2> QED  BY <2>1, <2>5, <2>6
<1>10. FilesAreListed(search_results, NumFiles)
  <2>1. it - 1 = NumFiles
    BY <1>1, <1>2
  <2> QED  BY <2>1 DEF DaysAddUp
<1> QED
  BY <1>1, <1>5, <1>6, <1>8, <1>9, <1>10, ZenonT(30) DEF TotalLineAddsUp, FilesAreListed

LEMMA SumStep ==
  ASSUME Inv, SumInv, [Next]_vars
  PROVE  SumInv'
<1>1. CASE UNCHANGED vars
  <2>1. UNCHANGED <<it, search_strings, search_results, missing_files, corrupt_files, daily_match_counts,
                    match_counts, total_programs_cnt, day, total, context_added, total_context_added,
                    programs, p, ss, pc>>
    BY <1>1 DEF vars, files, tables, sums
  <2> QED
    BY <2>1, ZenonT(30) DEF SumInv, DaysAddUp, SumTypes, SelectedAddUp, CountsAddUp, ContextsAtMost, ContextsIfAny,
                Today, FileIsOpen, OnlyInDay, string, FilesAreListed, TotalLineAddsUp
<1>2. CASE Next
  <2>1. pc # "done"
    BY <1>2 DEF Next, MissingFile, CorruptFile, OpenFile, NextFile, StringWithoutMatch, StringWithMatches,
                NextString, Examine, EndOfString, EndOfProgram, EndOfFile, Finish
  <2>2. DaysAddUp
    BY <2>1 DEF SumInv
  <2>3. CASE pc' = "done"
    <3>1. Finish
      BY <1>2, <2>1, <2>3 DEF Next, MissingFile, CorruptFile, OpenFile, NextFile, StringWithoutMatch,
           StringWithMatches, NextString, Examine, EndOfString, EndOfProgram, EndOfFile
    <3> QED  BY <2>2, <2>3, <3>1, LineAddsUp DEF SumInv
  <2>4. CASE pc' # "done"
    <3>1. DaysAddUp'
      BY <1>2, <2>1, <2>2, <2>4, WorkTypes, WorkListed, WorkSelected, WorkCounts, WorkContexts DEF DaysAddUp
    <3> QED  BY <2>4, <3>1 DEF SumInv, TotalLineAddsUp
  <2> QED  BY <2>3, <2>4
<1> QED  BY <1>1, <1>2

\* For all lists of search strings, entered twice or not, and all files: the
\* programs and matches of the total line are the sums of the days, its contexts
\* at most so and none only if no day had one, and no file is passed over.
THEOREM TotalLineIsTheSum == Spec => []TotalLineAddsUp
<1>1. Init => Inv /\ SumInv
  BY InitInv, InitSums
<1>2. Inv /\ SumInv /\ [Next]_vars => (Inv /\ SumInv)'
  BY TypeStep, ExcerptsStep, SumStep DEF Inv
<1>3. SumInv => TotalLineAddsUp
  BY DEF SumInv
<1> QED  BY <1>1, <1>2, <1>3, PTL DEF Spec
------------------------------------------------------------------------------
(* That a string is counted as if it were searched alone.  Each string has *)
(* a reader of its own, who stands at a match of a program of the range    *)
(* and of the day.  A string entered twice is read once: the second time   *)
(* its reader stays where the first time has taken it.                     *)

FoundOf(s, ps) == [k \in DOMAIN ps |-> ps[k][s]]
Found(s) == FoundOf(s, read.range)
DayFound(s) == FoundOf(s, read.day)
Entered == {search_strings[k] : k \in DOMAIN search_strings}

\* The program at hand.
RangePlace == IF FileIsOpen THEN Len(read.range) - Len(programs) + p ELSE Len(read.range) + 1
DayPlace == IF FileIsOpen THEN p ELSE Len(read.day) + 1

\* A string of the program at hand that has been read.
IsRead(s) == FileIsOpen /\ \E k \in 1..(ss - 1) : search_strings[k] = s
IsBeingRead(s) == pc = "matches" /\ s = string /\ ~IsRead(s)
Further(s) == IF IsRead(s) THEN 1 ELSE 0
At(s) == IF IsBeingRead(s) THEN m ELSE 1

\* The file at hand is what was read last.
Reading ==
  /\ read.range \in Seq(ProgramsOf) /\ read.day \in Seq(ProgramsOf)
  /\ FileIsOpen =>
       /\ read.day = programs /\ Len(programs) <= Len(read.range)
       /\ p <= Len(programs) + 1 /\ ss <= Len(search_strings) + 1
       /\ p = Len(programs) + 1 => ss = 1
       /\ \A k \in 1..Len(programs) : read.range[Len(read.range) - Len(programs) + k] = programs[k]
  /\ pc = "matches" => m <= Len(match_positions) + 1

Reads(found, k, j, t, n) == Holds(t, found, k, j) /\ n = CountedTo(found, k, j)

ContextsRead(s) ==
  /\ Reads(Found(s), RangePlace + Further(s), At(s), total[s], match_counts[s].contexts)
  /\ Reads(DayFound(s), DayPlace + Further(s), At(s), day[s], daily_match_counts[s].contexts)
  /\ IsBeingRead(s) => /\ total_context_added <=> HasContext(Found(s), RangePlace, m)
                       /\ context_added <=> HasContext(DayFound(s), DayPlace, m)

\* Programs and matches are counted whenever a copy of the string comes up.
Weight(f, x) == IF f = "matches" THEN Len(x) ELSE IF x = <<>> THEN 0 ELSE 1
Until(f, found, k) ==
  IF f = "matches" THEN SumSeq([n \in 1..(k - 1) |-> Len(found[n])])
  ELSE Cardinality({n \in 1..(k - 1) : found[n] # <<>>})

CopiesTo(s, n) == Cardinality({k \in 1..n : search_strings[k] = s})
Here(f, s) ==
  IF FileIsOpen /\ p <= Len(programs)
  THEN (CopiesTo(s, ss - 1) + IF pc = "matches" /\ s = string THEN 1 ELSE 0) * Weight(f, programs[p][s])
  ELSE 0

NumberRead(s, f) ==
  /\ match_counts[s][f] = Copies(s) * Until(f, Found(s), RangePlace) + Here(f, s)
  /\ daily_match_counts[s][f] = Copies(s) * Until(f, DayFound(s), DayPlace) + Here(f, s)
NumbersRead(s) == \A f \in {"programs", "matches"} : NumberRead(s, f)

LastRow ==
  pc = "files" /\ search_results # <<>> =>
    \A k \in DOMAIN search_strings :
      search_results[Len(search_results)].cnts[k] = daily_match_counts[search_strings[k]]

ReadInv ==
  /\ Reading /\ LastRow
  /\ \A s \in Entered : ContextsRead(s) /\ NumbersRead(s)

\* A match of a program that has been read is not new.
LEMMA ReadAgain ==
  ASSUME NEW F, AreLists(F), NEW k \in 1..Len(F), NEW j \in 1..Len(F[k]), NEW k1, k1 = k + 1,
         NEW t, Holds(t, F, k1, 1)
  PROVE  ~IsNew(F[k][j], t) /\ Holds(Enter(F[k][j], t), F, k1, 1)
<1> DEFINE match == F[k][j]
           B == SeenBefore(F, k1, 1)
<1>1. match \in ToSet(F[k])
  BY DEF AreLists, ToSet
<1>2. k \in 1..(k1 - 1)
  BY DEF AreLists
<1>3. match \in B
  BY <1>1, <1>2 DEF SeenBefore
<1>4. t.left = {u.left : u \in B} /\ t.right = {u.right : u \in B}
  BY DEF Holds
<1> HIDE DEF match, B
<1>5. match.left \in t.left /\ match.right \in t.right
  BY <1>3, <1>4
<1>6. ~IsNew(match, t) /\ t.left \cup {match.left} = t.left /\ t.right \cup {match.right} = t.right
  BY <1>5 DEF IsNew
<1>7. Holds(Enter(match, t), F, k1, 1)
  BY <1>4, <1>6 DEF Holds, Enter, B
<1> QED  BY <1>6, <1>7 DEF match

\* What is counted of the programs before the k-th.
LEMMA UntilFirst ==
  ASSUME NEW F, NEW f
  PROVE  Until(f, F, 1) = 0
<1>1. 1..(1 - 1) = {}
  OBVIOUS
<1>2. {n \in 1..(1 - 1) : F[n] # <<>>} = {}
  BY <1>1
<1>3. Cardinality({n \in 1..(1 - 1) : F[n] # <<>>}) = 0
  BY <1>2, FS_EmptySet
<1> DEFINE x == [n \in 1..(1 - 1) |-> Len(F[n])]
<1>4. x = <<>>
  BY <1>1
<1>5. SumSeq(x) = 0
  <2> HIDE DEF x
  <2> QED  BY <1>4, SumEmpty
<1> QED  BY <1>3, <1>5 DEF Until

LEMMA LengthsAre ==
  ASSUME NEW F, AreLists(F), NEW k \in 0..Len(F)
  PROVE  LET x == [n \in 1..k |-> Len(F[n])]
         IN  x \in Seq(Int) /\ Len(x) = k /\ \A n \in 1..k : x[n] = Len(F[n])
<1> DEFINE x == [n \in 1..k |-> Len(F[n])]
<1>1. k \in Nat /\ \A n \in 1..k : Len(F[n]) \in Int
  BY DEF AreLists
<1>2. x \in [1..k -> Int]
  BY <1>1
<1>3. x \in Seq(Int) /\ Len(x) = k
  BY <1>1, <1>2, IsASeq, LenProperties
<1> QED  BY <1>3

LEMMA UntilNext ==
  ASSUME NEW F, AreLists(F), NEW k \in 1..Len(F), NEW k1, k1 = k + 1, NEW f \in {"programs", "matches"}
  PROVE  /\ Until(f, F, k) \in Int /\ Weight(f, F[k]) \in Int
         /\ Until(f, F, k1) = Until(f, F, k) + Weight(f, F[k])
<1>0. k \in Nat /\ Len(F) \in Nat /\ k1 - 1 = k /\ Len(F[k]) \in Nat
  BY DEF AreLists
<1>1. CASE f = "matches"
  <2> DEFINE x == [n \in 1..(k - 1) |-> Len(F[n])]
             y == [n \in 1..k |-> Len(F[n])]
  <2>1. x \in Seq(Int) /\ Len(x) = k - 1 /\ \A n \in 1..(k - 1) : x[n] = Len(F[n])
    <3>1. k - 1 \in 0..Len(F)
      BY <1>0
    <3> QED  BY <3>1, LengthsAre
  <2>2. y \in Seq(Int) /\ Len(y) = k /\ \A n \in 1..k : y[n] = Len(F[n])
    <3>1. k \in 0..Len(F)
      BY <1>0
    <3> QED  BY <3>1, LengthsAre
  <2> HIDE DEF x, y
  <2>3. SumSeq(y) = SumSeq(x) + y[Len(y)]
    <3>1. Len(y) = Len(x) + 1 /\ \A n \in 1..Len(x) : y[n] = x[n]
      BY <1>0, <2>1, <2>2, SMTT(30)
    <3> QED  BY <2>1, <2>2, <3>1, SumLonger
  <2>4. y[Len(y)] = Len(F[k])
    BY <1>0, <2>2
  <2>5. SumSeq(x) \in Int
    BY <2>1, SumType
  <2>6. Until(f, F, k) = SumSeq(x) /\ Until(f, F, k1) = SumSeq(y) /\ Weight(f, F[k]) = Len(F[k])
    BY <1>0, <1>1 DEF Until, Weight, x, y
  <2> QED  BY <1>0, <2>3, <2>4, <2>5, <2>6
<1>2. CASE f = "programs"
  <2> DEFINE S == {n \in 1..(k - 1) : F[n] # <<>>}
             T == {n \in 1..k : F[n] # <<>>}
  <2>1. T = IF F[k] = <<>> THEN S ELSE S \cup {k}
    BY <1>0
  <2>2. k \notin S
    BY <1>0
  <2>3. IsFiniteSet(S) /\ Cardinality(S) \in Nat
    <3>1. 1 \in Int /\ k - 1 \in Int
      BY <1>0
    <3>2. IsFiniteSet(1..(k - 1))
      BY <3>1, FS_Interval
    <3>3. S \subseteq 1..(k - 1)
      OBVIOUS
    <3> HIDE DEF S
    <3> QED  BY <3>2, <3>3, FS_Subset, FS_CardinalityType
  <2>4. Until(f, F, k) = Cardinality(S) /\ Until(f, F, k1) = Cardinality(T)
        /\ Weight(f, F[k]) = IF F[k] = <<>> THEN 0 ELSE 1
    BY <1>0, <1>2 DEF Until, Weight
  <2> HIDE DEF S, T
  <2>5. Cardinality(S \cup {k}) = Cardinality(S) + 1
    BY <2>2, <2>3, FS_AddElement
  <2> QED  BY <2>1, <2>3, <2>4, <2>5
<1> QED  BY <1>1, <1>2

LEMMA UntilMore ==
  ASSUME NEW F, AreLists(F), NEW G, \A i \in 1..Len(F) : G[i] = F[i], NEW k, k = Len(F) + 1, NEW f
  PROVE  Until(f, G, k) = Until(f, F, k)
<1>1. k - 1 = Len(F)
  BY DEF AreLists
<1>2. {n \in 1..(k - 1) : G[n] # <<>>} = {n \in 1..(k - 1) : F[n] # <<>>}
  BY <1>1
<1>3. [n \in 1..(k - 1) |-> Len(G[n])] = [n \in 1..(k - 1) |-> Len(F[n])]
  BY <1>1
<1> QED  BY <1>2, <1>3 DEF Until

LEMMA UntilAll ==
  ASSUME NEW F, AreLists(F), NEW k, k = Len(F) + 1
  PROVE  /\ Until("programs", F, k) = Cardinality({n \in DOMAIN F : F[n] # <<>>})
         /\ Until("matches", F, k) = SumSeq([n \in DOMAIN F |-> Len(F[n])])
<1>1. DOMAIN F = 1..(k - 1)
  BY DEF AreLists
<1> QED  BY <1>1 DEF Until

\* The copies of a string among the first that were entered.
LEMMA CopiesNext ==
  ASSUME Inv, NEW s, NEW n \in Nat, NEW n1, n1 = n + 1, n1 <= Len(search_strings)
  PROVE  /\ CopiesTo(s, n) \in Nat
         /\ CopiesTo(s, n1) = CopiesTo(s, n) + IF search_strings[n1] = s THEN 1 ELSE 0
<1> DEFINE S == {k \in 1..n : search_strings[k] = s}
           T == {k \in 1..n1 : search_strings[k] = s}
<1>1. T = IF search_strings[n1] = s THEN S \cup {n1} ELSE S
  OBVIOUS
<1>2. n1 \notin S
  OBVIOUS
<1>3. IsFiniteSet(S) /\ Cardinality(S) \in Nat
  <2>1. IsFiniteSet(1..n) /\ S \subseteq 1..n
    BY FS_Interval
  <2> HIDE DEF S
  <2> QED  BY <2>1, FS_Subset, FS_CardinalityType
<1>4. CopiesTo(s, n) = Cardinality(S) /\ CopiesTo(s, n1) = Cardinality(T)
  BY DEF CopiesTo
<1> HIDE DEF S, T
<1>5. Cardinality(S \cup {n1}) = Cardinality(S) + 1
  BY <1>2, <1>3, FS_AddElement
<1> QED  BY <1>1, <1>3, <1>4, <1>5

LEMMA CopiesEnds ==
  ASSUME Inv, NEW s
  PROVE  /\ CopiesTo(s, 0) = 0
         /\ CopiesTo(s, Len(search_strings)) = Copies(s)
         /\ Copies(s) \in Nat
<1>1. DOMAIN search_strings = 1..Len(search_strings) /\ Len(search_strings) \in Nat
  BY StringsAreStrings
<1>2. {k \in 1..0 : search_strings[k] = s} = {}
  OBVIOUS
<1>3. CopiesTo(s, 0) = 0
  BY <1>2, FS_EmptySet DEF CopiesTo
<1>4. CopiesTo(s, Len(search_strings)) = Copies(s)
  BY <1>1 DEF CopiesTo, Copies
<1> DEFINE S == {k \in 1..Len(search_strings) : search_strings[k] = s}
<1>5. Cardinality(S) \in Nat
  <2>1. IsFiniteSet(1..Len(search_strings)) /\ S \subseteq 1..Len(search_strings)
    BY <1>1, FS_Interval
  <2> HIDE DEF S
  <2> QED  BY <2>1, FS_Subset, FS_CardinalityType
<1> QED  BY <1>3, <1>4, <1>5 DEF CopiesTo

LEMMA FoundFacts ==
  ASSUME NEW s \in Strings, NEW ps \in Seq(ProgramsOf)
  PROVE  /\ AreLists(FoundOf(s, ps)) /\ Len(FoundOf(s, ps)) = Len(ps) /\ Len(ps) \in Nat
         /\ \A k \in 1..Len(ps) : FoundOf(s, ps)[k] = ps[k][s] /\ ps[k][s] \in Seq(Matches)
<1>1. Len(ps) \in Nat /\ DOMAIN ps = 1..Len(ps) /\ \A k \in 1..Len(ps) : ps[k] \in ProgramsOf
  BY ElementOfSeq, LenProperties
<1>2. \A k \in 1..Len(ps) : ps[k][s] \in Seq(Matches)
  BY <1>1 DEF ProgramsOf
<1> HIDE DEF Matches
<1> DEFINE F == FoundOf(s, ps)
<1>3. F = [k \in 1..Len(ps) |-> ps[k][s]]
  BY <1>1 DEF FoundOf
<1> HIDE DEF F
<1>4. F \in [1..Len(ps) -> Seq(Matches)]
  BY <1>2, <1>3
<1>5. F \in Seq(Seq(Matches)) /\ Len(F) = Len(ps) /\ DOMAIN F = 1..Len(ps)
  BY <1>1, <1>4, IsASeq, LenProperties
<1>6. \A k \in 1..Len(ps) : F[k] = ps[k][s]
  BY <1>3
<1>7. AreLists(F)
  BY <1>1, <1>2, <1>5, <1>6, LenProperties DEF AreLists
<1> QED  BY <1>1, <1>2, <1>5, <1>6, <1>7 DEF F

LEMMA EnteredAreStrings ==
  ASSUME Inv
  PROVE  Entered \subseteq Strings
BY StringsAreStrings DEF Entered

\* The program at hand, in what was found.
LEMMA HereFound ==
  ASSUME Inv, Reading, FileIsOpen, p <= Len(programs), NEW s \in Strings
  PROVE  /\ AreLists(Found(s)) /\ AreLists(DayFound(s))
         /\ RangePlace \in 1..Len(Found(s)) /\ DayPlace \in 1..Len(DayFound(s))
         /\ Found(s)[RangePlace] = programs[p][s] /\ DayFound(s)[DayPlace] = programs[p][s]
         /\ programs[p][s] \in Seq(Matches) /\ Len(programs[p][s]) \in Nat
<1>1. /\ read.range \in Seq(ProgramsOf) /\ programs \in Seq(ProgramsOf) /\ read.day = programs
      /\ Len(programs) <= Len(read.range) /\ p \in Nat \ {0}
      /\ \A k \in 1..Len(programs) : read.range[Len(read.range) - Len(programs) + k] = programs[k]
  BY DEF Reading, Inv, TypeInv
<1>2. /\ AreLists(Found(s)) /\ Len(Found(s)) = Len(read.range) /\ Len(read.range) \in Nat
      /\ \A k \in 1..Len(read.range) : Found(s)[k] = read.range[k][s]
  BY <1>1, FoundFacts DEF Found
<1>3. /\ AreLists(DayFound(s)) /\ Len(DayFound(s)) = Len(programs) /\ Len(programs) \in Nat
      /\ \A k \in 1..Len(programs) : DayFound(s)[k] = programs[k][s] /\ programs[k][s] \in Seq(Matches)
  BY <1>1, FoundFacts DEF DayFound
<1>4. RangePlace = Len(read.range) - Len(programs) + p /\ DayPlace = p
  BY DEF RangePlace, DayPlace
<1>5. p \in 1..Len(programs) /\ RangePlace \in 1..Len(read.range)
  BY <1>1, <1>2, <1>3, <1>4
<1>6. read.range[RangePlace] = programs[p]
  BY <1>1, <1>4, <1>5
<1>7. Len(programs[p][s]) \in Nat
  BY <1>3, <1>5, LenProperties
<1> HIDE DEF Matches
<1> QED  BY <1>2, <1>3, <1>4, <1>5, <1>6, <1>7

\* A reader who does not move.
LEMMA ReaderStays ==
  ASSUME NEW s, ContextsRead(s), UNCHANGED read, UNCHANGED <<RangePlace, DayPlace>>,
         Further(s)' = Further(s), At(s)' = At(s), ~IsBeingRead(s)',
         day'[s] = day[s], total'[s] = total[s],
         match_counts'[s].contexts = match_counts[s].contexts,
         daily_match_counts'[s].contexts = daily_match_counts[s].contexts
  PROVE  ContextsRead(s)'
<1>1. Found(s)' = Found(s) /\ DayFound(s)' = DayFound(s)
  BY DEF Found, DayFound, FoundOf
<1> QED  BY <1>1 DEF ContextsRead

\* The loops go on to the next string.
LEMMA StringPassed ==
  ASSUME Inv, Reading, NEW s \in Entered, ContextsRead(s),
         FileIsOpen, p <= Len(programs), ss <= Len(search_strings),
         s = string /\ ~IsRead(s) => At(s) = Len(match_positions) + 1,
         UNCHANGED <<search_strings, read, programs, p>>, day'[s] = day[s], total'[s] = total[s],
         match_counts'[s].contexts = match_counts[s].contexts,
         daily_match_counts'[s].contexts = daily_match_counts[s].contexts,
         ss' = ss + 1, pc' = "programs"
  PROVE  ContextsRead(s)'
<1>1. s \in Strings /\ ss \in Nat \ {0} /\ FileIsOpen'
  BY EnteredAreStrings DEF Inv, TypeInv, FileIsOpen
<1>2. IsRead(s)' <=> IsRead(s) \/ s = string
  <2>1. ss' - 1 = ss /\ 1..ss = 1..(ss - 1) \cup {ss}
    BY <1>1
  <2> QED  BY <1>1, <2>1 DEF IsRead, string
<1>3. RangePlace' = RangePlace /\ DayPlace' = DayPlace /\ ~IsBeingRead(s)' /\ At(s)' = 1
  BY <1>1 DEF RangePlace, DayPlace, IsBeingRead, At
<1>4. CASE s = string /\ ~IsRead(s)
  <2>1. PICK F, D, k, d : F = Found(s) /\ D = DayFound(s) /\ k = RangePlace /\ d = DayPlace
    OBVIOUS
  <2>2. /\ AreLists(F) /\ k \in 1..Len(F) /\ AreLists(D) /\ d \in 1..Len(D)
        /\ F[k] = match_positions /\ D[d] = match_positions
    BY <1>1, <1>4, <2>1, HereFound DEF match_positions
  <2>3. k \in Nat /\ d \in Nat
    BY <2>2 DEF AreLists
  <2>4. /\ \A t : Holds(t, F, k, Len(F[k]) + 1) => Holds(t, F, k + 1, 1)
        /\ CountedTo(F, k + 1, 1) = CountedTo(F, k, Len(F[k]) + 1)
    BY <2>2, ProgramSeen
  <2>5. /\ \A t : Holds(t, D, d, Len(D[d]) + 1) => Holds(t, D, d + 1, 1)
        /\ CountedTo(D, d + 1, 1) = CountedTo(D, d, Len(D[d]) + 1)
    BY <2>2, ProgramSeen
  <2>6. /\ Further(s) = 0 /\ Further(s)' = 1 /\ k + 0 = k /\ d + 0 = d
        /\ At(s) = Len(F[k]) + 1 /\ At(s) = Len(D[d]) + 1
    BY <1>2, <1>4, <2>2, <2>3 DEF Further
  <2>7. /\ Reads(F, k, Len(F[k]) + 1, total[s], match_counts[s].contexts)
        /\ Reads(D, d, Len(D[d]) + 1, day[s], daily_match_counts[s].contexts)
    BY <2>1, <2>6 DEF ContextsRead
  <2>8. /\ Reads(F, k + 1, 1, total[s], match_counts[s].contexts)
        /\ Reads(D, d + 1, 1, day[s], daily_match_counts[s].contexts)
    BY <2>4, <2>5, <2>7 DEF Reads
  <2>9. Found(s)' = F /\ DayFound(s)' = D
    BY <2>1 DEF Found, DayFound, FoundOf
  <2> QED  BY <1>3, <2>1, <2>6, <2>8, <2>9 DEF ContextsRead
<1>5. CASE ~(s = string /\ ~IsRead(s))
  <2>1. Further(s)' = Further(s) /\ At(s) = 1
    BY <1>2, <1>5 DEF Further, IsBeingRead, At
  <2> QED  BY <1>3, <2>1, ReaderStays
<1> QED  BY <1>4, <1>5

\* The reader of a string that comes up for the first time starts at its first
\* match.
LEMMA StringStarts ==
  ASSUME Inv, SumTypes, NEW s \in Entered, ContextsRead(s), StringWithMatches
  PROVE  ContextsRead(s)'
<1>1. /\ s \in Strings /\ pc = "programs" /\ pc' = "matches" /\ FileIsOpen /\ FileIsOpen'
      /\ UNCHANGED <<search_strings, read, programs, p, ss, day, total>>
      /\ m' = 1 /\ ~context_added' /\ ~total_context_added'
  BY EnteredAreStrings DEF StringWithMatches, NextString, FileIsOpen, files
<1>2. /\ match_counts'[s].contexts = match_counts[s].contexts
      /\ daily_match_counts'[s].contexts = daily_match_counts[s].contexts
  BY <1>1, StringCounted
<1>3. /\ RangePlace' = RangePlace /\ DayPlace' = DayPlace /\ string' = string
      /\ (IsRead(s)' <=> IsRead(s)) /\ At(s) = 1 /\ At(s)' = 1
      /\ Found(s)' = Found(s) /\ DayFound(s)' = DayFound(s)
  BY <1>1 DEF RangePlace, DayPlace, string, IsRead, At, IsBeingRead, Found, DayFound, FoundOf
<1>4. Further(s)' = Further(s)
  BY <1>3 DEF Further
<1>5. \A F, k : ~HasContext(F, k, 1)
  <2>1. 1..(1 - 1) = {}
    OBVIOUS
  <2> QED  BY <2>1 DEF HasContext
<1> QED  BY <1>1, <1>2, <1>3, <1>4, <1>5 DEF ContextsRead

\* The tables and counts of a string not at hand stay.
LEMMA OthersStay ==
  ASSUME Inv, SumTypes, NEW s \in Strings, s # string, Examine
  PROVE  /\ day'[s] = day[s] /\ total'[s] = total[s]
         /\ match_counts'[s] = match_counts[s]
         /\ daily_match_counts'[s] = daily_match_counts[s]
<1>1. PICK isNew \in BOOLEAN, isKept \in BOOLEAN :
        /\ OneMore(daily_match_counts, daily_match_counts', isNew /\ ~context_added)
        /\ OneMore(match_counts, match_counts', isKept /\ ~total_context_added)
        /\ \E match \in Matches :
             /\ day' = [day EXCEPT ![string] = Enter(match, @)]
             /\ total' = [total EXCEPT ![string] = Enter(match, @)]
  BY MatchCounted
<1>2. DOMAIN day = Strings /\ DOMAIN total = Strings
  BY DEF SumTypes, Inv, TypeInv
<1> QED  BY <1>1, <1>2 DEF OneMore

\* What a match does to the tables and counts of the string at hand.  What is
\* new to the range is new to the day.
LEMMA MatchOfString ==
  ASSUME Inv, SumTypes, ContextsIfAny, Examine
  PROVE  \E match, isNew, isTotallyNew :
           /\ match = match_positions[m] /\ isNew \in BOOLEAN /\ isTotallyNew \in BOOLEAN
           /\ isNew <=> IsNew(match, day[string])
           /\ isTotallyNew <=> IsNew(match, total[string])
           /\ day'[string] = Enter(match, day[string]) /\ total'[string] = Enter(match, total[string])
           /\ context_added' = (context_added \/ isNew)
           /\ total_context_added' = (total_context_added \/ isTotallyNew)
           /\ daily_match_counts'[string].contexts =
                daily_match_counts[string].contexts + IF isNew /\ ~context_added THEN 1 ELSE 0
           /\ match_counts'[string].contexts =
                match_counts[string].contexts + IF isTotallyNew /\ ~total_context_added THEN 1 ELSE 0
<1>1. string \in Strings
  BY MatchCounted
<1> DEFINE match == match_positions[m]
           isNew == IsNew(match, day[string])
           isTotallyNew == IsNew(match, total[string])
<1>2. isNew \in BOOLEAN /\ isTotallyNew \in BOOLEAN
  BY DEF IsNew
<1>3. isTotallyNew => isNew
  BY <1>1 DEF IsNew, ContextsIfAny
<1>4. /\ day' = [day EXCEPT ![string] = Enter(match, @)]
      /\ total' = [total EXCEPT ![string] = Enter(match, @)]
      /\ context_added' = (context_added \/ isNew)
      /\ total_context_added' = (total_context_added \/ (isNew /\ isTotallyNew))
      /\ daily_match_counts' = IF isNew /\ ~context_added
           THEN [daily_match_counts EXCEPT ![string].contexts = @ + 1] ELSE daily_match_counts
      /\ match_counts' = IF isNew /\ isTotallyNew /\ ~total_context_added
           THEN [match_counts EXCEPT ![string].contexts = @ + 1] ELSE match_counts
  BY DEF Examine, IsKept
<1>5. /\ match_counts \in [Strings -> Counts] /\ daily_match_counts \in [Strings -> Counts]
      /\ DOMAIN day = Strings /\ DOMAIN total = Strings
  BY DEF Inv, TypeInv, SumTypes
<1>6. (isNew /\ ~context_added) \in BOOLEAN /\ (isNew /\ isTotallyNew /\ ~total_context_added) \in BOOLEAN
  OBVIOUS
<1>7. /\ OneMore(daily_match_counts, daily_match_counts', isNew /\ ~context_added)
      /\ OneMore(match_counts, match_counts', isNew /\ isTotallyNew /\ ~total_context_added)
  <2> HIDE DEF isNew, isTotallyNew
  <2> QED  BY <1>1, <1>4, <1>5, <1>6, OneMoreIs
<1>8. day'[string] = Enter(match, day[string]) /\ total'[string] = Enter(match, total[string])
  BY <1>1, <1>4, <1>5
<1>9. /\ total_context_added' = (total_context_added \/ isTotallyNew)
      /\ daily_match_counts'[string].contexts =
           daily_match_counts[string].contexts + IF isNew /\ ~context_added THEN 1 ELSE 0
      /\ match_counts'[string].contexts =
           match_counts[string].contexts + IF isTotallyNew /\ ~total_context_added THEN 1 ELSE 0
  <2> HIDE DEF isNew, isTotallyNew
  <2> QED  BY <1>3, <1>4, <1>7 DEF OneMore
<1> HIDE DEF match
<1>10. match = match_positions[m]
  BY DEF match
<1> QED  BY <1>2, <1>4, <1>8, <1>9, <1>10

LEMMA MatchRead ==
  ASSUME Inv, SumTypes, ContextsIfAny, Reading, NEW s \in Entered, ContextsRead(s), Examine
  PROVE  ContextsRead(s)'
<1>1. /\ s \in Strings /\ pc = "matches" /\ pc' = "matches" /\ FileIsOpen /\ FileIsOpen'
      /\ p <= Len(programs) /\ m \in Nat \ {0} /\ m <= Len(match_positions) /\ m' = m + 1
      /\ UNCHANGED <<search_strings, read, programs, p, ss>>
  BY EnteredAreStrings DEF Examine, FileIsOpen, files, Inv, TypeInv
<1>2. /\ RangePlace' = RangePlace /\ DayPlace' = DayPlace /\ string' = string
      /\ (IsRead(s)' <=> IsRead(s)) /\ Found(s)' = Found(s) /\ DayFound(s)' = DayFound(s)
  BY <1>1 DEF RangePlace, DayPlace, string, IsRead, Found, DayFound, FoundOf
<1>3. Further(s)' = Further(s) /\ (IsBeingRead(s)' <=> IsBeingRead(s))
  BY <1>1, <1>2 DEF Further, IsBeingRead
<1>4. CASE s # string
  <2>1. ~IsBeingRead(s)' /\ At(s)' = At(s)
    BY <1>3, <1>4 DEF IsBeingRead, At
  <2> QED  BY <1>1, <1>2, <1>3, <1>4, <2>1, OthersStay, ReaderStays
<1>5. CASE s = string
  <2>1. PICK match, isNew, isTotallyNew :
          /\ match = match_positions[m] /\ isNew \in BOOLEAN /\ isTotallyNew \in BOOLEAN
          /\ isNew <=> IsNew(match, day[string])
          /\ isTotallyNew <=> IsNew(match, total[string])
          /\ day'[string] = Enter(match, day[string]) /\ total'[string] = Enter(match, total[string])
          /\ context_added' = (context_added \/ isNew)
          /\ total_context_added' = (total_context_added \/ isTotallyNew)
          /\ daily_match_counts'[string].contexts =
               daily_match_counts[string].contexts + IF isNew /\ ~context_added THEN 1 ELSE 0
          /\ match_counts'[string].contexts =
               match_counts[string].contexts + IF isTotallyNew /\ ~total_context_added THEN 1 ELSE 0
    BY MatchOfString
  <2>2. /\ isNew \in BOOLEAN /\ isTotallyNew \in BOOLEAN
        /\ isNew <=> IsNew(match, day[s])
        /\ isTotallyNew <=> IsNew(match, total[s])
        /\ day'[s] = Enter(match, day[s]) /\ total'[s] = Enter(match, total[s])
        /\ context_added' = (context_added \/ isNew)
        /\ total_context_added' = (total_context_added \/ isTotallyNew)
        /\ daily_match_counts'[s].contexts =
             daily_match_counts[s].contexts + IF isNew /\ ~context_added THEN 1 ELSE 0
        /\ match_counts'[s].contexts =
             match_counts[s].contexts + IF isTotallyNew /\ ~total_context_added THEN 1 ELSE 0
    BY <1>5, <2>1
  <2>3. PICK F, D, k, d, j : F = Found(s) /\ D = DayFound(s) /\ k = RangePlace /\ d = DayPlace /\ j = m
    OBVIOUS
  <2>4. /\ AreLists(F) /\ k \in 1..Len(F) /\ j \in 1..Len(F[k]) /\ F[k][j] = match
        /\ AreLists(D) /\ d \in 1..Len(D) /\ j \in 1..Len(D[d]) /\ D[d][j] = match
    <3>1. /\ AreLists(F) /\ k \in 1..Len(F) /\ AreLists(D) /\ d \in 1..Len(D)
          /\ F[k] = match_positions /\ D[d] = match_positions /\ Len(match_positions) \in Nat
      BY <1>1, <1>5, <2>3, HereFound DEF match_positions
    <3>2. j \in 1..Len(match_positions)
      BY <1>1, <2>3, <3>1
    <3> QED  BY <2>1, <2>3, <3>1, <3>2
  <2>5. k \in Nat /\ d \in Nat
    BY <2>4 DEF AreLists
  <2>6. PICK n, o : n = match_counts[s].contexts /\ o = daily_match_counts[s].contexts
    OBVIOUS
  <2>7. n \in Nat /\ o \in Nat
    BY <1>1, <2>6 DEF Inv, TypeInv, SumTypes, Counts
  <2>8. CASE ~IsRead(s)
    <3>1. IsBeingRead(s) /\ Further(s) = 0 /\ At(s) = j /\ At(s)' = j + 1 /\ k + 0 = k /\ d + 0 = d
      BY <1>1, <1>3, <1>5, <2>3, <2>5, <2>8 DEF IsBeingRead, Further, At
    <3>2. /\ Reads(F, k, j, total[s], n) /\ Reads(D, d, j, day[s], o)
          /\ total_context_added <=> HasContext(F, k, j)
          /\ context_added <=> HasContext(D, d, j)
      BY <2>3, <2>6, <3>1 DEF ContextsRead
    <3>3. /\ IsNew(F[k][j], total[s]) <=> NewAt(F, k, j)
          /\ Holds(Enter(F[k][j], total[s]), F, k, j + 1)
          /\ HasContext(F, k, j + 1) <=> HasContext(F, k, j) \/ NewAt(F, k, j)
          /\ CountedTo(F, k, j + 1) =
               CountedTo(F, k, j) + IF NewAt(F, k, j) /\ ~HasContext(F, k, j) THEN 1 ELSE 0
      BY <2>4, <3>2, MatchSeen DEF Reads
    <3>4. /\ IsNew(D[d][j], day[s]) <=> NewAt(D, d, j)
          /\ Holds(Enter(D[d][j], day[s]), D, d, j + 1)
          /\ HasContext(D, d, j + 1) <=> HasContext(D, d, j) \/ NewAt(D, d, j)
          /\ CountedTo(D, d, j + 1) =
               CountedTo(D, d, j) + IF NewAt(D, d, j) /\ ~HasContext(D, d, j) THEN 1 ELSE 0
      BY <2>4, <3>2, MatchSeen DEF Reads
    <3>5. /\ match_counts'[s].contexts = CountedTo(F, k, j + 1)
          /\ total_context_added' <=> HasContext(F, k, j + 1)
      <4>1. match_counts'[s].contexts = CountedTo(F, k, j + 1)
        BY <2>2, <2>4, <2>6, <3>2, <3>3 DEF Reads
      <4>2. total_context_added' <=> HasContext(F, k, j + 1)
        BY <2>2, <2>4, <3>2, <3>3
      <4> QED  BY <4>1, <4>2
    <3>6. /\ daily_match_counts'[s].contexts = CountedTo(D, d, j + 1)
          /\ context_added' <=> HasContext(D, d, j + 1)
      <4>1. daily_match_counts'[s].contexts = CountedTo(D, d, j + 1)
        BY <2>2, <2>4, <2>6, <3>2, <3>4 DEF Reads
      <4>2. context_added' <=> HasContext(D, d, j + 1)
        BY <2>2, <2>4, <3>2, <3>4
      <4> QED  BY <4>1, <4>2
    <3>7. /\ Reads(F, k, j + 1, total'[s], match_counts'[s].contexts)
          /\ Reads(D, d, j + 1, day'[s], daily_match_counts'[s].contexts)
      BY <2>2, <2>4, <3>3, <3>4, <3>5, <3>6 DEF Reads
    <3>8. /\ Found(s)' = F /\ DayFound(s)' = D /\ RangePlace' = k /\ DayPlace' = d
          /\ RangePlace' + Further(s)' = k /\ DayPlace' + Further(s)' = d
          /\ IsBeingRead(s)' /\ At(s)' = j + 1 /\ m' = j + 1
      BY <1>1, <1>2, <1>3, <2>3, <3>1
    <3> QED  BY <3>5, <3>6, <3>7, <3>8 DEF ContextsRead
  <2>9. CASE IsRead(s)
    <3>1. ~IsBeingRead(s) /\ Further(s) = 1 /\ At(s) = 1
      BY <2>9 DEF IsBeingRead, Further, At
    <3>2. PICK k1, d1 : k1 = k + 1 /\ d1 = d + 1
      OBVIOUS
    <3>3. Reads(F, k1, 1, total[s], n) /\ Reads(D, d1, 1, day[s], o)
      BY <2>3, <2>6, <3>1, <3>2 DEF ContextsRead
    <3>4. ~IsNew(F[k][j], total[s]) /\ Holds(Enter(F[k][j], total[s]), F, k1, 1)
      BY <2>4, <3>2, <3>3, ReadAgain DEF Reads
    <3>5. ~IsNew(D[d][j], day[s]) /\ Holds(Enter(D[d][j], day[s]), D, d1, 1)
      BY <2>4, <3>2, <3>3, ReadAgain DEF Reads
    <3>6. match_counts'[s].contexts = n /\ daily_match_counts'[s].contexts = o
      BY <2>2, <2>4, <2>6, <2>7, <3>4, <3>5
    <3>7. /\ Reads(F, k1, 1, total'[s], match_counts'[s].contexts)
          /\ Reads(D, d1, 1, day'[s], daily_match_counts'[s].contexts)
      BY <2>2, <2>4, <3>3, <3>4, <3>5, <3>6 DEF Reads
    <3>8. /\ Found(s)' = F /\ DayFound(s)' = D
          /\ RangePlace' + Further(s)' = k1 /\ DayPlace' + Further(s)' = d1
          /\ ~IsBeingRead(s)' /\ At(s)' = 1
      BY <1>2, <1>3, <2>3, <3>1, <3>2 DEF At
    <3> QED  BY <3>7, <3>8 DEF ContextsRead
  <2> QED  BY <2>8, <2>9
<1> QED  BY <1>4, <1>5

\* The next program, all strings of the last being read.
LEMMA ProgramPassed ==
  ASSUME Inv, Reading, NEW s \in Entered, ContextsRead(s), EndOfProgram
  PROVE  ContextsRead(s)'
<1>1. /\ pc = "programs" /\ pc' = "programs" /\ FileIsOpen /\ FileIsOpen'
      /\ p <= Len(programs) /\ ss > Len(search_strings) /\ p' = p + 1 /\ ss' = 1
      /\ UNCHANGED <<search_strings, read, programs, day, total, match_counts, daily_match_counts>>
      /\ p \in Nat /\ ss \in Nat /\ Len(programs) \in Nat
  BY LenProperties DEF EndOfProgram, FileIsOpen, files, tables, sums, Inv, TypeInv
<1>2. IsRead(s) /\ ~IsRead(s)'
  <2>1. PICK k \in DOMAIN search_strings : s = search_strings[k]
    BY DEF Entered
  <2>2. k \in 1..(ss - 1)
    BY <1>1, StringsAreStrings
  <2>3. 1..(1 - 1) = {}
    OBVIOUS
  <2> QED  BY <1>1, <2>1, <2>2, <2>3 DEF IsRead
<1>3. Further(s) = 1 /\ Further(s)' = 0 /\ At(s) = 1 /\ At(s)' = 1 /\ ~IsBeingRead(s)'
  BY <1>1, <1>2 DEF Further, At, IsBeingRead
<1>4. RangePlace' + 0 = RangePlace + 1 /\ DayPlace' + 0 = DayPlace + 1
  <2>1. Len(read.range) \in Nat
    BY LenProperties DEF Reading
  <2>2. /\ RangePlace = Len(read.range) - Len(programs) + p /\ DayPlace = p
        /\ RangePlace' = Len(read.range) - Len(programs) + (p + 1) /\ DayPlace' = p + 1
    BY <1>1 DEF RangePlace, DayPlace
  <2>3. PICK r \in Nat, n \in Nat, q \in Nat : r = Len(read.range) /\ n = Len(programs) /\ q = p
    BY <1>1, <2>1
  <2>4. (r - n + (q + 1)) + 0 = (r - n + q) + 1 /\ (q + 1) + 0 = q + 1
    OBVIOUS
  <2> QED  BY <2>2, <2>3, <2>4
<1>5. Found(s)' = Found(s) /\ DayFound(s)' = DayFound(s)
  BY <1>1 DEF Found, DayFound, FoundOf
<1> QED  BY <1>1, <1>3, <1>4, <1>5 DEF ContextsRead

\* Between the files the readers stand behind all that was read.
LEMMA PlaceAtEnd ==
  ASSUME Inv, Reading, EndOfFile
  PROVE  RangePlace' = RangePlace /\ DayPlace' = DayPlace /\ ss = 1
<1>1. /\ pc = "programs" /\ pc' = "files" /\ FileIsOpen /\ ~FileIsOpen' /\ p > Len(programs)
      /\ UNCHANGED <<search_strings, read, day, total, match_counts, daily_match_counts>>
  BY DEF EndOfFile, FileIsOpen, files, tables, sums
<1>2. /\ p = Len(programs) + 1 /\ read.day = programs /\ ss = 1
      /\ Len(read.range) \in Nat /\ Len(programs) \in Nat
  <2>1. Len(read.range) \in Nat /\ Len(programs) \in Nat /\ p \in Nat
    BY LenProperties DEF Reading, Inv, TypeInv
  <2>2. p = Len(programs) + 1
    BY <1>1, <2>1 DEF Reading
  <2> QED  BY <1>1, <2>1, <2>2 DEF Reading
<1>3. RangePlace' = RangePlace /\ DayPlace' = DayPlace
  <2>1. /\ RangePlace = Len(read.range) - Len(programs) + p /\ DayPlace = p
        /\ RangePlace' = Len(read.range) + 1 /\ DayPlace' = Len(read.day) + 1
    BY <1>1 DEF RangePlace, DayPlace
  <2>2. PICK r \in Nat, n \in Nat : r = Len(read.range) /\ n = Len(programs)
    BY <1>2
  <2>3. r - n + (n + 1) = r + 1
    OBVIOUS
  <2> QED  BY <1>2, <2>1, <2>2, <2>3
<1> QED  BY <1>2, <1>3

LEMMA FileRead ==
  ASSUME Inv, Reading, NEW s \in Entered, ContextsRead(s), EndOfFile
  PROVE  ContextsRead(s)'
<1>1. /\ pc = "programs" /\ pc' = "files" /\ FileIsOpen /\ ~FileIsOpen'
      /\ UNCHANGED <<search_strings, read, day, total, match_counts, daily_match_counts>>
  BY DEF EndOfFile, FileIsOpen, files, tables, sums
<1>2. ss = 1
  BY PlaceAtEnd
<1>3. RangePlace' = RangePlace /\ DayPlace' = DayPlace
  BY PlaceAtEnd
<1>4. ~IsRead(s) /\ ~IsRead(s)'
  <2>1. 1..(1 - 1) = {}
    OBVIOUS
  <2> QED  BY <1>1, <1>2, <2>1 DEF IsRead
<1>5. Further(s)' = Further(s) /\ At(s)' = At(s) /\ ~IsBeingRead(s)'
  BY <1>1, <1>4 DEF Further, At, IsBeingRead
<1> QED  BY <1>1, <1>3, <1>5, ReaderStays

\* What a file adds to what has been read.
LEMMA ReadAdded ==
  ASSUME Reading, NEW content \in Files, OpenFile(content)
  PROVE  /\ read'.range \in Seq(ProgramsOf) /\ read'.day = content /\ content \in Seq(ProgramsOf)
         /\ Len(read'.range) = Len(read.range) + Len(content)
         /\ Len(read.range) \in Nat /\ Len(content) \in Nat
         /\ \A k \in 1..Len(read.range) : read'.range[k] = read.range[k]
         /\ \A k \in 1..Len(content) : read'.range[Len(read.range) + k] = content[k]
<1> DEFINE r == read.range
           q == r \o content
<1>1. content \in Seq(ProgramsOf) /\ r \in Seq(ProgramsOf)
  BY FilesAssumption DEF Reading
<1>2. /\ q \in Seq(ProgramsOf) /\ Len(q) = Len(r) + Len(content)
      /\ \A k \in 1..(Len(r) + Len(content)) : q[k] = IF k <= Len(r) THEN r[k] ELSE content[k - Len(r)]
      /\ Len(r) \in Nat /\ Len(content) \in Nat
  BY <1>1, ConcatProperties, LenProperties
<1>3. read' = [range |-> q, day |-> content]
  BY DEF OpenFile
<1> HIDE DEF r, q
<1>4. ASSUME NEW k \in 1..Len(content) PROVE q[Len(r) + k] = content[k]
  <2>1. Len(r) + k \in 1..(Len(r) + Len(content)) /\ ~(Len(r) + k <= Len(r)) /\ Len(r) + k - Len(r) = k
    BY <1>2
  <2> QED  BY <1>2, <2>1
<1>5. \A k \in 1..Len(r) : q[k] = r[k]
  BY <1>2
<1>6. read'.range = q /\ read'.day = content
  BY <1>3
<1> QED  BY <1>1, <1>2, <1>4, <1>5, <1>6 DEF r

LEMMA FileAdded ==
  ASSUME Reading, NEW content \in Files, OpenFile(content), NEW s \in Strings
  PROVE  /\ AreLists(Found(s)) /\ Len(Found(s)) = Len(read.range)
         /\ AreLists(Found(s)') /\ Len(Found(s)') = Len(read'.range)
         /\ \A k \in 1..Len(Found(s)) : Found(s)'[k] = Found(s)[k]
         /\ AreLists(DayFound(s)')
<1>1. PICK r, q : r = read.range /\ q = read'.range
  OBVIOUS
<1>2. /\ r \in Seq(ProgramsOf) /\ q \in Seq(ProgramsOf) /\ read'.day = content /\ content \in Seq(ProgramsOf)
      /\ Len(q) = Len(r) + Len(content) /\ Len(r) \in Nat /\ Len(content) \in Nat
      /\ \A k \in 1..Len(r) : q[k] = r[k]
  BY <1>1, ReadAdded DEF Reading
<1>3. /\ AreLists(FoundOf(s, r)) /\ Len(FoundOf(s, r)) = Len(r)
      /\ \A k \in 1..Len(r) : FoundOf(s, r)[k] = r[k][s]
  BY <1>2, FoundFacts
<1>4. /\ AreLists(FoundOf(s, q)) /\ Len(FoundOf(s, q)) = Len(q)
      /\ \A k \in 1..Len(q) : FoundOf(s, q)[k] = q[k][s]
  BY <1>2, FoundFacts
<1>5. AreLists(FoundOf(s, content))
  BY <1>2, FoundFacts
<1>6. \A k \in 1..Len(r) : k \in 1..Len(q)
  BY <1>2
<1>7. Found(s) = FoundOf(s, r) /\ Found(s)' = FoundOf(s, q) /\ DayFound(s)' = FoundOf(s, content)
  BY <1>1, <1>2 DEF Found, DayFound, FoundOf
<1> QED  BY <1>1, <1>2, <1>3, <1>4, <1>5, <1>6, <1>7, SMTT(30)

\* Where the readers stand when a file is opened.
LEMMA PlaceAtOpen ==
  ASSUME Reading, NEW content \in Files, OpenFile(content), NEW s \in Strings
  PROVE  /\ RangePlace = Len(Found(s)) + 1 /\ RangePlace' = Len(Found(s)) + 1 /\ DayPlace' = 1
         /\ Len(Found(s)) \in Nat
         /\ Further(s) = 0 /\ Further(s)' = 0 /\ At(s) = 1 /\ At(s)' = 1 /\ ~IsBeingRead(s)'
<1>1. /\ pc = "files" /\ pc' = "programs" /\ programs' = content /\ p' = 1 /\ ss' = 1
      /\ FileIsOpen' /\ ~FileIsOpen
  BY DEF OpenFile, NextFile, FileIsOpen
<1>2. /\ Len(read'.range) = Len(read.range) + Len(content)
      /\ Len(read.range) \in Nat /\ Len(content) \in Nat /\ Len(Found(s)) = Len(read.range)
  BY FileAdded, ReadAdded
<1>3. /\ RangePlace = Len(read.range) + 1 /\ DayPlace' = 1
      /\ RangePlace' = Len(read'.range) - Len(content) + 1
  BY <1>1 DEF RangePlace, DayPlace
<1>4. RangePlace' = Len(read.range) + 1
  <2>1. PICK r \in Nat, n \in Nat : r = Len(read.range) /\ n = Len(content)
    BY <1>2
  <2>2. (r + n) - n + 1 = r + 1
    OBVIOUS
  <2> QED  BY <1>2, <1>3, <2>1, <2>2
<1>5. 1..(1 - 1) = {}
  OBVIOUS
<1>6. Further(s) = 0 /\ Further(s)' = 0 /\ At(s) = 1 /\ At(s)' = 1 /\ ~IsBeingRead(s)'
  BY <1>1, <1>5 DEF Further, At, IsBeingRead, IsRead
<1> QED  BY <1>2, <1>3, <1>4, <1>6

LEMMA FileOpened ==
  ASSUME Inv, Reading, NEW s \in Entered, ContextsRead(s), NEW content \in Files, OpenFile(content)
  PROVE  ContextsRead(s)'
<1>1. s \in Strings
  BY EnteredAreStrings
<1>2. /\ total' = total /\ match_counts' = match_counts
      /\ day'[s] = NoHashes /\ daily_match_counts'[s].contexts = 0
  BY <1>1 DEF OpenFile, NoTables, Zero
<1>3. PICK F, G, D, k : F = Found(s) /\ G = Found(s)' /\ D = DayFound(s)' /\ k = Len(F) + 1
  OBVIOUS
<1>4. AreLists(F) /\ AreLists(G) /\ AreLists(D) /\ Len(F) <= Len(G) /\ \A i \in 1..Len(F) : G[i] = F[i]
  <2>1. /\ Len(read'.range) = Len(read.range) + Len(content)
        /\ Len(read.range) \in Nat /\ Len(content) \in Nat
        /\ AreLists(F) /\ Len(F) = Len(read.range) /\ AreLists(G) /\ Len(G) = Len(read'.range)
        /\ \A i \in 1..Len(F) : G[i] = F[i]
        /\ AreLists(D)
    BY <1>1, <1>3, FileAdded, ReadAdded
  <2> QED  BY <2>1
<1>5. /\ RangePlace = k /\ RangePlace' = k /\ DayPlace' = 1 /\ k + 0 = k /\ 1 + 0 = 1
      /\ Further(s) = 0 /\ Further(s)' = 0 /\ At(s) = 1 /\ At(s)' = 1 /\ ~IsBeingRead(s)'
  <2>1. /\ RangePlace = Len(F) + 1 /\ RangePlace' = Len(F) + 1 /\ DayPlace' = 1 /\ Len(F) \in Nat
        /\ Further(s) = 0 /\ Further(s)' = 0 /\ At(s) = 1 /\ At(s)' = 1 /\ ~IsBeingRead(s)'
    BY <1>1, <1>3, PlaceAtOpen
  <2> QED  BY <1>3, <2>1
<1>6. Reads(F, k, 1, total[s], match_counts[s].contexts)
  BY <1>3, <1>5 DEF ContextsRead
<1>7. Reads(G, k, 1, total[s], match_counts[s].contexts)
  <2>1. /\ \A t : Holds(t, F, Len(F) + 1, 1) => Holds(t, G, Len(F) + 1, 1)
        /\ CountedTo(G, Len(F) + 1, 1) = CountedTo(F, Len(F) + 1, 1)
    BY <1>4, MoreFound
  <2> QED  BY <1>3, <1>6, <2>1 DEF Reads
<1>8. Reads(D, 1, 1, NoHashes, 0)
  BY <1>4, NothingBefore DEF Reads
<1> QED  BY <1>2, <1>3, <1>5, <1>7, <1>8 DEF ContextsRead

\* The contexts of every string are those its reader has seen.
LEMMA ContextsStep ==
  ASSUME Inv, SumTypes, ContextsIfAny, Reading, NEW s \in Entered, ContextsRead(s), [Next]_vars
  PROVE  ContextsRead(s)'
<1>1. CASE MissingFile \/ CorruptFile \/ Finish
  <2>1. /\ pc = "files" /\ pc' # "matches" /\ ~FileIsOpen /\ ~FileIsOpen'
        /\ UNCHANGED <<search_strings, read, programs, p, ss, day, total, match_counts, daily_match_counts>>
    BY <1>1 DEF MissingFile, CorruptFile, Finish, NextFile, FileIsOpen, files, tables, sums
  <2>2. /\ UNCHANGED <<RangePlace, DayPlace>> /\ Further(s)' = Further(s) /\ At(s)' = At(s) /\ ~IsBeingRead(s)'
    BY <2>1 DEF RangePlace, DayPlace, Further, IsRead, At, IsBeingRead
  <2> QED  BY <2>1, <2>2, ReaderStays
<1>2. CASE \E content \in Files : OpenFile(content)
  BY <1>2, FileOpened
<1>3. CASE StringWithoutMatch
  <2>1. /\ FileIsOpen /\ p <= Len(programs) /\ ss <= Len(search_strings) /\ pc = "programs"
        /\ UNCHANGED <<search_strings, read, programs, p, day, total, match_counts, daily_match_counts>>
        /\ ss' = ss + 1 /\ pc' = "programs" /\ match_positions = <<>>
    BY <1>3 DEF StringWithoutMatch, NextString, FileIsOpen, files, tables, sums
  <2>2. At(s) = Len(match_positions) + 1
    <3>1. Len(<<>>) + 1 = 1
      OBVIOUS
    <3> QED  BY <2>1, <3>1 DEF At, IsBeingRead
  <2> QED  BY <2>1, <2>2, StringPassed
<1>4. CASE StringWithMatches
  BY <1>4, StringStarts
<1>5. CASE Examine
  BY <1>5, MatchRead
<1>6. CASE EndOfString
  <2>1. /\ FileIsOpen /\ p <= Len(programs) /\ ss <= Len(search_strings) /\ pc = "matches"
        /\ UNCHANGED <<search_strings, read, programs, p, day, total, match_counts, daily_match_counts>>
        /\ ss' = ss + 1 /\ pc' = "programs" /\ m > Len(match_positions)
    BY <1>6 DEF EndOfString, FileIsOpen, files, tables, sums, Inv, TypeInv
  <2>2. m = Len(match_positions) + 1
    <3>1. Len(match_positions) \in Nat /\ m \in Nat
      BY <2>1, AtHand, LenProperties DEF Inv, TypeInv
    <3> QED  BY <2>1, <3>1 DEF Reading
  <2>3. s = string /\ ~IsRead(s) => At(s) = Len(match_positions) + 1
    BY <2>1, <2>2 DEF At, IsBeingRead
  <2> QED  BY <2>1, <2>3, StringPassed
<1>7. CASE EndOfProgram
  BY <1>7, ProgramPassed
<1>8. CASE EndOfFile
  BY <1>8, FileRead
<1>9. CASE UNCHANGED vars
  <2>1. UNCHANGED <<search_strings, read, programs, p, ss, m, pc, day, total, match_counts, daily_match_counts,
                    context_added, total_context_added>>
    BY <1>9 DEF vars, files, tables, sums
  <2>2. UNCHANGED <<RangePlace, DayPlace>> /\ string' = string /\ (IsRead(s)' <=> IsRead(s))
        /\ Found(s)' = Found(s) /\ DayFound(s)' = DayFound(s)
    BY <2>1 DEF RangePlace, DayPlace, FileIsOpen, string, IsRead, Found, DayFound, FoundOf
  <2>3. Further(s)' = Further(s) /\ At(s)' = At(s) /\ (IsBeingRead(s)' <=> IsBeingRead(s))
    BY <2>1, <2>2 DEF Further, At, IsBeingRead
  <2> QED  BY <2>1, <2>2, <2>3 DEF ContextsRead
<1> QED  BY <1>1, <1>2, <1>3, <1>4, <1>5, <1>6, <1>7, <1>8, <1>9 DEF Next

LEMMA ReadingStep ==
  ASSUME Inv, Reading, [Next]_vars
  PROVE  Reading'
<1>0. /\ Len(programs) \in Nat /\ Len(search_strings) \in Nat /\ p \in Nat \ {0} /\ ss \in Nat \ {0} /\ m \in Nat \ {0}
  BY LenProperties DEF Inv, TypeInv
<1>1. CASE MissingFile \/ CorruptFile \/ Finish \/ EndOfFile
  <2>1. pc' \in {"files", "done"} /\ read' = read
    BY <1>1 DEF MissingFile, CorruptFile, Finish, EndOfFile, NextFile, files
  <2> QED  BY <2>1 DEF Reading, FileIsOpen
<1>2. ASSUME NEW content \in Files, OpenFile(content) PROVE Reading'
  <2>1. pc' = "programs" /\ programs' = content /\ p' = 1 /\ ss' = 1 /\ search_strings' = search_strings
    BY <1>2 DEF OpenFile
  <2>2. /\ read'.range \in Seq(ProgramsOf) /\ read'.day = content /\ content \in Seq(ProgramsOf)
        /\ Len(read'.range) = Len(read.range) + Len(content)
        /\ Len(read.range) \in Nat /\ Len(content) \in Nat
        /\ \A k \in 1..Len(content) : read'.range[Len(read.range) + k] = content[k]
    BY <1>2, ReadAdded
  <2>3. /\ Len(content) <= Len(read'.range) /\ 1 <= Len(content) + 1 /\ 1 <= Len(search_strings) + 1
        /\ Len(read'.range) - Len(content) = Len(read.range)
    BY <1>0, <2>2
  <2> QED  BY <2>1, <2>2, <2>3 DEF Reading
<1>3. ASSUME UNCHANGED <<search_strings, read, programs>>, FileIsOpen, pc' = "programs",
             p' <= Len(programs) + 1, ss' <= Len(search_strings) + 1, p' = Len(programs) + 1 => ss' = 1
      PROVE  Reading'
  BY <1>3 DEF Reading
<1>4. CASE StringWithoutMatch \/ EndOfString
  <2>1. /\ UNCHANGED <<search_strings, read, programs, p>> /\ FileIsOpen /\ pc' = "programs" /\ ss' = ss + 1
        /\ p <= Len(programs) /\ ss <= Len(search_strings)
    BY <1>4 DEF StringWithoutMatch, EndOfString, NextString, FileIsOpen, files, Inv, TypeInv
  <2> QED  BY <1>0, <1>3, <2>1
<1>5. CASE EndOfProgram
  <2>1. /\ UNCHANGED <<search_strings, read, programs>> /\ FileIsOpen /\ pc' = "programs" /\ ss' = 1
        /\ p <= Len(programs) /\ p' = p + 1
    BY <1>5 DEF EndOfProgram, FileIsOpen, files
  <2> QED  BY <1>0, <1>3, <2>1
<1>6. ASSUME UNCHANGED <<search_strings, read, programs, p, ss>>, FileIsOpen, pc' = "matches",
             m' <= Len(match_positions) + 1
      PROVE  Reading'
  <2>1. match_positions' = match_positions
    BY <1>6 DEF match_positions, string
  <2> QED  BY <1>6, <2>1 DEF Reading, FileIsOpen
<1>7. CASE StringWithMatches
  <2>1. /\ UNCHANGED <<search_strings, read, programs, p, ss>> /\ FileIsOpen /\ pc' = "matches" /\ m' = 1
        /\ Len(match_positions) \in Nat
    BY <1>7, AtHand, LenProperties DEF StringWithMatches, NextString, FileIsOpen, files, Inv
  <2>2. m' <= Len(match_positions) + 1
    BY <2>1
  <2> QED  BY <1>6, <2>1, <2>2
<1>8. CASE Examine
  <2>1. /\ UNCHANGED <<search_strings, read, programs, p, ss>> /\ FileIsOpen /\ pc' = "matches" /\ m' = m + 1
        /\ m <= Len(match_positions) /\ Len(match_positions) \in Nat
    BY <1>8, AtHand, LenProperties DEF Examine, FileIsOpen, files, Inv
  <2>2. m' <= Len(match_positions) + 1
    BY <1>0, <2>1
  <2> QED  BY <1>6, <2>1, <2>2
<1>9. CASE UNCHANGED vars
  <2>1. UNCHANGED <<search_strings, read, programs, p, ss, m, pc>>
    BY <1>9 DEF vars, files
  <2>2. match_positions' = match_positions
    BY <2>1 DEF match_positions, string
  <2> QED  BY <2>1, <2>2 DEF Reading, FileIsOpen
<1> QED  BY <1>1, <1>2, <1>4, <1>5, <1>7, <1>8, <1>9 DEF Next

\* The numbers of programs and matches: a string at hand adds its weight once
\* more.
LEMMA WeightIs ==
  ASSUME NEW f \in {"programs", "matches"}, NEW x \in Seq(Matches)
  PROVE  Weight(f, x) \in Int /\ Weight(f, <<>>) = 0
<1>1. Len(x) \in Int /\ Len(<<>>) = 0
  BY LenProperties
<1> QED  BY <1>1 DEF Weight

LEMMA NumberStays ==
  ASSUME NEW s, NEW f, NumberRead(s, f), UNCHANGED <<search_strings, read>>, UNCHANGED <<RangePlace, DayPlace>>,
         Here(f, s)' = Here(f, s), match_counts'[s][f] = match_counts[s][f],
         daily_match_counts'[s][f] = daily_match_counts[s][f]
  PROVE  NumberRead(s, f)'
<1>1. Found(s)' = Found(s) /\ DayFound(s)' = DayFound(s) /\ Copies(s)' = Copies(s)
  BY DEF Found, DayFound, FoundOf, Copies
<1> QED  BY <1>1 DEF NumberRead, Until

\* No string of the program at hand has come up yet.
LEMMA NothingHere ==
  ASSUME Inv', NEW s \in Strings, NEW f \in {"programs", "matches"}, pc' # "matches",
         pc' = "programs" => ss' = 1
  PROVE  Here(f, s)' = 0
<1>1. CASE FileIsOpen' /\ p' <= Len(programs')
  <2>1. pc' = "programs" /\ ss' = 1
    BY <1>1 DEF FileIsOpen
  <2>2. programs'[p'][s] \in Seq(Matches)
    <3>1. programs' \in Seq(ProgramsOf) /\ p' \in 1..Len(programs')
      BY <1>1, LenProperties DEF Inv, TypeInv
    <3>2. programs'[p'] \in ProgramsOf
      BY <3>1, ElementOfSeq
    <3> QED  BY <3>2 DEF ProgramsOf
  <2>3. CopiesTo(s, ss - 1)' = 0
    <3>1. {k \in 1..(ss' - 1) : search_strings'[k] = s} = {}
      BY <2>1
    <3> QED  BY <3>1, FS_EmptySet DEF CopiesTo
  <2>4. PICK w : w = Weight(f, programs'[p'][s])
    OBVIOUS
  <2>5. w \in Int
    BY <2>2, <2>4, WeightIs
  <2>6. Here(f, s)' = (0 + 0) * w
    BY <1>1, <2>1, <2>3, <2>4 DEF Here
  <2>7. (0 + 0) * w = 0
    BY <2>5
  <2> QED  BY <2>6, <2>7
<1>2. CASE ~(FileIsOpen' /\ p' <= Len(programs'))
  BY <1>2 DEF Here
<1> QED  BY <1>1, <1>2

\* Here, with a program at hand.
LEMMA HereIs ==
  ASSUME Inv, NEW s \in Strings, NEW f \in {"programs", "matches"}, FileIsOpen, p <= Len(programs),
         ss <= Len(search_strings)
  PROVE  \E c \in Int, w \in Int :
           /\ c = CopiesTo(s, ss - 1) /\ w = Weight(f, programs[p][s])
           /\ CopiesTo(s, ss) = c + IF s = string THEN 1 ELSE 0
           /\ Here(f, s) = (c + IF pc = "matches" /\ s = string THEN 1 ELSE 0) * w
<1>1. ss \in Nat \ {0} /\ p \in 1..Len(programs)
  BY LenProperties DEF Inv, TypeInv
<1>2. /\ CopiesTo(s, ss - 1) \in Nat
      /\ CopiesTo(s, ss) = CopiesTo(s, ss - 1) + IF search_strings[ss] = s THEN 1 ELSE 0
  <2>1. ss - 1 \in Nat /\ ss = ss - 1 + 1
    BY <1>1
  <2> QED  BY <2>1, CopiesNext
<1>3. Weight(f, programs[p][s]) \in Int
  <2>1. programs[p] \in ProgramsOf
    BY <1>1, ElementOfSeq DEF Inv, TypeInv
  <2>2. programs[p][s] \in Seq(Matches)
    BY <2>1 DEF ProgramsOf
  <2> QED  BY <2>2, WeightIs
<1>4. PICK c \in Int, w \in Int : c = CopiesTo(s, ss - 1) /\ w = Weight(f, programs[p][s])
  BY <1>2, <1>3
<1>5. Here(f, s) = (c + IF pc = "matches" /\ s = string THEN 1 ELSE 0) * w
  BY <1>4 DEF Here
<1>6. CopiesTo(s, ss) = c + IF s = string THEN 1 ELSE 0
  BY <1>2, <1>4 DEF string
<1> QED  BY <1>4, <1>5, <1>6

\* The loops go on to the next string: the weight of a string without a match
\* is zero, and that of another has been added.
LEMMA NextStringNumbers ==
  ASSUME Inv, NEW s \in Strings, NEW f \in {"programs", "matches"}, NumberRead(s, f),
         FileIsOpen, p <= Len(programs), ss <= Len(search_strings),
         pc = "matches" \/ match_positions = <<>>,
         UNCHANGED <<search_strings, read, programs, p, match_counts, daily_match_counts>>,
         ss' = ss + 1, pc' = "programs"
  PROVE  NumberRead(s, f)'
<1>1. PICK c \in Int, w \in Int :
        /\ c = CopiesTo(s, ss - 1) /\ w = Weight(f, programs[p][s])
        /\ CopiesTo(s, ss) = c + IF s = string THEN 1 ELSE 0
        /\ Here(f, s) = (c + IF pc = "matches" /\ s = string THEN 1 ELSE 0) * w
  BY HereIs
<1>2. FileIsOpen' /\ ss \in Int /\ ss' - 1 = ss
  BY DEF FileIsOpen, Inv, TypeInv
<1>3. Here(f, s)' = ((c + IF s = string THEN 1 ELSE 0) + 0) * w
  <2>1. CopiesTo(s, ss - 1)' = CopiesTo(s, ss)
    BY <1>2 DEF CopiesTo
  <2> QED  BY <1>1, <1>2, <2>1 DEF Here
<1>4. Here(f, s)' = Here(f, s)
  <2>1. CASE pc = "matches" \/ s # string
    BY <1>1, <1>3, <2>1
  <2>2. CASE s = string /\ pc # "matches"
    <3>1. w = 0
      <4>1. programs[p][s] = <<>>
        BY <2>2 DEF match_positions
      <4>2. <<>> \in Seq(Matches)
        OBVIOUS
      <4> QED  BY <1>1, <4>1, <4>2, WeightIs
    <3> QED  BY <1>1, <1>3, <3>1
  <2> QED  BY <2>1, <2>2
<1>5. UNCHANGED <<RangePlace, DayPlace>>
  BY <1>2 DEF RangePlace, DayPlace
<1> QED  BY <1>4, <1>5, NumberStays

LEMMA DistributeOver == \A a, b, c \in Int : a * (b + c) = a * b + a * c /\ (b + 1) * c = b * c + c
OBVIOUS

LEMMA StringNumbers ==
  ASSUME Inv, SumTypes, NEW s \in Strings, NEW f \in {"programs", "matches"}, NumberRead(s, f), Reading,
         StringWithMatches
  PROVE  NumberRead(s, f)'
<1>1. /\ FileIsOpen /\ FileIsOpen' /\ p <= Len(programs) /\ ss <= Len(search_strings)
      /\ pc = "programs" /\ pc' = "matches" /\ match_positions # <<>>
      /\ UNCHANGED <<search_strings, read, programs, p, ss>>
  BY DEF StringWithMatches, NextString, FileIsOpen, files
<1>2. PICK c \in Int, w \in Int :
        /\ c = CopiesTo(s, ss - 1) /\ w = Weight(f, programs[p][s])
        /\ Here(f, s) = (c + IF pc = "matches" /\ s = string THEN 1 ELSE 0) * w
  BY <1>1, HereIs
<1>3. string' = string /\ CopiesTo(s, ss - 1)' = CopiesTo(s, ss - 1)
  BY <1>1 DEF string, CopiesTo
<1>4. Here(f, s)' = (c + IF s = string THEN 1 ELSE 0) * w
  BY <1>1, <1>2, <1>3 DEF Here
<1>5. UNCHANGED <<RangePlace, DayPlace>>
  BY <1>1 DEF RangePlace, DayPlace
<1>6. CASE s # string
  <2>1. match_counts'[s] = match_counts[s] /\ daily_match_counts'[s] = daily_match_counts[s]
    BY <1>6, StringCounted
  <2>2. Here(f, s)' = Here(f, s)
    BY <1>2, <1>4, <1>6
  <2> QED  BY <1>1, <1>5, <2>1, <2>2, NumberStays
<1>7. CASE s = string
  <2>1. match_counts'[s][f] = match_counts[s][f] + w /\ daily_match_counts'[s][f] = daily_match_counts[s][f] + w
    <3>1. w = IF f = "matches" THEN Len(match_positions) ELSE 1
      BY <1>1, <1>2, <1>7 DEF Weight, match_positions
    <3> QED  BY <1>7, <3>1, StringCounted
  <2>2. Here(f, s) = c * w /\ Here(f, s)' = c * w + w
    <3>1. Here(f, s) = (c + 0) * w /\ Here(f, s)' = (c + 1) * w
      BY <1>1, <1>2, <1>4, <1>7
    <3>2. (c + 1) * w = c * w + w
      BY DistributeOver
    <3> QED  BY <3>1, <3>2
  <2>3. PICK A, B : /\ A = Copies(s) * Until(f, Found(s), RangePlace)
                    /\ B = Copies(s) * Until(f, DayFound(s), DayPlace)
    OBVIOUS
  <2>4. A \in Int /\ B \in Int
    <3>1. Copies(s) \in Int
      BY CopiesEnds
    <3>2. Until(f, Found(s), RangePlace) \in Int
      <4>1. PICK F, k : F = Found(s) /\ k = RangePlace
        OBVIOUS
      <4>2. AreLists(F) /\ k \in 1..Len(F)
        BY <1>1, <4>1, HereFound
      <4> QED  BY <4>1, <4>2, UntilNext
    <3>3. Until(f, DayFound(s), DayPlace) \in Int
      <4>1. PICK F, k : F = DayFound(s) /\ k = DayPlace
        OBVIOUS
      <4>2. AreLists(F) /\ k \in 1..Len(F)
        BY <1>1, <4>1, HereFound
      <4> QED  BY <4>1, <4>2, UntilNext
    <3> QED  BY <2>3, <3>1, <3>2, <3>3
  <2>5. match_counts[s][f] = A + c * w /\ daily_match_counts[s][f] = B + c * w
    BY <2>2, <2>3 DEF NumberRead
  <2>6. PICK x \in Int : x = c * w
    OBVIOUS
  <2>7. match_counts'[s][f] = A + (x + w) /\ daily_match_counts'[s][f] = B + (x + w)
    BY <2>1, <2>4, <2>5, <2>6
  <2>8. Found(s)' = Found(s) /\ DayFound(s)' = DayFound(s) /\ Copies(s)' = Copies(s)
    BY <1>1 DEF Found, DayFound, FoundOf, Copies
  <2>9. A = (Copies(s) * Until(f, Found(s), RangePlace))' /\ B = (Copies(s) * Until(f, DayFound(s), DayPlace))'
    BY <1>5, <2>3, <2>8 DEF Until
  <2> QED  BY <2>2, <2>6, <2>7, <2>9 DEF NumberRead
<1> QED  BY <1>6, <1>7

\* All copies of the string have come up.
LEMMA ProgramNumbers ==
  ASSUME Inv, Inv', Reading, NEW s \in Strings, NEW f \in {"programs", "matches"}, NumberRead(s, f),
         EndOfProgram
  PROVE  NumberRead(s, f)'
<1>1. /\ pc = "programs" /\ pc' = "programs" /\ FileIsOpen /\ FileIsOpen'
      /\ p <= Len(programs) /\ ss = Len(search_strings) + 1 /\ p' = p + 1 /\ ss' = 1
      /\ UNCHANGED <<search_strings, read, programs, match_counts, daily_match_counts>>
      /\ p \in Nat /\ Len(search_strings) \in Nat /\ Len(programs) \in Nat /\ Len(read.range) \in Nat
  <2>1. /\ pc = "programs" /\ pc' = "programs" /\ FileIsOpen /\ FileIsOpen'
        /\ p <= Len(programs) /\ ss > Len(search_strings) /\ p' = p + 1 /\ ss' = 1
        /\ UNCHANGED <<search_strings, read, programs, match_counts, daily_match_counts>>
    BY DEF EndOfProgram, FileIsOpen, files, sums
  <2>2. /\ p \in Nat /\ ss \in Nat /\ Len(search_strings) \in Nat /\ Len(programs) \in Nat
        /\ Len(read.range) \in Nat
    BY LenProperties DEF Inv, TypeInv, Reading
  <2>3. ss <= Len(search_strings) + 1
    BY <2>1 DEF Reading
  <2> QED  BY <2>1, <2>2, <2>3
<1>2. Here(f, s)' = 0
  BY <1>1, NothingHere
<1>3. PICK C, F, D, k, d, w : /\ C = Copies(s) /\ F = Found(s) /\ D = DayFound(s)
                              /\ k = RangePlace /\ d = DayPlace /\ w = Weight(f, programs[p][s])
  OBVIOUS
<1>4. /\ AreLists(F) /\ k \in 1..Len(F) /\ F[k] = programs[p][s]
      /\ AreLists(D) /\ d \in 1..Len(D) /\ D[d] = programs[p][s]
  BY <1>1, <1>3, HereFound
<1>5. PICK k1, d1 : k1 = k + 1 /\ d1 = d + 1
  OBVIOUS
<1>6. /\ Until(f, F, k) \in Int /\ w \in Int /\ Until(f, F, k1) = Until(f, F, k) + w
      /\ Until(f, D, d) \in Int /\ Until(f, D, d1) = Until(f, D, d) + w
  BY <1>3, <1>4, <1>5, UntilNext, SMTT(30)
<1>7. C \in Int /\ Here(f, s) = C * w
  <2>1. C \in Nat /\ CopiesTo(s, Len(search_strings)) = C
    BY <1>3, CopiesEnds
  <2>2. ss - 1 = Len(search_strings)
    BY <1>1
  <2>3. Here(f, s) = (C + 0) * w
    BY <1>1, <1>3, <2>1, <2>2 DEF Here
  <2> QED  BY <2>1, <2>3
<1>8. /\ match_counts[s][f] = C * Until(f, F, k) + C * w
      /\ daily_match_counts[s][f] = C * Until(f, D, d) + C * w
  BY <1>3, <1>7 DEF NumberRead
<1>9. /\ C * Until(f, F, k1) = C * Until(f, F, k) + C * w
      /\ C * Until(f, D, d1) = C * Until(f, D, d) + C * w
  BY <1>6, <1>7, DistributeOver
<1>10. C * Until(f, F, k1) \in Int /\ C * Until(f, D, d1) \in Int
  BY <1>6, <1>7
<1>11. /\ match_counts[s][f] = C * Until(f, F, k1) + 0
       /\ daily_match_counts[s][f] = C * Until(f, D, d1) + 0
  BY <1>8, <1>9, <1>10
<1>12. RangePlace' = k1 /\ DayPlace' = d1
  <2>1. /\ k = Len(read.range) - Len(programs) + p /\ d = p
        /\ RangePlace' = Len(read.range) - Len(programs) + (p + 1) /\ DayPlace' = p + 1
    BY <1>1, <1>3 DEF RangePlace, DayPlace
  <2>2. PICK r \in Nat, n \in Nat, q \in Nat : r = Len(read.range) /\ n = Len(programs) /\ q = p
    BY <1>1
  <2>3. r - n + (q + 1) = (r - n + q) + 1
    OBVIOUS
  <2> QED  BY <1>5, <2>1, <2>2, <2>3
<1>13. Found(s)' = F /\ DayFound(s)' = D /\ Copies(s)' = C
  BY <1>1, <1>3 DEF Found, DayFound, FoundOf, Copies
<1>14. /\ (Copies(s) * Until(f, Found(s), RangePlace))' = C * Until(f, F, k1)
       /\ (Copies(s) * Until(f, DayFound(s), DayPlace))' = C * Until(f, D, d1)
  BY <1>12, <1>13 DEF Until
<1> QED  BY <1>1, <1>2, <1>11, <1>14 DEF NumberRead

LEMMA OpenNumbers ==
  ASSUME Inv, Inv', Reading, NEW s \in Strings, NEW f \in {"programs", "matches"}, NumberRead(s, f),
         NEW content \in Files, OpenFile(content)
  PROVE  NumberRead(s, f)'
<1>1. /\ pc = "files" /\ pc' = "programs" /\ ss' = 1 /\ match_counts' = match_counts
      /\ daily_match_counts'[s][f] = 0 /\ search_strings' = search_strings /\ ~FileIsOpen
  BY DEF OpenFile, NextFile, Zero, FileIsOpen
<1>2. Here(f, s)' = 0 /\ Here(f, s) = 0
  <2>1. Here(f, s)' = 0
    BY <1>1, NothingHere
  <2> QED  BY <1>1, <2>1 DEF Here
<1>3. PICK C, F, G, D, k : /\ C = Copies(s) /\ F = Found(s) /\ G = Found(s)' /\ D = DayFound(s)'
                           /\ k = Len(F) + 1
  OBVIOUS
<1>4. /\ AreLists(F) /\ \A i \in 1..Len(F) : G[i] = F[i]
      /\ RangePlace = k /\ RangePlace' = k /\ DayPlace' = 1
  BY <1>3, FileAdded, PlaceAtOpen
<1>5. Until(f, G, k) = Until(f, F, k) /\ Until(f, D, 1) = 0
  BY <1>3, <1>4, UntilMore, UntilFirst
<1>6. C \in Nat /\ C * 0 + 0 = 0
  BY <1>3, CopiesEnds
<1>7. match_counts[s][f] = C * Until(f, G, k) + 0
  BY <1>2, <1>3, <1>4, <1>5 DEF NumberRead
<1>8. Copies(s)' = C
  BY <1>1, <1>3 DEF Copies
<1>9. /\ (Copies(s) * Until(f, Found(s), RangePlace))' = C * Until(f, G, k)
      /\ (Copies(s) * Until(f, DayFound(s), DayPlace))' = C * 0
  BY <1>3, <1>4, <1>5, <1>8 DEF Until
<1> QED  BY <1>1, <1>2, <1>6, <1>7, <1>9 DEF NumberRead

LEMMA NumbersStep ==
  ASSUME Inv, Inv', SumTypes, Reading, NEW s \in Strings, NEW f \in {"programs", "matches"},
         NumberRead(s, f), [Next]_vars
  PROVE  NumberRead(s, f)'
<1>1. CASE MissingFile \/ CorruptFile \/ Finish
  <2>1. /\ ~FileIsOpen /\ ~FileIsOpen'
        /\ UNCHANGED <<search_strings, read, match_counts, daily_match_counts>>
    BY <1>1 DEF MissingFile, CorruptFile, Finish, NextFile, FileIsOpen, files, sums
  <2>2. UNCHANGED <<RangePlace, DayPlace>> /\ Here(f, s)' = Here(f, s)
    BY <2>1 DEF RangePlace, DayPlace, Here
  <2> QED  BY <2>1, <2>2, NumberStays
<1>2. CASE \E content \in Files : OpenFile(content)
  BY <1>2, OpenNumbers
<1>3. CASE StringWithoutMatch \/ EndOfString
  <2>1. /\ FileIsOpen /\ p <= Len(programs) /\ ss <= Len(search_strings)
        /\ pc = "matches" \/ match_positions = <<>>
        /\ UNCHANGED <<search_strings, read, programs, p, match_counts, daily_match_counts>>
        /\ ss' = ss + 1 /\ pc' = "programs"
    BY <1>3 DEF StringWithoutMatch, EndOfString, NextString, FileIsOpen, files, sums, Inv, TypeInv
  <2> QED  BY <2>1, NextStringNumbers
<1>4. CASE StringWithMatches
  BY <1>4, StringNumbers
<1>5. CASE Examine
  <2>1. /\ UNCHANGED <<search_strings, read, programs, p, ss, pc>>
    BY <1>5 DEF Examine, files
  <2>2. UNCHANGED <<RangePlace, DayPlace>> /\ Here(f, s)' = Here(f, s)
    BY <2>1 DEF RangePlace, DayPlace, Here, FileIsOpen, CopiesTo, string
  <2>3. match_counts'[s][f] = match_counts[s][f] /\ daily_match_counts'[s][f] = daily_match_counts[s][f]
    <3>1. CASE s # string
      BY <1>5, <3>1, OthersStay
    <3>2. CASE s = string
      BY <1>5, <3>2, MatchCounted DEF OneMore
    <3> QED  BY <3>1, <3>2
  <2> QED  BY <2>1, <2>2, <2>3, NumberStays
<1>6. CASE EndOfProgram
  BY <1>6, ProgramNumbers
<1>7. CASE EndOfFile
  <2>1. /\ pc' = "files" /\ p > Len(programs)
        /\ UNCHANGED <<search_strings, read, match_counts, daily_match_counts>>
    BY <1>7 DEF EndOfFile
  <2>2. Here(f, s) = 0 /\ Here(f, s)' = 0
    <3>1. ~(p <= Len(programs))
      <4>1. p \in Int /\ Len(programs) \in Int
        BY LenProperties DEF Inv, TypeInv
      <4> QED  BY <2>1, <4>1
    <3> QED  BY <2>1, <3>1 DEF Here, FileIsOpen
  <2>3. UNCHANGED <<RangePlace, DayPlace>>
    BY <1>7, PlaceAtEnd
  <2> QED  BY <2>1, <2>2, <2>3, NumberStays
<1>8. CASE UNCHANGED vars
  <2>1. UNCHANGED <<search_strings, read, programs, p, ss, pc, match_counts, daily_match_counts>>
    BY <1>8 DEF vars, files, sums
  <2>2. UNCHANGED <<RangePlace, DayPlace>> /\ Here(f, s)' = Here(f, s)
    BY <2>1 DEF RangePlace, DayPlace, Here, FileIsOpen, CopiesTo, string
  <2> QED  BY <2>1, <2>2, NumberStays
<1> QED  BY <1>1, <1>2, <1>3, <1>4, <1>5, <1>6, <1>7, <1>8 DEF Next

\* The row appended last.
LEMMA RowStep ==
  ASSUME Inv, SumTypes, LastRow, [Next]_vars
  PROVE  LastRow'
<1>1. CASE MissingFile \/ CorruptFile \/ UNCHANGED vars
  BY <1>1 DEF MissingFile, CorruptFile, NextFile, vars, files, sums, LastRow
<1>2. CASE EndOfFile
  <2>1. /\ FileIsOpen /\ search_results' = Append(search_results, Row(it, daily_match_counts, Len(programs)))
        /\ UNCHANGED <<search_strings, daily_match_counts>>
    BY <1>2 DEF EndOfFile, FileIsOpen
  <2>2. Len(programs) \in Nat /\ daily_match_counts \in [Strings -> Counts]
    BY LenProperties DEF Inv, TypeInv, SumTypes
  <2>3. PICK row : row = Row(it, daily_match_counts, Len(programs))
    OBVIOUS
  <2>4. /\ row \in RowsOf(Len(search_strings))
        /\ \A k \in DOMAIN search_strings : row.cnts[k] = daily_match_counts[search_strings[k]]
    BY <2>1, <2>2, <2>3, RowIsRow
  <2>5. search_results'[Len(search_results')] = row
    <3>1. search_results \in Seq(RowsOf(Len(search_strings))) /\ search_results' = Append(search_results, row)
      BY <2>1, <2>3 DEF SumTypes
    <3> QED  BY <2>4, <3>1, AppendProperties
  <2> QED  BY <2>1, <2>4, <2>5 DEF LastRow
<1>3. CASE \/ \E content \in Files : OpenFile(content)
           \/ StringWithoutMatch \/ StringWithMatches \/ Examine \/ EndOfString \/ EndOfProgram \/ Finish
  BY <1>3 DEF OpenFile, StringWithoutMatch, StringWithMatches, NextString, Examine, EndOfString, EndOfProgram,
              Finish, LastRow
<1> QED  BY <1>1, <1>2, <1>3 DEF Next

LEMMA InitRead == Init => ReadInv
<1> SUFFICES ASSUME Init PROVE ReadInv
  OBVIOUS
<1>0. Inv
  BY InitInv
<1>1. /\ read = [range |-> <<>>, day |-> <<>>] /\ pc = "files" /\ search_results = <<>>
      /\ match_counts = Zero /\ daily_match_counts = Zero /\ day = NoTables /\ total = NoTables
  BY Zenon DEF Init
<1>2. <<>> \in Seq(ProgramsOf) /\ Len(<<>>) = 0 /\ ~FileIsOpen /\ Len(<<>>) + 1 = 1
  BY <1>1 DEF FileIsOpen
<1>3. RangePlace = 1 /\ DayPlace = 1 /\ 1 + 0 = 1
  BY <1>1, <1>2 DEF RangePlace, DayPlace
<1>4. Reading /\ LastRow
  BY <1>1, <1>2 DEF Reading, LastRow
<1>5. ASSUME NEW s \in Entered PROVE ContextsRead(s) /\ NumbersRead(s)
  <2>1. s \in Strings
    BY <1>0, <1>5, EnteredAreStrings
  <2>2. PICK F : F = FoundOf(s, <<>>)
    OBVIOUS
  <2>3. AreLists(F) /\ Found(s) = F /\ DayFound(s) = F
    BY <1>1, <1>2, <2>1, <2>2, FoundFacts DEF Found, DayFound
  <2>4. Holds(NoHashes, F, 1, 1) /\ CountedTo(F, 1, 1) = 0 /\ \A f : Until(f, F, 1) = 0
    BY <2>3, NothingBefore, UntilFirst
  <2>5. /\ total[s] = NoHashes /\ day[s] = NoHashes
        /\ match_counts[s] = [contexts |-> 0, programs |-> 0, matches |-> 0]
        /\ daily_match_counts[s] = [contexts |-> 0, programs |-> 0, matches |-> 0]
    BY <1>1, <2>1 DEF NoTables, Zero
  <2>6. Further(s) = 0 /\ At(s) = 1 /\ ~IsBeingRead(s) /\ \A f : Here(f, s) = 0
    BY <1>1, <1>2 DEF Further, IsRead, At, IsBeingRead, Here
  <2>7. Reads(F, 1, 1, NoHashes, 0)
    BY <2>4 DEF Reads
  <2>8. ContextsRead(s)
    BY <1>3, <2>3, <2>5, <2>6, <2>7 DEF ContextsRead
  <2>9. Copies(s) * 0 + 0 = 0
    <3>1. Copies(s) \in Nat
      BY <1>0, CopiesEnds
    <3> QED  BY <3>1
  <2>10. NumbersRead(s)
    BY <1>3, <2>3, <2>4, <2>5, <2>6, <2>9 DEF NumbersRead, NumberRead
  <2> QED  BY <2>8, <2>10
<1> QED  BY <1>4, <1>5 DEF ReadInv

\* The invariant says it between the files.
LEMMA CountsAre ==
  ASSUME NEW F, AreLists(F), NEW n, n = Len(F) + 1, NEW t, NEW C \in Nat, NEW c \in Counts,
         Reads(F, n, 1, t, c.contexts),
         \A f \in {"programs", "matches"} : c[f] = C * Until(f, F, n) + 0
  PROVE  c = [contexts |-> Cardinality(ContextsOf(F)),
              programs |-> C * Cardinality({k \in DOMAIN F : F[k] # <<>>}),
              matches |-> C * SumSeq([k \in DOMAIN F |-> Len(F[k])])]
<1>1. c.contexts = Cardinality(ContextsOf(F))
  BY AllCounted DEF Reads
<1>2. PICK P, M : /\ P = Cardinality({k \in DOMAIN F : F[k] # <<>>})
                  /\ M = SumSeq([k \in DOMAIN F |-> Len(F[k])])
  OBVIOUS
<1>3. Until("programs", F, n) = P /\ Until("matches", F, n) = M
  BY <1>2, UntilAll
<1>4. P \in Int /\ M \in Int
  <2>1. IsFiniteSet(1..Len(F)) /\ DOMAIN F = 1..Len(F)
    <3>1. 1 \in Int /\ Len(F) \in Int /\ DOMAIN F = 1..Len(F)
      BY DEF AreLists
    <3> QED  BY <3>1, FS_Interval
  <2>2. P \in Int
    <3> DEFINE S == {k \in DOMAIN F : F[k] # <<>>}
    <3>1. S \subseteq 1..Len(F)
      BY <2>1
    <3> HIDE DEF S
    <3>2. Cardinality(S) \in Nat
      BY <2>1, <3>1, FS_Subset, FS_CardinalityType
    <3> QED  BY <1>2, <3>2 DEF S
  <2>3. M \in Int
    <3> DEFINE x == [k \in 1..Len(F) |-> Len(F[k])]
    <3>1. x \in Seq(Int)
      <4>1. Len(F) \in 0..Len(F)
        BY DEF AreLists
      <4> QED  BY <4>1, LengthsAre
    <3> HIDE DEF x
    <3>2. SumSeq(x) \in Int
      BY <3>1, SumType
    <3> QED  BY <1>2, <2>1, <3>2 DEF x
  <2> QED  BY <2>2, <2>3
<1>5. c.programs = C * P + 0 /\ c.matches = C * M + 0
  BY <1>3
<1>6. C * P \in Int /\ C * M \in Int
  BY <1>4
<1>7. c.programs = C * P /\ c.matches = C * M
  BY <1>5, <1>6
<1>8. c = [contexts |-> c.contexts, programs |-> c.programs, matches |-> c.matches]
  BY DEF Counts
<1> QED  BY <1>1, <1>2, <1>7, <1>8

LEMMA CountedNow ==
  ASSUME Inv, SumTypes, ReadInv
  PROVE  CountedAsIfAlone
<1> SUFFICES ASSUME pc = "files", NEW i \in DOMAIN search_strings
             PROVE  LET s == search_strings[i]
                    IN  /\ match_counts[s] = CountsOf(s, read.range)
                        /\ search_results # <<>> =>
                             search_results[Len(search_results)].cnts[i] = CountsOf(s, read.day)
  BY DEF CountedAsIfAlone
<1>1. PICK s \in Strings : s = search_strings[i]
  BY StringsAreStrings
<1>2. s \in Entered /\ ContextsRead(s) /\ NumbersRead(s)
  BY <1>1 DEF Entered, ReadInv
<1>3. /\ ~FileIsOpen /\ RangePlace = Len(read.range) + 1 /\ DayPlace = Len(read.day) + 1
      /\ Further(s) = 0 /\ At(s) = 1 /\ \A f : Here(f, s) = 0
  BY DEF FileIsOpen, RangePlace, DayPlace, Further, IsRead, At, IsBeingRead, Here
<1>4. PICK F, D, k, d : /\ F = Found(s) /\ D = DayFound(s) /\ k = Len(F) + 1 /\ d = Len(D) + 1
  OBVIOUS
<1>5. /\ AreLists(F) /\ AreLists(D) /\ RangePlace = k /\ DayPlace = d /\ k + 0 = k /\ d + 0 = d
  <2>1. /\ AreLists(F) /\ Len(F) = Len(read.range) /\ Len(read.range) \in Nat
        /\ AreLists(D) /\ Len(D) = Len(read.day) /\ Len(read.day) \in Nat
    BY <1>4, FoundFacts DEF ReadInv, Reading, Found, DayFound
  <2> QED  BY <1>3, <1>4, <2>1
<1>6. PICK C, c, e : C = Copies(s) /\ c = match_counts[s] /\ e = daily_match_counts[s]
  OBVIOUS
<1>7. C \in Nat /\ c \in Counts /\ e \in Counts
  BY <1>6, CopiesEnds DEF Inv, TypeInv, SumTypes
<1>8. Reads(F, k, 1, total[s], c.contexts) /\ Reads(D, d, 1, day[s], e.contexts)
  BY <1>2, <1>3, <1>4, <1>5, <1>6 DEF ContextsRead
<1>9. \A f \in {"programs", "matches"} : c[f] = C * Until(f, F, k) + 0 /\ e[f] = C * Until(f, D, d) + 0
  BY <1>2, <1>3, <1>4, <1>5, <1>6 DEF NumbersRead, NumberRead
<1>10. /\ c = [contexts |-> Cardinality(ContextsOf(F)),
               programs |-> C * Cardinality({n \in DOMAIN F : F[n] # <<>>}),
               matches |-> C * SumSeq([n \in DOMAIN F |-> Len(F[n])])]
       /\ e = [contexts |-> Cardinality(ContextsOf(D)),
               programs |-> C * Cardinality({n \in DOMAIN D : D[n] # <<>>}),
               matches |-> C * SumSeq([n \in DOMAIN D |-> Len(D[n])])]
  BY <1>4, <1>5, <1>7, <1>8, <1>9, CountsAre, ZenonT(30)
<1>11. c = CountsOf(s, read.range) /\ e = CountsOf(s, read.day)
  <2>1. DOMAIN F = DOMAIN read.range /\ DOMAIN D = DOMAIN read.day
    BY <1>4 DEF Found, DayFound, FoundOf
  <2>2. F = [n \in DOMAIN read.range |-> read.range[n][s]] /\ D = [n \in DOMAIN read.day |-> read.day[n][s]]
    BY <1>4 DEF Found, DayFound, FoundOf
  <2> QED  BY <1>6, <1>10, <2>1, <2>2 DEF CountsOf
<1>12. search_results # <<>> => search_results[Len(search_results)].cnts[i] = e
  BY <1>1, <1>6 DEF ReadInv, LastRow
<1> QED  BY <1>1, <1>6, <1>11, <1>12

\* For all lists of search strings and all files: a string searched with others,
\* entered once or more often, has the contexts it has alone, in the row of every
\* day and in the range, and its programs and matches once per entry.
THEOREM StringsCountAsIfAlone == Spec => []CountedAsIfAlone
<1>1. Init => Inv /\ SumInv /\ (pc # "done" => ReadInv)
  BY InitInv, InitSums, InitRead
<1>2. Inv /\ SumInv /\ (pc # "done" => ReadInv) /\ [Next]_vars
        => (Inv /\ SumInv /\ (pc # "done" => ReadInv))'
  <2> SUFFICES ASSUME Inv, SumInv, pc # "done" => ReadInv, [Next]_vars
               PROVE  Inv' /\ SumInv' /\ (pc' # "done" => ReadInv')
    OBVIOUS
  <2>1. Inv' /\ SumInv'
    BY TypeStep, ExcerptsStep, SumStep DEF Inv
  <2>2. CASE pc = "done"
    <3>1. pc' = "done"
      BY <2>2 DEF Next, MissingFile, CorruptFile, OpenFile, NextFile, StringWithoutMatch, StringWithMatches,
                  NextString, Examine, EndOfString, EndOfProgram, EndOfFile, Finish, vars
    <3> QED  BY <2>1, <3>1
  <2>3. CASE pc # "done"
    <3>1. SumTypes /\ ContextsIfAny /\ Reading /\ LastRow
      BY <2>3 DEF SumInv, DaysAddUp, ReadInv
    <3>2. Reading' /\ LastRow'
      BY <3>1, ReadingStep, RowStep
    <3>3. Entered' = Entered
      <4>1. search_strings' = search_strings
        BY DEF Next, MissingFile, CorruptFile, OpenFile, NextFile, StringWithoutMatch, StringWithMatches,
               NextString, Examine, EndOfString, EndOfProgram, EndOfFile, Finish, vars, files
      <4> QED  BY <4>1 DEF Entered
    <3>4. ASSUME NEW s \in Entered PROVE ContextsRead(s)' /\ NumbersRead(s)'
      <4>1. s \in Strings /\ ContextsRead(s) /\ NumbersRead(s)
        BY <2>3, <3>4, EnteredAreStrings DEF ReadInv
      <4>2. ContextsRead(s)'
        BY <3>1, <3>4, <4>1, ContextsStep
      <4>3. NumbersRead(s)'
        BY <2>1, <3>1, <4>1, NumbersStep DEF NumbersRead
      <4> QED  BY <4>2, <4>3
    <3> QED  BY <2>1, <3>2, <3>3, <3>4 DEF ReadInv
  <2> QED  BY <2>2, <2>3
<1>3. Inv /\ SumInv /\ (pc # "done" => ReadInv) => CountedAsIfAlone
  <2>1. ASSUME pc = "done" PROVE CountedAsIfAlone
    BY <2>1 DEF CountedAsIfAlone
  <2> QED  BY <2>1, CountedNow DEF SumInv, DaysAddUp
<1> QED  BY <1>1, <1>2, <1>3, PTL DEF Spec
=============================================================================
