-------------------------------- MODULE Find --------------------------------
(***************************************************************************)
(* snap::find: all patterns of a search are looked up in one pass over the *)
(* text, driven by a priority queue of the next candidate of each pattern. *)
(* A candidate is an occurrence of the search string; it is a match when   *)
(* it begins and ends at the border of a word, or the pattern has the      *)
(* wildcard on that side.  Match or not, the search goes on after the word *)
(* the candidate ends in.                                                  *)
(*                                                                         *)
(* Positions are the code's, from 0.  The queue holds at most one entry    *)
(* per element of the pattern list, and is kept as a function from that    *)
(* element; among entries of one position the code takes the lesser        *)
(* pattern first, here any.                                                *)
(***************************************************************************)
EXTENDS Integers, Sequences, FiniteSets

CONSTANTS
  Characters,
  Separators,    (* The characters for which isspace or ispunct holds.  *)
  Texts,         (* The texts that are searched.                        *)
  PatternLists   (* The pattern lists that are searched for.            *)

ASSUME TextsAssumption == Texts \subseteq Seq(Characters)

\* A pattern is not empty: the code reads its first and last character.
ASSUME PatternsAssumption ==
  /\ PatternLists \subseteq Seq(Seq(Characters))
  /\ \A list \in PatternLists : \A k \in 1..Len(list) : list[k] # <<>>

VARIABLES
  s,               (* The text.                                       *)
  patterns,        (* The list of patterns.                           *)
  next_positions,  (* The queue: the next candidate of each element.  *)
  match_positions, (* The matches of each pattern so far.             *)
  pc               (* "start", "search" or "done".                    *)

vars == <<s, patterns, next_positions, match_positions, pc>>

\* std::string::npos, above every position.
None == -1

Slots == 1..Len(patterns)
PatternSet == {patterns[k] : k \in Slots}

WildcardInFront(pattern) == pattern[1] = "*"
WildcardBehind(pattern) == pattern[Len(pattern)] = "*"

\* pattern_to_search_string: the pattern without its wildcards.
search_string(pattern) ==
  SubSeq(pattern,
         IF WildcardInFront(pattern) THEN 2 ELSE 1,
         IF WildcardBehind(pattern) THEN Len(pattern) - 1 ELSE Len(pattern))

\* str occurs in the text at position i.
OccursAt(str, i) == SubSeq(s, i + 1, i + Len(str)) = str

\* s.find(str, from)
FindFrom(str, from) ==
  LET hits == {i \in from..(Len(s) - Len(str)) : OccursAt(str, i)}
  IN  IF hits = {} THEN None ELSE CHOOSE i \in hits : \A j \in hits : i <= j

IsSeparator(i) == s[i + 1] \in Separators

Border(i) == i = Len(s) \/ IsSeparator(i)

\* The validity test of a candidate.
IsMatch(pattern, i) ==
  /\ i = 0 \/ IsSeparator(i - 1) \/ WildcardInFront(pattern)
  /\ Border(i + Len(search_string(pattern))) \/ WildcardBehind(pattern)

\* Mutant: the search goes on within the word.
WithinWord(i) == i

\* "move the current position after the word"
AfterWord(i) == CHOOSE j \in i..Len(s) : Border(j) /\ \A m \in i..(j - 1) : ~Border(m)

\* Mutant: the search goes on from the candidate itself unless it was a match.
ContinueAfterMatch(pattern, i) ==
  IF IsMatch(pattern, i) THEN AfterWord(i + Len(search_string(pattern))) ELSE i

\* Where the search of a pattern goes on after a candidate at i.
Continue(pattern, i) == AfterWord(i + Len(search_string(pattern)))

Init ==
  /\ s \in Texts
  /\ patterns \in PatternLists
  /\ next_positions = [k \in Slots |-> None]
  /\ match_positions = [x \in PatternSet |-> <<>>]
  /\ pc = "start"

\* The first candidate of each pattern.
Initialize ==
  /\ pc = "start"
  /\ next_positions' = [k \in Slots |-> FindFrom(search_string(patterns[k]), 0)]
  /\ pc' = "search"
  /\ UNCHANGED <<s, patterns, match_positions>>

Queued == {k \in Slots : next_positions[k] # None}

\* Mutant: the queue gives out the greatest position, as a priority_queue does
\* that is not told otherwise.
ComesLast(k) == \A j \in Queued : next_positions[k] >= next_positions[j]

\* The candidate of k is on top of the queue.
Comes(k) == \A j \in Queued : next_positions[k] <= next_positions[j]

\* One round of the search loop, for the candidate on top of the queue.
Examine(k) ==
  LET pattern == patterns[k]
      current == next_positions[k]
  IN  /\ pc = "search"
      /\ k \in Queued
      /\ Comes(k)
      /\ match_positions' =
           IF IsMatch(pattern, current)
           THEN [match_positions EXCEPT ![pattern] = Append(@, current)]
           ELSE match_positions
      /\ next_positions' =
           [next_positions EXCEPT ![k] = FindFrom(search_string(pattern), Continue(pattern, current))]
      /\ UNCHANGED <<s, patterns, pc>>

Return ==
  /\ pc = "search"
  /\ Queued = {}
  /\ pc' = "done"
  /\ UNCHANGED <<s, patterns, next_positions, match_positions>>

Next == Initialize \/ (\E k \in Slots : Examine(k)) \/ Return

Spec == Init /\ [][Next]_vars
------------------------------------------------------------------------------
Elements(list) == {list[k] : k \in 1..Len(list)}
MatchesOf(x) == Elements(match_positions[x])

OneWord(x) ==
  LET str == search_string(x)
  IN  str # <<>> /\ \A k \in 1..Len(str) : str[k] \notin Separators

\* The word around position i, named by its first position.
WordOf(i) == CHOOSE j \in 0..i : (j = 0 \/ IsSeparator(j - 1))
                                 /\ \A m \in j..(i - 1) : ~IsSeparator(m)

\* The words of the text the pattern describes: those that hold its search
\* string, at their beginning unless there is a wildcard in front, at their
\* end unless there is one behind.
Described(x) ==
  {WordOf(i) : i \in {j \in 0..(Len(s) - Len(search_string(x))) :
                        OccursAt(search_string(x), j) /\ IsMatch(x, j)}}

\* Every position reported is an occurrence between borders or wildcards, and
\* the positions of a pattern ascend, strictly unless the pattern stands in
\* the list more than once, when each is reported as often as it does.  The
\* operators on lists and the rows of the output rely on both.
PositionsAreMatchesInOrder ==
  \A x \in PatternSet :
    /\ \A i \in MatchesOf(x) : OccursAt(search_string(x), i) /\ IsMatch(x, i)
    /\ \A j, k \in 1..Len(match_positions[x]) :
         j < k => match_positions[x][j] <= match_positions[x][k]
    /\ pc = "done" => \A i \in MatchesOf(x) :
         Cardinality({k \in 1..Len(match_positions[x]) : match_positions[x][k] = i})
           = Cardinality({k \in Slots : patterns[k] = x})

\* Skipping to the end of the word loses no word and reports none twice: a
\* one-word pattern without a wildcard in front, or with one on both sides,
\* gets exactly one match in each word it describes.
EveryDescribedWordOnce ==
  pc = "done" =>
    \A x \in PatternSet : OneWord(x) /\ (WildcardInFront(x) => WildcardBehind(x)) =>
      /\ {WordOf(i) : i \in MatchesOf(x)} = Described(x)
      /\ \A i, j \in MatchesOf(x) : WordOf(i) = WordOf(j) => i = j

\* What the search page says of wildcards, for all one-word patterns: "* is a
\* wildcard that can be placed at then end or beginning of a search term".
WildcardsFindTheirWords ==
  pc = "done" =>
    \A x \in PatternSet : OneWord(x) => Described(x) \subseteq {WordOf(i) : i \in MatchesOf(x)}
==============================================================================
