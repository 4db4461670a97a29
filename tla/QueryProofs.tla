----------------------------- MODULE QueryProofs -----------------------------
(***************************************************************************)
(* A query, from text and expression to positions, proved for every text,  *)
(* every list of patterns and every expression.                            *)
(*                                                                         *)
(* Find: what it returns is right.  The invariant says where each slot's   *)
(* candidate stands, that slots with the same pattern look at the same     *)
(* candidates in lockstep, and that every word passed has its match.       *)
(*                                                                         *)
(* The scans of @ and !@ (NearScan): the elements bit has left behind are  *)
(* out of reach, so one comparison decides for all of b; the scan          *)
(* implements ProximityFilter and returns the list Loci has for it.        *)
(*                                                                         *)
(* The evaluator: every list it computes ascends.  What the bracket check  *)
(* has seen of the characters carries over to the tokens, by the depth of  *)
(* nesting at each character, where patterns hold no "{".  An expression   *)
(* of the grammar gets its meaning: the invariant reads the operator stack *)
(* as the parts of the expression read so far, the queue as a program on   *)
(* lists, and an operand key as the list it spells.                        *)
(***************************************************************************)
EXTENDS Excerpt, Evaluator, NearScan, FiniteLemmas

\* x is found at position i of the text.
Occurs(x, i) ==
  i \in 0..(Len(s) - Len(search_string(x))) /\ OccursAt(search_string(x), i)

\* Where the search for x stands next after the candidate at i.
Successor(x, i) == FindFrom(search_string(x), Continue(x, i))

------------------------------------------------------------------------------
(* Strings, and the functions the search is built from. *)

LEMMA SearchStringType ==
  ASSUME NEW x \in Seq(Characters), x # <<>>
  PROVE  search_string(x) \in Seq(Characters) /\ Len(search_string(x)) \in Nat
<1>1. Len(x) \in Nat \ {0}
  BY EmptySeq
<1> DEFINE m == IF WildcardInFront(x) THEN 2 ELSE 1
           n == IF WildcardBehind(x) THEN Len(x) - 1 ELSE Len(x)
<1>2. m \in 1..2 /\ n \in 0..Len(x) /\ n \in Int
  BY <1>1
<1>3. \A i \in m..n : x[i] \in Characters
  BY <1>1, <1>2, ElementOfSeq
<1>4. search_string(x) = SubSeq(x, m, n)
  BY DEF search_string
<1> HIDE DEF m, n
<1>5. SubSeq(x, m, n) \in Seq(Characters)
  BY <1>1, <1>2, <1>3
<1> QED  BY <1>4, <1>5, LenProperties

\* The patterns of a list are strings that are not empty.
LEMMA PatternTypes ==
  ASSUME s \in Texts, patterns \in PatternLists
  PROVE  /\ s \in Seq(Characters) /\ Len(s) \in Nat
         /\ Len(patterns) \in Nat
         /\ \A k \in Slots : /\ patterns[k] \in PatternSet
                             /\ search_string(patterns[k]) \in Seq(Characters)
                             /\ Len(search_string(patterns[k])) \in Nat
         /\ \A x \in PatternSet : /\ \E k \in Slots : x = patterns[k]
                                  /\ search_string(x) \in Seq(Characters)
                                  /\ Len(search_string(x)) \in Nat
<1>1. s \in Seq(Characters) /\ Len(s) \in Nat
  BY TextsAssumption, LenProperties
<1>2. patterns \in Seq(Seq(Characters)) /\ Len(patterns) \in Nat
  BY PatternsAssumption, LenProperties
<1>3. \A k \in Slots : patterns[k] \in Seq(Characters) /\ patterns[k] # <<>>
  BY <1>2, PatternsAssumption, ElementOfSeq DEF Slots
<1>4. \A x \in PatternSet : \E k \in Slots : x = patterns[k]
  BY DEF PatternSet
<1>5. \A k \in Slots : patterns[k] \in PatternSet
  BY DEF PatternSet
<1> QED  BY <1>1, <1>2, <1>3, <1>4, <1>5, SearchStringType

\* s.find: the first occurrence from a position on.
LEMMA FindFromIs ==
  ASSUME NEW str, Len(str) \in Nat, Len(s) \in Nat, NEW start \in Nat
  PROVE  LET hits == {i \in start..(Len(s) - Len(str)) : OccursAt(str, i)}
             found == FindFrom(str, start)
         IN  \/ found = None /\ hits = {}
             \/ found \in hits /\ \A i \in hits : found <= i
<1> DEFINE hits == {i \in start..(Len(s) - Len(str)) : OccursAt(str, i)}
<1>1. hits \subseteq Nat
  OBVIOUS
<1>2. CASE hits = {}
  BY <1>2 DEF FindFrom
<1>3. CASE hits # {}
  <2>1. \E i \in hits : \A j \in hits : i <= j
    <3> HIDE DEF hits
    <3> QED  BY <1>1, <1>3, LeastNumber
  <2>2. FindFrom(str, start) = CHOOSE i \in hits : \A j \in hits : i <= j
    BY <1>3 DEF FindFrom
  <2> QED  BY <2>1, <2>2
<1> QED  BY <1>2, <1>3

\* The end of the word that position i is in.
LEMMA AfterWordIs ==
  ASSUME Len(s) \in Nat, NEW i \in 0..Len(s)
  PROVE  /\ AfterWord(i) \in i..Len(s)
         /\ Border(AfterWord(i))
         /\ \A m \in i..(AfterWord(i) - 1) : ~Border(m)
<1> DEFINE borders == {j \in i..Len(s) : Border(j)}
<1>1. borders \subseteq Nat /\ Len(s) \in borders
  BY DEF Border
<1>2. PICK j \in borders : \A m \in borders : j <= m
  <2> HIDE DEF borders
  <2> QED  BY <1>1, LeastNumber
<1>3. j \in i..Len(s) /\ Border(j) /\ \A m \in i..(j - 1) : ~Border(m)
  BY <1>2
<1> DEFINE Ends(e) == Border(e) /\ \A m \in i..(e - 1) : ~Border(m)
<1>4. \E e \in i..Len(s) : Ends(e)
  BY <1>3
<1>5. AfterWord(i) = CHOOSE e \in i..Len(s) : Ends(e)
  BY DEF AfterWord
<1>6. AfterWord(i) \in i..Len(s) /\ Ends(AfterWord(i))
  <2> HIDE DEF Ends
  <2> QED  BY <1>4, <1>5
<1> QED  BY <1>6

\* The search of x goes on behind the candidate, at the end of a word, and
\* finds the first occurrence from there.
LEMMA SuccessorIs ==
  ASSUME Len(s) \in Nat, NEW x, Len(search_string(x)) \in Nat, NEW i, Occurs(x, i)
  PROVE  /\ Continue(x, i) \in (i + Len(search_string(x)))..Len(s)
         /\ Border(Continue(x, i))
         /\ \A m \in (i + Len(search_string(x)))..(Continue(x, i) - 1) : ~Border(m)
         /\ \/ /\ Successor(x, i) = None
               /\ \A j \in Int : Occurs(x, j) => j < Continue(x, i)
            \/ /\ Successor(x, i) # None
               /\ Occurs(x, Successor(x, i))
               /\ Continue(x, i) <= Successor(x, i)
               /\ \A j \in Int : Occurs(x, j) /\ Continue(x, i) <= j => Successor(x, i) <= j
<1> DEFINE str == search_string(x)
           start == Continue(x, i)
           n == Successor(x, i)
           hits == {j \in start..(Len(s) - Len(str)) : OccursAt(str, j)}
<1>1. i \in Nat /\ i + Len(str) \in 0..Len(s)
  BY DEF Occurs
<1>2. /\ start \in (i + Len(str))..Len(s) /\ Border(start) /\ start \in Nat
      /\ \A m \in (i + Len(str))..(start - 1) : ~Border(m)
  BY <1>1, AfterWordIs DEF Continue
<1>3. \/ n = None /\ hits = {}
      \/ n \in hits /\ \A j \in hits : n <= j
  BY <1>2, FindFromIs DEF Successor
<1>4. \A j \in Int : Occurs(x, j) /\ start <= j => j \in hits
  BY <1>2 DEF Occurs
<1>5. \A j \in hits : j \in Nat /\ Occurs(x, j) /\ start <= j
  BY <1>2 DEF Occurs
<1>6. CASE n = None /\ hits = {}
  BY <1>2, <1>4, <1>6
<1>7. CASE n \in hits /\ \A j \in hits : n <= j
  <2>1. n # None
    BY <1>5, <1>7 DEF None
  <2> QED  BY <1>2, <1>4, <1>5, <1>7, <2>1
<1> QED  BY <1>3, <1>6, <1>7

------------------------------------------------------------------------------
(* The invariant. *)

TypeInv ==
  /\ s \in Texts
  /\ patterns \in PatternLists
  /\ next_positions \in [Slots -> Int]
  /\ match_positions \in [PatternSet -> Seq(Nat)]
  /\ pc \in {"start", "search", "done"}

\* The search of slot k has gone past position i.
Passed(k, i) == next_positions[k] = None \/ i < next_positions[k]

\* Before the search there is nothing.
NothingYet ==
  pc = "start" => \A x \in PatternSet : match_positions[x] = <<>>

CandidatesOccur ==
  \A k \in Queued : Occurs(patterns[k], next_positions[k])

\* A search string that is empty is found everywhere: its search never ends.
EmptyNeverEnds ==
  pc # "start" => \A k \in Slots : search_string(patterns[k]) = <<>> => k \in Queued

MatchesAreRight ==
  \A x \in PatternSet : \A i \in MatchesOf(x) : Occurs(x, i) /\ IsMatch(x, i)

\* No candidate is before a match.
MatchesComeFirst ==
  \A x \in PatternSet : \A i \in MatchesOf(x) : \A k \in Queued : i <= next_positions[k]

MatchesAscend ==
  \A x \in PatternSet : \A j, k \in 1..Len(match_positions[x]) :
    j < k => match_positions[x][j] <= match_positions[x][k]

\* The elements of the list that hold the same pattern look at the same
\* candidates.  None is more than one ahead of another.
Lockstep ==
  \A j \in Queued, k \in Slots :
    LET x == patterns[j]
        i == next_positions[j]
    IN  patterns[k] = x /\ search_string(x) # <<>> /\ pc # "start" /\ Passed(k, i) =>
          /\ next_positions[k] = Successor(x, i)
          /\ IsMatch(x, i) => i \in MatchesOf(x)

TimesOf(x, i) == {n \in 1..Len(match_positions[x]) : match_positions[x][n] = i}
PassedBy(x, i) == {k \in Slots : patterns[k] = x /\ Passed(k, i)}

\* A match has been reported once for each element that has passed it.
ReportedAsOften ==
  \A x \in PatternSet : search_string(x) # <<>> =>
    \A i \in MatchesOf(x) : Cardinality(TimesOf(x, i)) = Cardinality(PassedBy(x, i))

\* The patterns of EveryDescribedWordOnce.
IsPlain(x) == OneWord(x) /\ (WildcardInFront(x) => WildcardBehind(x))

\* What the search has passed has a match in its word.
PassedWordsFound ==
  pc # "start" =>
    \A k \in Slots : IsPlain(patterns[k]) =>
      \A i \in Int :
        Occurs(patterns[k], i) /\ IsMatch(patterns[k], i) /\ Passed(k, i) =>
          \E j \in MatchesOf(patterns[k]) : WordOf(j) = WordOf(i)

\* The search goes on behind the word of a match.
WordsLeft ==
  \A k \in Queued : OneWord(patterns[k]) =>
    \A i \in MatchesOf(patterns[k]) :
      i < next_positions[k] => Continue(patterns[k], i) <= next_positions[k]

OneMatchPerWord ==
  \A x \in PatternSet : OneWord(x) =>
    \A i, j \in MatchesOf(x) : WordOf(i) = WordOf(j) => i = j

------------------------------------------------------------------------------
(* Words. *)

\* The word around a position begins at the last border before it.
LEMMA WordOfIs ==
  ASSUME NEW i \in Nat
  PROVE  /\ WordOf(i) \in 0..i
         /\ WordOf(i) = 0 \/ IsSeparator(WordOf(i) - 1)
         /\ \A m \in WordOf(i)..(i - 1) : ~IsSeparator(m)
<1> DEFINE Starts(j) == (j = 0 \/ IsSeparator(j - 1)) /\ \A m \in j..(i - 1) : ~IsSeparator(m)
           D == {d \in 0..i : i - d = 0 \/ IsSeparator(i - d - 1)}
<1>1. D \subseteq Nat /\ i \in D
  OBVIOUS
<1>2. PICK d \in D : \A e \in D : d <= e
  <2> HIDE DEF D
  <2> QED  BY <1>1, LeastNumber
<1>3. i - d \in 0..i /\ Starts(i - d)
  <2>1. d \in 0..i /\ (i - d = 0 \/ IsSeparator(i - d - 1))
    OBVIOUS
  <2>2. ASSUME NEW m \in (i - d)..(i - 1), IsSeparator(m) PROVE FALSE
    <3>1. i - m - 1 \in 0..i /\ i - (i - m - 1) - 1 = m /\ i - m - 1 < d
      BY <2>1
    <3>2. i - m - 1 \in D
      BY <2>2, <3>1
    <3> QED  BY <1>2, <2>1, <3>1, <3>2
  <2> QED  BY <2>1, <2>2
<1>4. WordOf(i) = CHOOSE j \in 0..i : Starts(j)
  BY DEF WordOf
<1>5. WordOf(i) \in 0..i /\ Starts(WordOf(i))
  <2> HIDE DEF Starts
  <2> QED  BY <1>3, <1>4
<1> QED  BY <1>5

\* Positions with no separator between them are in one word.
LEMMA OneWordAround ==
  ASSUME NEW i \in Nat, NEW j \in Nat, i <= j, \A m \in i..(j - 1) : ~IsSeparator(m)
  PROVE  WordOf(i) = WordOf(j)
<1> DEFINE v == WordOf(i)
           u == WordOf(j)
<1>1. /\ v \in 0..i /\ (v = 0 \/ IsSeparator(v - 1))
      /\ \A m \in v..(i - 1) : ~IsSeparator(m)
  BY WordOfIs
<1>2. /\ u \in 0..j /\ (u = 0 \/ IsSeparator(u - 1))
      /\ \A m \in u..(j - 1) : ~IsSeparator(m)
  BY WordOfIs
<1> HIDE DEF v, u
<1>3. ~(v < u)
  <2> SUFFICES ASSUME v < u PROVE FALSE
    OBVIOUS
  <2>1. u - 1 \in v..(i - 1) \/ u - 1 \in i..(j - 1)
    BY <1>1, <1>2
  <2>2. IsSeparator(u - 1)
    BY <1>1, <1>2
  <2> QED  BY <1>1, <2>1, <2>2
<1>4. ~(u < v)
  <2> SUFFICES ASSUME u < v PROVE FALSE
    OBVIOUS
  <2>1. v - 1 \in u..(j - 1)
    BY <1>1, <1>2
  <2>2. IsSeparator(v - 1)
    BY <1>1, <1>2
  <2> QED  BY <1>2, <2>1, <2>2
<1>5. v = u
  BY <1>1, <1>2, <1>3, <1>4
<1> QED  BY <1>5 DEF v, u

\* A separator between two positions parts their words.
LEMMA TwoWords ==
  ASSUME NEW i \in Nat, NEW j \in Nat, NEW m \in i..(j - 1), IsSeparator(m)
  PROVE  WordOf(i) # WordOf(j)
<1>1. WordOf(i) \in 0..i /\ WordOf(j) \in 0..j /\ \A n \in WordOf(j)..(j - 1) : ~IsSeparator(n)
  BY WordOfIs
<1>2. ~(WordOf(j) <= m)
  BY <1>1
<1> QED  BY <1>1, <1>2

\* An occurrence of one word has no separator in it.
LEMMA NoSeparatorInside ==
  ASSUME Len(s) \in Nat, NEW x, Len(search_string(x)) \in Nat, OneWord(x), NEW i, Occurs(x, i)
  PROVE  /\ i \in Nat /\ Len(search_string(x)) > 0
         /\ \A m \in i..(i + Len(search_string(x)) - 1) : ~IsSeparator(m)
<1> DEFINE str == search_string(x)
<1>1. i \in Nat /\ i + Len(str) <= Len(s) /\ SubSeq(s, i + 1, i + Len(str)) = str
  BY DEF Occurs, OccursAt
<1>2. str # <<>> /\ \A k \in 1..Len(str) : str[k] \notin Separators
  BY DEF OneWord
<1>3. ASSUME NEW m \in i..(i + Len(str) - 1) PROVE s[m + 1] \notin Separators
  <2>1. m - i + 1 \in 1..Len(str) /\ (i + 1) + (m - i + 1) - 1 = m + 1
    BY <1>1
  <2>2. str[m - i + 1] = s[m + 1]
    BY <1>1, <2>1
  <2> QED  BY <1>2, <2>1, <2>2
<1>4. Len(str) # 0
  <2> SUFFICES ASSUME Len(str) = 0 PROVE FALSE
    OBVIOUS
  <2>1. SubSeq(s, i + 1, i + 0) = <<>>
    BY <1>1
  <2> QED  BY <1>1, <1>2, <2>1
<1> QED  BY <1>1, <1>3, <1>4 DEF IsSeparator

\* From a candidate up to where the search goes on there is one word.
LEMMA NoSeparatorBefore ==
  ASSUME Len(s) \in Nat, NEW x, Len(search_string(x)) \in Nat, OneWord(x), NEW i, Occurs(x, i)
  PROVE  \A m \in i..(Continue(x, i) - 1) : ~IsSeparator(m)
<1> DEFINE e == i + Len(search_string(x))
<1>1. i \in Nat /\ e \in Nat /\ \A m \in i..(e - 1) : ~IsSeparator(m)
  BY NoSeparatorInside
<1>2. Continue(x, i) \in e..Len(s) /\ \A m \in e..(Continue(x, i) - 1) : ~IsSeparator(m)
  BY SuccessorIs DEF Border
<1> HIDE DEF e
<1>3. \A m \in i..(Continue(x, i) - 1) : m \in i..(e - 1) \/ m \in e..(Continue(x, i) - 1)
  BY <1>1, <1>2
<1> QED  BY <1>1, <1>2, <1>3

\* What the search passes over behind a candidate is in its word, and a match
\* there makes the candidate one.
LEMMA SkippedIsInWord ==
  ASSUME Len(s) \in Nat, NEW x, Len(search_string(x)) \in Nat, IsPlain(x),
         NEW i, Occurs(x, i), NEW j \in i..(Continue(x, i) - 1), Occurs(x, j), IsMatch(x, j)
  PROVE  WordOf(i) = WordOf(j) /\ IsMatch(x, i)
<1>1. OneWord(x) /\ (WildcardInFront(x) => WildcardBehind(x))
  BY DEF IsPlain
<1>2. i \in Nat /\ j \in Nat /\ i <= j /\ Continue(x, i) \in Nat
      /\ \A m \in i..(Continue(x, i) - 1) : ~IsSeparator(m)
  BY <1>1, NoSeparatorBefore, SuccessorIs DEF Occurs
<1>3. \A m \in i..(j - 1) : ~IsSeparator(m)
  BY <1>2
<1>4. WordOf(i) = WordOf(j)
  BY <1>2, <1>3, OneWordAround
<1>5. CASE WildcardInFront(x)
  BY <1>1, <1>4, <1>5 DEF IsMatch
<1>6. CASE ~WildcardInFront(x)
  <2>1. j = 0 \/ IsSeparator(j - 1)
    BY <1>6 DEF IsMatch
  <2>2. j = i
    BY <1>2, <1>3, <2>1
  <2> QED  BY <1>4, <2>2
<1> QED  BY <1>5, <1>6

\* An occurrence where the search goes on, or behind, is in another word.
LEMMA BehindIsOtherWord ==
  ASSUME Len(s) \in Nat, NEW x, Len(search_string(x)) \in Nat, OneWord(x),
         NEW i, Occurs(x, i), NEW j, Occurs(x, j), Continue(x, i) <= j
  PROVE  WordOf(i) # WordOf(j)
<1> DEFINE start == Continue(x, i)
<1>1. i \in Nat /\ j \in Nat /\ j + Len(search_string(x)) <= Len(s) /\ Len(search_string(x)) > 0
  BY NoSeparatorInside DEF Occurs
<1>2. start \in (i + Len(search_string(x)))..Len(s) /\ Border(start)
  BY SuccessorIs
<1>3. IsSeparator(start)
  BY <1>1, <1>2 DEF Border
<1>4. ~IsSeparator(j)
  BY <1>1, NoSeparatorInside
<1>5. start \in i..(j - 1)
  BY <1>1, <1>2, <1>3, <1>4
<1> QED  BY <1>1, <1>3, <1>5, TwoWords

------------------------------------------------------------------------------
(* The steps. *)

Inv ==
  /\ NothingYet
  /\ CandidatesOccur
  /\ EmptyNeverEnds
  /\ MatchesAreRight
  /\ MatchesComeFirst
  /\ MatchesAscend
  /\ Lockstep
  /\ ReportedAsOften
  /\ PassedWordsFound
  /\ WordsLeft
  /\ OneMatchPerWord

LEMMA InitType == Init => TypeInv
<1> SUFFICES ASSUME Init PROVE TypeInv
  OBVIOUS
<1>1. <<>> \in Seq(Nat) /\ None \in Int
  BY DEF None
<1> QED  BY <1>1 DEF Init, TypeInv

LEMMA InitInv == Init => Inv
<1> SUFFICES ASSUME Init PROVE Inv
  OBVIOUS
<1>1. Queued = {} /\ pc = "start"
  BY DEF Init, Queued
<1>2. \A x \in PatternSet : match_positions[x] = <<>>
  BY DEF Init
<1>3. \A x \in PatternSet : MatchesOf(x) = {} /\ Len(match_positions[x]) = 0
  BY <1>2 DEF MatchesOf, Elements
<1> QED
  BY <1>1, <1>2, <1>3
  DEF Inv, NothingYet, CandidatesOccur, EmptyNeverEnds, MatchesAreRight, MatchesComeFirst,
      MatchesAscend, Lockstep, ReportedAsOften, PassedWordsFound, WordsLeft, OneMatchPerWord

\* The first candidates.
LEMMA FirstCandidates ==
  ASSUME TypeInv, Initialize
  PROVE  /\ next_positions' \in [Slots -> Int]
         /\ \A k \in Slots :
              LET x == patterns[k]
                  n == FindFrom(search_string(x), 0)
              IN  /\ next_positions'[k] = n
                  /\ n # None => Occurs(x, n)
                  /\ \A j \in Int : Occurs(x, j) => n # None /\ n <= j
                  /\ search_string(x) = <<>> => n # None
<1>0. /\ Len(s) \in Nat
      /\ \A k \in Slots : Len(search_string(patterns[k])) \in Nat
  BY PatternTypes DEF TypeInv
<1>1. next_positions' = [k \in Slots |-> FindFrom(search_string(patterns[k]), 0)]
  BY DEF Initialize
<1>2. ASSUME NEW k \in Slots
      PROVE  LET x == patterns[k]
                 n == FindFrom(search_string(x), 0)
             IN  /\ n \in Int
                 /\ n # None => Occurs(x, n)
                 /\ \A j \in Int : Occurs(x, j) => n # None /\ n <= j
                 /\ search_string(x) = <<>> => n # None
  <2> DEFINE x == patterns[k]
             str == search_string(x)
             n == FindFrom(str, 0)
             hits == {i \in 0..(Len(s) - Len(str)) : OccursAt(str, i)}
  <2>1. \/ n = None /\ hits = {}
        \/ n \in hits /\ \A i \in hits : n <= i
    BY <1>0, FindFromIs
  <2>2. \A j : Occurs(x, j) <=> j \in hits
    BY DEF Occurs
  <2>3. hits \subseteq Nat /\ None \notin Nat /\ None \in Int
    BY DEF None
  <2>4. ASSUME str = <<>> PROVE 0 \in hits
    <3>1. Len(str) = 0 /\ SubSeq(s, 0 + 1, 0 + 0) = <<>>
      BY <1>0, <2>4
    <3> QED  BY <1>0, <2>4, <3>1 DEF OccursAt
  <2> HIDE DEF hits, n, str, x
  <2>5. n \in Int /\ (n # None => Occurs(x, n))
    <3>1. CASE n = None
      BY <2>3, <3>1
    <3>2. CASE n \in hits
      <4>1. n \in Int
        BY <2>3, <3>2
      <4>2. Occurs(x, n)
        BY <2>2, <3>2
      <4> QED  BY <4>1, <4>2
    <3> QED  BY <2>1, <3>1, <3>2
  <2>6. \A j \in Int : Occurs(x, j) => n # None /\ n <= j
    BY <2>1, <2>2, <2>3
  <2>7. str = <<>> => n # None
    BY <2>1, <2>3, <2>4
  <2> QED  BY <2>5, <2>6, <2>7 DEF n, str, x
<1> QED  BY <1>1, <1>2

LEMMA InitializeKeeps ==
  ASSUME TypeInv, Inv, Initialize
  PROVE  TypeInv' /\ Inv'
<1> USE DEF Slots, PatternSet
<1>1. /\ s' = s /\ patterns' = patterns /\ match_positions' = match_positions
      /\ pc = "start" /\ pc' = "search"
  BY DEF Initialize
<1>2. /\ next_positions' \in [Slots -> Int]
      /\ \A k \in Slots :
           LET x == patterns[k]
               n == FindFrom(search_string(x), 0)
           IN  /\ next_positions'[k] = n
               /\ n # None => Occurs(x, n)
               /\ \A j \in Int : Occurs(x, j) => n # None /\ n <= j
               /\ search_string(x) = <<>> => n # None
  BY FirstCandidates
<1>3. \A x \in PatternSet : match_positions[x] = <<>> /\ MatchesOf(x) = {}
  BY <1>1 DEF Inv, NothingYet, MatchesOf, Elements
<1>4. \A x : MatchesOf(x)' = MatchesOf(x)
  BY <1>1 DEF MatchesOf
<1>5. \A k \in Slots : patterns[k] \in PatternSet
  OBVIOUS
<1>6. TypeInv'
  BY <1>1, <1>2 DEF TypeInv
<1>7. \A x, i : Occurs(x, i)' <=> Occurs(x, i)
  BY <1>1 DEF Occurs, OccursAt
<1>8. CandidatesOccur' /\ EmptyNeverEnds'
  BY <1>1, <1>2, <1>7 DEF CandidatesOccur, EmptyNeverEnds, Queued
<1>9. NothingYet' /\ MatchesAreRight' /\ MatchesComeFirst' /\ OneMatchPerWord' /\ ReportedAsOften'
  BY <1>1, <1>3, <1>4
  DEF NothingYet, MatchesAreRight, MatchesComeFirst, OneMatchPerWord, ReportedAsOften
<1>10. MatchesAscend'
  BY <1>1, <1>3 DEF MatchesAscend
<1>11. WordsLeft'
  BY <1>1, <1>3, <1>4, <1>5 DEF WordsLeft, Queued
<1>12. Lockstep'
  <2> SUFFICES ASSUME NEW j \in Queued', NEW k \in Slots, patterns[k] = patterns[j],
                      Passed(k, next_positions[j])'
               PROVE  FALSE
    BY <1>1 DEF Lockstep
  <2>1. j \in Slots /\ next_positions'[j] # None /\ next_positions'[j] \in Int
    BY <1>1, <1>2 DEF Queued
  <2>2. next_positions'[k] = next_positions'[j]
    BY <1>2, <2>1
  <2> QED  BY <2>1, <2>2 DEF Passed
<1>13. PassedWordsFound'
  <2> SUFFICES ASSUME NEW k \in Slots, NEW i \in Int, Occurs(patterns[k], i), Passed(k, i)'
               PROVE  FALSE
    BY <1>1, <1>7 DEF PassedWordsFound
  <2>1. next_positions'[k] # None /\ next_positions'[k] <= i /\ next_positions'[k] \in Int
    BY <1>2
  <2> QED  BY <2>1 DEF Passed
<1> QED  BY <1>6, <1>8, <1>9, <1>10, <1>11, <1>12, <1>13 DEF Inv

\* What find asks of the text does not change with the search.
LEMMA TextStays ==
  ASSUME s' = s
  PROVE  /\ \A x, i : Occurs(x, i)' <=> Occurs(x, i)
         /\ \A x, i : IsMatch(x, i)' <=> IsMatch(x, i)
         /\ \A x, i : Continue(x, i)' = Continue(x, i)
         /\ \A x, i : Successor(x, i)' = Successor(x, i)
         /\ \A i : WordOf(i)' = WordOf(i)
         /\ \A x : Described(x)' = Described(x)
BY DEF Occurs, OccursAt, IsMatch, Border, IsSeparator, Continue, AfterWord, Successor, FindFrom,
       WordOf, Described

LEMMA ExamineEffect ==
  ASSUME TypeInv, CandidatesOccur, NEW k \in Slots, Examine(k)
  PROVE  LET x == patterns[k]
             i == next_positions[k]
             n == Successor(x, i)
         IN  /\ s' = s /\ patterns' = patterns /\ pc = "search" /\ pc' = "search"
             /\ k \in Queued /\ \A j \in Queued : i <= next_positions[j]
             /\ x \in PatternSet /\ i \in Nat /\ Occurs(x, i)
             /\ n \in Int /\ (n # None => Occurs(x, n))
             /\ next_positions' \in [Slots -> Int]
             /\ next_positions'[k] = n
             /\ \A j \in Slots \ {k} : next_positions'[j] = next_positions[j]
             /\ match_positions' \in [PatternSet -> Seq(Nat)]
             /\ IsMatch(x, i) => match_positions'[x] = Append(match_positions[x], i)
             /\ ~IsMatch(x, i) => match_positions'[x] = match_positions[x]
             /\ \A y \in PatternSet \ {x} : match_positions'[y] = match_positions[y]
<1> DEFINE x == patterns[k]
           i == next_positions[k]
           n == Successor(x, i)
<1>1. /\ Len(s) \in Nat /\ x \in PatternSet /\ Len(search_string(x)) \in Nat
  BY PatternTypes DEF TypeInv
<1>2. k \in Queued /\ Occurs(x, i) /\ i \in Nat
  BY DEF Examine, CandidatesOccur, Occurs
<1>3. n \in Int /\ (n # None => Occurs(x, n))
  BY <1>1, <1>2, SuccessorIs DEF Occurs, None
<1>4. /\ s' = s /\ patterns' = patterns /\ pc = "search" /\ pc' = "search"
      /\ \A j \in Queued : i <= next_positions[j]
  BY DEF Examine, Comes
<1>5. /\ next_positions' = [next_positions EXCEPT ![k] = n]
      /\ match_positions' = IF IsMatch(x, i)
                            THEN [match_positions EXCEPT ![x] = Append(match_positions[x], i)]
                            ELSE match_positions
  BY DEF Examine, Successor
<1>6. next_positions \in [Slots -> Int] /\ match_positions \in [PatternSet -> Seq(Nat)]
  BY DEF TypeInv
<1> HIDE DEF n, i, x
<1>7. /\ next_positions' \in [Slots -> Int]
      /\ next_positions'[k] = n
      /\ \A j \in Slots \ {k} : next_positions'[j] = next_positions[j]
  BY <1>3, <1>5, <1>6
<1>8. Append(match_positions[x], i) \in Seq(Nat)
  BY <1>1, <1>2, <1>6
<1>9. /\ match_positions' \in [PatternSet -> Seq(Nat)]
      /\ IsMatch(x, i) => match_positions'[x] = Append(match_positions[x], i)
      /\ ~IsMatch(x, i) => match_positions'[x] = match_positions[x]
      /\ \A y \in PatternSet \ {x} : match_positions'[y] = match_positions[y]
  BY <1>1, <1>5, <1>6, <1>8
<1> QED  BY <1>1, <1>2, <1>3, <1>4, <1>7, <1>9 DEF n, i, x

LEMMA ExamineMatches ==
  ASSUME TypeInv, CandidatesOccur, NEW k \in Slots, Examine(k), NEW y \in PatternSet
  PROVE  Elements(match_positions'[y]) =
           IF y = patterns[k] /\ IsMatch(patterns[k], next_positions[k])
           THEN MatchesOf(y) \cup {next_positions[k]} ELSE MatchesOf(y)
<1> DEFINE x == patterns[k]
           i == next_positions[k]
           m == match_positions[y]
           p == match_positions'[y]
<1>1. /\ x \in PatternSet /\ i \in Nat
      /\ y = x /\ IsMatch(x, i) => p = Append(m, i)
      /\ y # x \/ ~IsMatch(x, i) => p = m
  BY ExamineEffect
<1>2. m \in Seq(Nat) /\ Len(m) \in Nat
  BY DEF TypeInv
<1>3. MatchesOf(y) = Elements(m)
  BY DEF MatchesOf
<1>4. CASE y = x /\ IsMatch(x, i)
  <2>1. /\ Len(p) = Len(m) + 1 /\ p[Len(m) + 1] = i
        /\ \A j \in 1..Len(m) : p[j] = m[j]
    BY <1>1, <1>2, <1>4, AppendProperties
  <2> HIDE DEF p, m, x, i
  <2>2. Elements(p) = Elements(m) \cup {i}
    <3>1. ASSUME NEW j \in 1..Len(p) PROVE p[j] \in {m[l] : l \in 1..Len(m)} \cup {i}
      <4>1. CASE j = Len(m) + 1
        BY <2>1, <4>1
      <4>2. CASE j \in 1..Len(m)
        BY <2>1, <4>2
      <4> QED  BY <1>2, <2>1, <4>1, <4>2
    <3>2. ASSUME NEW j \in 1..Len(m) PROVE m[j] \in {p[l] : l \in 1..Len(p)}
      <4>1. j \in 1..Len(p) /\ p[j] = m[j]
        BY <1>2, <2>1
      <4> QED  BY <4>1
    <3>3. i \in {p[l] : l \in 1..Len(p)}
      <4>1. Len(m) + 1 \in 1..Len(p) /\ p[Len(m) + 1] = i
        BY <1>2, <2>1
      <4> QED  BY <4>1
    <3> QED  BY <3>1, <3>2, <3>3 DEF Elements
  <2> QED  BY <1>3, <1>4, <2>2 DEF x, i, p
<1>5. CASE ~(y = x /\ IsMatch(x, i))
  BY <1>1, <1>3, <1>5
<1> QED  BY <1>4, <1>5

\* Slot k has been examined: x is its pattern, i the candidate, n what comes next.
Examined(k, x, i, n) ==
  /\ s' = s /\ patterns' = patterns /\ Slots' = Slots /\ PatternSet' = PatternSet
  /\ pc = "search" /\ pc' = "search"
  /\ k \in Slots /\ x = patterns[k] /\ x \in PatternSet
  /\ next_positions[k] = i /\ i \in Nat /\ Occurs(x, i)
  /\ next_positions'[k] = n /\ n = Successor(x, i) /\ n \in Int /\ (n # None => Occurs(x, n))
  /\ next_positions' \in [Slots -> Int]
  /\ \A j \in Slots \ {k} : next_positions'[j] = next_positions[j]
  /\ k \in Queued /\ \A j \in Queued : i <= next_positions[j]
  /\ \A j \in Slots : j \in Queued' <=> IF j = k THEN n # None ELSE j \in Queued
  /\ \A y \in PatternSet :
       Elements(match_positions'[y]) =
         IF y = x /\ IsMatch(x, i) THEN MatchesOf(y) \cup {i} ELSE MatchesOf(y)

LEMMA ExamineFacts ==
  ASSUME TypeInv, Inv, NEW k \in Slots, Examine(k)
  PROVE  Examined(k, patterns[k], next_positions[k], Successor(patterns[k], next_positions[k]))
<1> DEFINE x == patterns[k]
           i == next_positions[k]
           n == Successor(x, i)
<1>1. CandidatesOccur
  BY DEF Inv
<1>2. /\ s' = s /\ patterns' = patterns /\ pc = "search" /\ pc' = "search"
      /\ k \in Queued /\ \A j \in Queued : i <= next_positions[j]
      /\ x \in PatternSet /\ i \in Nat /\ Occurs(x, i)
      /\ n \in Int /\ (n # None => Occurs(x, n))
      /\ next_positions' \in [Slots -> Int]
      /\ next_positions'[k] = n
      /\ \A j \in Slots \ {k} : next_positions'[j] = next_positions[j]
  BY <1>1, ExamineEffect
<1>3. \A y \in PatternSet :
        Elements(match_positions'[y]) =
         IF y = x /\ IsMatch(x, i) THEN MatchesOf(y) \cup {i} ELSE MatchesOf(y)
  BY <1>1, ExamineMatches
<1>4. Slots' = Slots /\ PatternSet' = PatternSet
  BY <1>2 DEF Slots, PatternSet
<1>5. \A j \in Slots : j \in Queued' <=> IF j = k THEN n # None ELSE j \in Queued
  BY <1>2, <1>4 DEF Queued
<1> QED  BY <1>2, <1>3, <1>4, <1>5 DEF Examined

\* A slot that is ahead of the candidate examined has gone where the candidate
\* goes next.
LEMMA AheadIsNext ==
  ASSUME TypeInv, Inv, NEW k \in Slots, Examine(k), NEW j \in Slots,
         patterns[j] = patterns[k], search_string(patterns[k]) # <<>>,
         Passed(j, next_positions[k])
  PROVE  /\ next_positions[j] = Successor(patterns[k], next_positions[k])
         /\ IsMatch(patterns[k], next_positions[k]) => next_positions[k] \in MatchesOf(patterns[k])
BY ExamineEffect DEF Inv, Lockstep

LEMMA ExamineKeepsOrder ==
  ASSUME TypeInv, Inv, NEW k \in Slots, Examine(k)
  PROVE  MatchesAreRight' /\ MatchesComeFirst' /\ MatchesAscend'
<1> DEFINE x == patterns[k]
           i == next_positions[k]
           n == Successor(x, i)
<1>1. Examined(k, x, i, n)
  BY ExamineFacts
<1>2. s' = s
  BY <1>1 DEF Examined
<1>3. \A y, j : (Occurs(y, j)' <=> Occurs(y, j)) /\ (IsMatch(y, j)' <=> IsMatch(y, j))
  BY <1>2, TextStays
<1>4. n # None => i <= n
  <2>1. Len(s) \in Nat /\ Len(search_string(x)) \in Nat
    BY PatternTypes DEF TypeInv
  <2>2. Continue(x, i) \in (i + Len(search_string(x)))..Len(s) /\ (n = None \/ Continue(x, i) <= n)
    BY <1>1, <2>1, SuccessorIs DEF Examined
  <2> QED  BY <1>1, <2>1, <2>2 DEF Examined
<1>5. MatchesAreRight'
  <2> SUFFICES ASSUME NEW y \in PatternSet, NEW m, m \in MatchesOf(y)'
               PROVE  Occurs(y, m) /\ IsMatch(y, m)
    BY <1>1, <1>3 DEF MatchesAreRight, Examined
  <2>1. m \in MatchesOf(y) \/ (y = x /\ m = i /\ IsMatch(x, i))
    BY <1>1 DEF Examined, MatchesOf
  <2> QED  BY <1>1, <2>1 DEF Inv, MatchesAreRight, Examined
<1>6. MatchesComeFirst'
  <2> SUFFICES ASSUME NEW y \in PatternSet, NEW m, m \in MatchesOf(y)', NEW j \in Queued'
               PROVE  m <= next_positions'[j]
    BY <1>1 DEF MatchesComeFirst, Examined
  <2>1. j \in Slots /\ next_positions'[j] # None
    BY <1>1 DEF Queued, Examined
  <2>2. m = i \/ m \in MatchesOf(y)
    BY <1>1 DEF Examined, MatchesOf
  <2>3. m <= i
    BY <1>1, <2>2 DEF Inv, MatchesComeFirst, Examined
  <2>4. m \in Int
    BY <1>1, <2>2 DEF Inv, MatchesAreRight, Occurs, Examined
  <2>5. i <= next_positions'[j]
    <3>1. CASE j = k
      BY <1>1, <1>4, <2>1, <3>1 DEF Examined
    <3>2. CASE j # k
      BY <1>1, <2>1, <3>2 DEF Queued, Examined
    <3> QED  BY <3>1, <3>2
  <2> QED  BY <1>1, <2>1, <2>3, <2>4, <2>5 DEF Examined
<1>7. MatchesAscend'
  <2>1. /\ match_positions' \in [PatternSet -> Seq(Nat)]
        /\ IsMatch(x, i) => match_positions'[x] = Append(match_positions[x], i)
        /\ ~IsMatch(x, i) => match_positions'[x] = match_positions[x]
        /\ \A y \in PatternSet \ {x} : match_positions'[y] = match_positions[y]
    BY ExamineEffect DEF Inv
  <2> SUFFICES ASSUME NEW y \in PatternSet,
                      NEW j \in 1..Len(match_positions'[y]), NEW l \in 1..Len(match_positions'[y]),
                      j < l
               PROVE  match_positions'[y][j] <= match_positions'[y][l]
    BY <1>1 DEF MatchesAscend, Examined
  <2> DEFINE m == match_positions[y]
             p == match_positions'[y]
  <2>2. m \in Seq(Nat) /\ Len(m) \in Nat
    BY DEF TypeInv
  <2>3. \A u, v \in 1..Len(m) : u < v => m[u] <= m[v]
    BY DEF Inv, MatchesAscend
  <2>4. CASE p = m
    BY <2>3, <2>4
  <2>5. CASE y = x /\ p = Append(m, i)
    <3>1. /\ Len(p) = Len(m) + 1 /\ p[Len(m) + 1] = i
          /\ \A u \in 1..Len(m) : p[u] = m[u]
      BY <1>1, <2>2, <2>5, AppendProperties DEF Examined
    <3>2. \A u \in 1..Len(m) : m[u] <= i
      BY <1>1, <2>5 DEF Inv, MatchesComeFirst, MatchesOf, Elements, Examined
    <3>0. j \in 1..Len(p) /\ l \in 1..Len(p) /\ j < l
      OBVIOUS
    <3>4. SUFFICES p[j] <= p[l]
      OBVIOUS
    <3> HIDE DEF m, p, i
    <3>3. j \in 1..Len(m) /\ (l \in 1..Len(m) \/ l = Len(m) + 1)
      BY <2>2, <3>0, <3>1
    <3> QED  BY <2>3, <3>0, <3>1, <3>2, <3>3
  <2> QED  BY <2>1, <2>4, <2>5
<1> QED  BY <1>5, <1>6, <1>7

LEMMA ExamineKeepsPace ==
  ASSUME TypeInv, Inv, NEW k \in Slots, Examine(k)
  PROVE  NothingYet' /\ CandidatesOccur' /\ EmptyNeverEnds' /\ Lockstep'
<1> DEFINE x == patterns[k]
           i == next_positions[k]
           n == Successor(x, i)
<1>1. Examined(k, x, i, n)
  BY ExamineFacts
<1>2. s' = s
  BY <1>1 DEF Examined
<1>3. \A y, j : /\ Occurs(y, j)' <=> Occurs(y, j)
                /\ IsMatch(y, j)' <=> IsMatch(y, j)
                /\ Successor(y, j)' = Successor(y, j)
  BY <1>2, TextStays
<1>4. /\ Len(s) \in Nat /\ Len(search_string(x)) \in Nat
      /\ \A j \in Slots : patterns[j] \in PatternSet
      /\ search_string(x) \in Seq(Characters)
  BY PatternTypes DEF TypeInv
<1>5. /\ Continue(x, i) \in (i + Len(search_string(x)))..Len(s)
      /\ \/ n = None /\ \A j \in Int : Occurs(x, j) => j < Continue(x, i)
         \/ n # None /\ Continue(x, i) <= n
  BY <1>1, <1>4, SuccessorIs DEF Examined
<1>6. NothingYet' /\ CandidatesOccur'
  BY <1>1, <1>3 DEF NothingYet, Inv, CandidatesOccur, Queued, Examined
<1>7. EmptyNeverEnds'
  <2>1. ASSUME search_string(x) = <<>> PROVE n # None
    <3>1. Len(search_string(x)) = 0 /\ Continue(x, i) \in 0..Len(s)
      BY <1>1, <1>5, <2>1 DEF Examined
    <3>2. SubSeq(s, Continue(x, i) + 1, Continue(x, i) + 0) = <<>>
      BY <1>4, <3>1
    <3>3. Occurs(x, Continue(x, i))
      BY <1>4, <2>1, <3>1, <3>2 DEF Occurs, OccursAt
    <3>4. Continue(x, i) \in Int /\ ~(Continue(x, i) < Continue(x, i))
      BY <3>1
    <3> QED  BY <1>5, <3>3, <3>4
  <2> QED  BY <1>1, <2>1 DEF EmptyNeverEnds, Inv, Queued, Examined
<1>8. ASSUME search_string(x) # <<>> PROVE n # None => i < n
  <2>1. Len(search_string(x)) # 0
    BY <1>4, <1>8, EmptySeq
  <2> QED  BY <1>1, <1>4, <1>5, <2>1 DEF Examined
<1>9. Lockstep'
  <2> SUFFICES ASSUME NEW j \in Queued', NEW l \in Slots, patterns[l] = patterns[j],
                      search_string(patterns[j]) # <<>>, Passed(l, next_positions[j])'
               PROVE  /\ next_positions'[l] = Successor(patterns[j], next_positions'[j])
                      /\ IsMatch(patterns[j], next_positions'[j]) =>
                           next_positions'[j] \in MatchesOf(patterns[j])'
    BY <1>1, <1>3 DEF Lockstep, Examined
  <2> DEFINE y == patterns[j]
  <2>1. j \in Slots /\ next_positions'[j] # None /\ y \in PatternSet
    BY <1>1, <1>4 DEF Queued, Examined
  <2>2. next_positions'[l] = None \/ next_positions'[j] < next_positions'[l]
    BY DEF Passed
  <2>3. \A m : m \in MatchesOf(y) => m \in MatchesOf(y)'
    BY <1>1, <2>1 DEF Examined, MatchesOf
  <2>4. CASE j # k /\ l # k
    <3>1. j \in Queued /\ next_positions'[j] = next_positions[j] /\ next_positions'[l] = next_positions[l]
      BY <1>1, <2>1, <2>4 DEF Queued, Examined
    <3>2. Passed(l, next_positions[j])
      BY <2>2, <3>1 DEF Passed
    <3> QED  BY <1>1, <2>3, <3>1, <3>2 DEF Inv, Lockstep, Examined
  <2>5. CASE j # k /\ l = k
    <3>1. j \in Queued /\ next_positions'[j] = next_positions[j] /\ y = x
      BY <1>1, <2>1, <2>5 DEF Queued, Examined
    <3>2. next_positions[j] \in Int /\ i <= next_positions[j]
      BY <1>1, <3>1 DEF TypeInv, Queued, Examined
    <3>3. CASE i = next_positions[j]
      <4>1. IsMatch(x, i) => i \in MatchesOf(x)'
        BY <1>1 DEF Examined, MatchesOf
      <4> QED  BY <1>1, <2>5, <3>1, <3>3, <4>1 DEF Examined
    <3>4. CASE i < next_positions[j]
      <4>1. next_positions[j] = n
        BY <1>1, <2>1, <3>1, <3>4, AheadIsNext DEF Passed, Examined
      <4> QED  BY <1>1, <2>1, <2>2, <2>5, <3>1, <4>1 DEF Examined
    <3> QED  BY <1>1, <3>2, <3>3, <3>4 DEF Examined
  <2>6. CASE j = k
    <3>1. l # k /\ y = x /\ next_positions'[j] = n /\ n # None /\ next_positions'[l] = next_positions[l]
      BY <1>1, <2>1, <2>2, <2>6 DEF Examined
    <3>2. i < n /\ next_positions[l] \in Int
      BY <1>8, <2>6, <3>1 DEF TypeInv
    <3>3. Passed(l, i)
      BY <1>1, <2>2, <3>1, <3>2 DEF Passed, Examined
    <3>4. next_positions[l] = n
      BY <2>6, <3>1, <3>3, AheadIsNext
    <3> QED  BY <1>1, <2>2, <3>1, <3>4 DEF Examined
  <2> QED  BY <2>4, <2>5, <2>6
<1> QED  BY <1>6, <1>7, <1>9

\* A match is reported again by each element of the list that comes to it, and
\* only by these.
LEMMA ExamineKeepsCounts ==
  ASSUME TypeInv, Inv, NEW k \in Slots, Examine(k)
  PROVE  ReportedAsOften'
<1> DEFINE x == patterns[k]
           i == next_positions[k]
           n == Successor(x, i)
<1>1. Examined(k, x, i, n)
  BY ExamineFacts
<1>2. /\ match_positions' \in [PatternSet -> Seq(Nat)]
      /\ IsMatch(x, i) => match_positions'[x] = Append(match_positions[x], i)
      /\ ~IsMatch(x, i) => match_positions'[x] = match_positions[x]
      /\ \A y \in PatternSet \ {x} : match_positions'[y] = match_positions[y]
  BY ExamineEffect DEF Inv
<1>3. /\ Len(s) \in Nat /\ Len(search_string(x)) \in Nat /\ Len(patterns) \in Nat
      /\ search_string(x) \in Seq(Characters)
  BY <1>1, PatternTypes DEF TypeInv, Examined
<1>4. search_string(x) # <<>> /\ n # None => i < n
  <2> SUFFICES ASSUME search_string(x) # <<>>, n # None PROVE i < n
    OBVIOUS
  <2>1. Len(search_string(x)) # 0
    BY <1>3, EmptySeq
  <2>2. Continue(x, i) \in (i + Len(search_string(x)))..Len(s) /\ Continue(x, i) <= n
    BY <1>1, <1>3, SuccessorIs DEF Examined
  <2> QED  BY <1>1, <1>3, <2>1, <2>2 DEF Examined
<1> SUFFICES ASSUME NEW y \in PatternSet, search_string(y) # <<>>, NEW m, m \in MatchesOf(y)'
             PROVE  Cardinality(TimesOf(y, m)') = Cardinality(PassedBy(y, m)')
  BY <1>1 DEF ReportedAsOften, Examined
<1> DEFINE before == match_positions[y]
           after == match_positions'[y]
           times == {j \in 1..Len(before) : before[j] = m}
           passed == {j \in Slots : patterns[j] = y /\ Passed(j, m)}
<1>5. /\ TimesOf(y, m)' = {j \in 1..Len(after) : after[j] = m}
      /\ TimesOf(y, m) = times /\ PassedBy(y, m) = passed
  BY DEF TimesOf, PassedBy
<1>6. /\ before \in Seq(Nat) /\ Len(before) \in Nat
      /\ IsFiniteSet(times) /\ IsFiniteSet(passed)
  <2>1. before \in Seq(Nat) /\ Len(before) \in Nat
    BY DEF TypeInv
  <2>2. IsFiniteSet(1..Len(before))
    BY <2>1, FS_Interval
  <2>3. IsFiniteSet(Slots)
    BY <1>3, FS_Interval DEF Slots
  <2>4. times \subseteq 1..Len(before) /\ passed \subseteq Slots
    OBVIOUS
  <2> QED  BY <2>1, <2>2, <2>3, <2>4, FS_Subset
<1>7. PassedBy(y, m)' =
        IF y = x /\ (n = None \/ m < n) THEN passed \cup {k} ELSE passed \ {k}
  <2>1. PassedBy(y, m)' = {j \in Slots : patterns[j] = y /\ (next_positions'[j] = None \/ m < next_positions'[j])}
    BY <1>1 DEF PassedBy, Passed, Examined
  <2> QED  BY <1>1, <2>1 DEF Passed, Examined
<1>8. m \in MatchesOf(y) => Cardinality(times) = Cardinality(passed) /\ m <= i
  BY <1>1, <1>5 DEF Inv, ReportedAsOften, MatchesComeFirst, Examined
<1>9. m \in MatchesOf(y) \/ (y = x /\ m = i /\ IsMatch(x, i))
  BY <1>1 DEF Examined, MatchesOf
<1>10. m \in Nat
  BY <1>1, <1>9 DEF Inv, MatchesAreRight, Occurs, Examined
<1>11. CASE y # x
  <2>1. k \notin passed
    BY <1>1, <1>11 DEF Examined
  <2>2. PassedBy(y, m)' = passed
    BY <1>7, <1>11, <2>1
  <2>3. TimesOf(y, m)' = times
    BY <1>2, <1>5, <1>11
  <2> QED  BY <1>8, <1>9, <1>11, <2>2, <2>3
<1>12. CASE y = x /\ (m # i \/ ~IsMatch(x, i))
  <2>1. m \in MatchesOf(y)
    BY <1>9, <1>12
  <2>2. m < i
    BY <1>1, <1>8, <1>10, <1>12, <2>1 DEF Inv, MatchesAreRight, Examined
  <2>3. k \in passed /\ (n = None \/ m < n)
    BY <1>1, <1>4, <1>10, <1>12, <2>2 DEF Passed, Examined
  <2>4. PassedBy(y, m)' = passed
    BY <1>7, <1>12, <2>3
  <2>5. TimesOf(y, m)' = times
    <3>1. CASE after = before
      BY <1>5, <3>1
    <3>2. CASE after = Append(before, i) /\ m # i
      <4>1. /\ Len(after) = Len(before) + 1 /\ after[Len(before) + 1] = i
            /\ \A j \in 1..Len(before) : after[j] = before[j]
        BY <1>1, <1>6, <3>2, AppendProperties DEF Examined
      <4> HIDE DEF before, after, i
      <4>2. \A j : j \in 1..Len(after) /\ after[j] = m <=> j \in 1..Len(before) /\ before[j] = m
        BY <1>6, <3>2, <4>1
      <4> QED  BY <1>5, <4>2
    <3> QED  BY <1>2, <1>12, <3>1, <3>2
  <2> QED  BY <1>8, <2>1, <2>4, <2>5
<1>13. CASE y = x /\ m = i /\ IsMatch(x, i)
  <2>1. k \notin passed
    BY <1>1, <1>13 DEF Passed, Examined, None
  <2>2. PassedBy(y, m)' = passed \cup {k}
    BY <1>1, <1>4, <1>7, <1>13 DEF Examined
  <2>3. Cardinality(PassedBy(y, m)') = Cardinality(passed) + 1
    BY <1>6, <2>1, <2>2, FS_AddElement
  <2>4. after = Append(before, i)
    BY <1>2, <1>13
  <2>5. /\ Len(after) = Len(before) + 1 /\ after[Len(before) + 1] = i
        /\ \A j \in 1..Len(before) : after[j] = before[j]
    BY <1>1, <1>6, <2>4, AppendProperties DEF Examined
  <2>6. TimesOf(y, m)' = times \cup {Len(before) + 1} /\ Len(before) + 1 \notin times
    <3> HIDE DEF before, after, i
    <3>1. \A j : j \in 1..Len(after) /\ after[j] = m <=>
                   (j \in 1..Len(before) /\ before[j] = m) \/ j = Len(before) + 1
      BY <1>6, <1>13, <2>5
    <3> QED  BY <1>5, <1>6, <3>1
  <2>7. Cardinality(TimesOf(y, m)') = Cardinality(times) + 1
    BY <1>6, <2>6, FS_AddElement
  <2>8. Cardinality(times) = Cardinality(passed)
    <3>1. CASE m \in MatchesOf(y)
      BY <1>8, <3>1
    <3>2. CASE m \notin MatchesOf(y)
      <4>1. times = {}
        BY <3>2 DEF MatchesOf, Elements
      <4>2. passed = {}
        <5> SUFFICES ASSUME NEW j \in Slots, patterns[j] = x, Passed(j, i) PROVE FALSE
          BY <1>13
        <5>1. i \in MatchesOf(x)
          BY <1>13, AheadIsNext
        <5> QED  BY <1>13, <3>2, <5>1
      <4> QED  BY <4>1, <4>2
    <3> QED  BY <3>1, <3>2
  <2> QED  BY <2>3, <2>7, <2>8
<1> QED  BY <1>11, <1>12, <1>13

LEMMA ExamineKeepsWords ==
  ASSUME TypeInv, Inv, NEW k \in Slots, Examine(k)
  PROVE  PassedWordsFound' /\ WordsLeft' /\ OneMatchPerWord'
<1> DEFINE x == patterns[k]
           i == next_positions[k]
           n == Successor(x, i)
<1>1. Examined(k, x, i, n)
  BY ExamineFacts
<1>2. s' = s
  BY <1>1 DEF Examined
<1>3. \A y, j : /\ Occurs(y, j)' <=> Occurs(y, j)
                /\ IsMatch(y, j)' <=> IsMatch(y, j)
                /\ Continue(y, j)' = Continue(y, j)
                /\ WordOf(j)' = WordOf(j)
  BY <1>2, TextStays
<1>4. /\ Len(s) \in Nat /\ Len(search_string(x)) \in Nat
      /\ \A y \in PatternSet : Len(search_string(y)) \in Nat
      /\ \A j \in Slots : patterns[j] \in PatternSet
  BY <1>1, PatternTypes DEF TypeInv, Examined
<1>5. /\ Continue(x, i) \in (i + Len(search_string(x)))..Len(s)
      /\ \/ n = None /\ \A j \in Int : Occurs(x, j) => j < Continue(x, i)
         \/ /\ n # None /\ Continue(x, i) <= n
            /\ \A j \in Int : Occurs(x, j) /\ Continue(x, i) <= j => n <= j
  BY <1>1, <1>4, SuccessorIs DEF Examined
<1>6. PassedWordsFound'
  <2> SUFFICES ASSUME NEW j \in Slots, IsPlain(patterns[j]), NEW m \in Int,
                      Occurs(patterns[j], m), IsMatch(patterns[j], m), Passed(j, m)'
               PROVE  \E l \in MatchesOf(patterns[j])' : WordOf(l) = WordOf(m)
    BY <1>1, <1>3 DEF PassedWordsFound, IsPlain, OneWord, Examined
  <2> DEFINE y == patterns[j]
  <2>1. y \in PatternSet /\ \A l : l \in MatchesOf(y) => l \in MatchesOf(y)'
    BY <1>1, <1>4 DEF Examined, MatchesOf
  <2>2. CASE Passed(j, m)
    <3>1. PICK l \in MatchesOf(y) : WordOf(l) = WordOf(m)
      BY <1>1, <2>2 DEF Inv, PassedWordsFound, Examined
    <3> QED  BY <2>1, <3>1
  <2>3. CASE ~Passed(j, m)
    <3>1. j = k /\ y = x /\ i <= m /\ (n = None \/ m < n)
      BY <1>1, <2>3 DEF Passed, Examined
    <3>2. m \in i..(Continue(x, i) - 1)
      <4>1. Occurs(x, m) /\ m \in Int
        BY <3>1
      <4>2. i \in Nat /\ n \in Int
        BY <1>1 DEF Examined
      <4>3. Continue(x, i) \in Int
        BY <1>4, <1>5, <4>2
      <4> HIDE DEF x, y, i, n
      <4>4. m < Continue(x, i)
        <5>1. CASE n = None
          BY <1>5, <4>1, <5>1
        <5>2. CASE n # None
          <6>1. Continue(x, i) <= m => n <= m
            BY <1>5, <4>1, <5>2
          <6> QED  BY ONLY <3>1, <4>1, <4>2, <4>3, <5>2, <6>1
        <5> QED  BY <5>1, <5>2
      <4> QED  BY ONLY <3>1, <4>1, <4>2, <4>3, <4>4
    <3>3. WordOf(i) = WordOf(m) /\ IsMatch(x, i)
      BY <1>1, <1>4, <3>1, <3>2, SkippedIsInWord DEF Examined
    <3>4. i \in MatchesOf(y)'
      BY <1>1, <3>1, <3>3 DEF Examined, MatchesOf
    <3> QED  BY <3>3, <3>4
  <2> QED  BY <2>2, <2>3
<1>7. ASSUME NEW j \in Slots, patterns[j] = x, OneWord(x), Passed(j, i), next_positions[j] # None
      PROVE  Continue(x, i) <= next_positions[j]
  <2>1. next_positions[j] = n
    BY <1>7, AheadIsNext DEF OneWord
  <2> QED  BY <1>5, <1>7, <2>1
<1>8. WordsLeft'
  <2> SUFFICES ASSUME NEW j \in Queued', OneWord(patterns[j]), NEW m, m \in MatchesOf(patterns[j])',
                      m < next_positions'[j]
               PROVE  Continue(patterns[j], m) <= next_positions'[j]
    BY <1>1, <1>3 DEF WordsLeft, OneWord, Examined
  <2> DEFINE y == patterns[j]
  <2>1. j \in Slots /\ y \in PatternSet /\ next_positions'[j] # None /\ next_positions'[j] \in Int
    BY <1>1, <1>4 DEF Examined, Queued
  <2>2. m \in MatchesOf(y) \/ (y = x /\ m = i /\ IsMatch(x, i))
    BY <1>1, <2>1 DEF Examined, MatchesOf
  <2>3. CASE j # k
    <3>1. next_positions'[j] = next_positions[j] /\ j \in Queued
      BY <1>1, <2>1, <2>3 DEF Examined
    <3>2. CASE m \in MatchesOf(y)
      BY <3>1, <3>2 DEF Inv, WordsLeft
    <3>3. CASE y = x /\ m = i
      BY <1>7, <2>1, <3>1, <3>3 DEF Passed
    <3> QED  BY <2>2, <3>2, <3>3
  <2>4. CASE j = k
    <3>1. y = x /\ next_positions'[j] = n /\ n # None
      BY <1>1, <2>1, <2>4 DEF Examined
    <3>2. CASE m = i
      BY <1>5, <3>1, <3>2
    <3>3. CASE m # i
      <4>1. m \in MatchesOf(x) /\ m <= i
        BY <1>1, <2>2, <3>1, <3>3 DEF Inv, MatchesComeFirst, Examined
      <4>2. Occurs(x, m) /\ m \in Int
        BY <1>1, <4>1 DEF Inv, MatchesAreRight, Occurs, Examined
      <4>3. Continue(x, m) <= i
        <5>1. m < i
          BY <1>1, <3>3, <4>1, <4>2 DEF Examined
        <5>2. OneWord(x) /\ k \in Queued
          BY <1>1, <2>4 DEF Examined
        <5> QED  BY <4>1, <5>1, <5>2 DEF Inv, WordsLeft
      <4>5. Continue(x, m) \in Int
        BY <1>4, <4>2, SuccessorIs
      <4>4. i \in Int /\ Continue(x, i) \in Int /\ i <= Continue(x, i) /\ Continue(x, i) <= n /\ n \in Int
        BY <1>1, <1>4, <1>5, <3>1 DEF Examined
      <4> QED  BY <3>1, <4>3, <4>4, <4>5
    <3> QED  BY <3>2, <3>3
  <2> QED  BY <2>3, <2>4
<1>9. ASSUME OneWord(x), NEW m \in MatchesOf(x), m # i PROVE WordOf(m) # WordOf(i)
  <2>1. Occurs(x, m) /\ m \in Int /\ m <= i
    BY <1>1 DEF Inv, MatchesAreRight, MatchesComeFirst, Occurs, Examined
  <2>2. m < i
    BY <1>1, <1>9, <2>1 DEF Examined
  <2>3. Continue(x, m) <= i
    BY <1>1, <1>9, <2>2 DEF Inv, WordsLeft, Examined
  <2> QED  BY <1>1, <1>4, <1>9, <2>1, <2>3, BehindIsOtherWord DEF Examined
<1>10. OneMatchPerWord'
  <2> SUFFICES ASSUME NEW y \in PatternSet, OneWord(y), NEW l, l \in MatchesOf(y)',
                      NEW m, m \in MatchesOf(y)', WordOf(l) = WordOf(m)
               PROVE  l = m
    BY <1>1, <1>3 DEF OneMatchPerWord, OneWord, Examined
  <2>1. /\ l \in MatchesOf(y) \/ (y = x /\ l = i)
        /\ m \in MatchesOf(y) \/ (y = x /\ m = i)
    BY <1>1 DEF Examined, MatchesOf
  <2>2. l \in MatchesOf(y) /\ m \in MatchesOf(y) => l = m
    BY DEF Inv, OneMatchPerWord
  <2> QED  BY <1>9, <2>1, <2>2
<1> QED  BY <1>6, <1>8, <1>10

\* When only the phase changes, and not from or to the start, all stays true.
LEMMA PhaseKeeps ==
  ASSUME Inv, (pc = "start") <=> (pc' = "start"),
         UNCHANGED <<s, patterns, next_positions, match_positions>>
  PROVE  Inv'
<1>1. /\ \A x, i : Occurs(x, i)' <=> Occurs(x, i)
      /\ \A x, i : IsMatch(x, i)' <=> IsMatch(x, i)
      /\ \A x, i : Continue(x, i)' = Continue(x, i)
      /\ \A x, i : Successor(x, i)' = Successor(x, i)
      /\ \A i : WordOf(i)' = WordOf(i)
  BY TextStays
<1>2. Slots' = Slots /\ PatternSet' = PatternSet /\ Queued' = Queued
  BY DEF Slots, PatternSet, Queued
<1>3. \A k, i : Passed(k, i)' <=> Passed(k, i)
  BY DEF Passed
<1>4. \A x : MatchesOf(x)' = MatchesOf(x)
  BY DEF MatchesOf
<1>5. \A x, i : TimesOf(x, i)' = TimesOf(x, i) /\ PassedBy(x, i)' = PassedBy(x, i)
  BY <1>2 DEF TimesOf, PassedBy, Passed
<1>6. NothingYet' /\ CandidatesOccur' /\ EmptyNeverEnds'
  BY <1>1, <1>2 DEF Inv, NothingYet, CandidatesOccur, EmptyNeverEnds
<1>7. MatchesAreRight' /\ MatchesComeFirst'
  BY <1>1, <1>2, <1>4 DEF Inv, MatchesAreRight, MatchesComeFirst
<1>8. MatchesAscend'
  BY <1>2 DEF Inv, MatchesAscend
<1>9. Lockstep'
  BY <1>1, <1>2, <1>3, <1>4 DEF Inv, Lockstep
<1>10. ReportedAsOften'
  BY <1>2, <1>4, <1>5 DEF Inv, ReportedAsOften
<1>11. PassedWordsFound'
  BY <1>1, <1>2, <1>3, <1>4 DEF Inv, PassedWordsFound, IsPlain, OneWord
<1>12. WordsLeft' /\ OneMatchPerWord'
  BY <1>1, <1>2, <1>4 DEF Inv, WordsLeft, OneMatchPerWord, OneWord
<1> QED  BY <1>6, <1>7, <1>8, <1>9, <1>10, <1>11, <1>12 DEF Inv

LEMMA SearchInv == Spec => [](TypeInv /\ Inv)
<1>1. Init => TypeInv /\ Inv
  BY InitType, InitInv
<1>2. TypeInv /\ Inv /\ [Next]_vars => (TypeInv /\ Inv)'
  <2> SUFFICES ASSUME TypeInv, Inv, [Next]_vars PROVE TypeInv' /\ Inv'
    OBVIOUS
  <2>1. CASE Initialize
    BY <2>1, InitializeKeeps
  <2>2. ASSUME NEW k \in Slots, Examine(k) PROVE TypeInv' /\ Inv'
    <3>1. TypeInv'
      <4>1. /\ s' = s /\ patterns' = patterns /\ pc' = "search"
            /\ next_positions' \in [Slots -> Int] /\ match_positions' \in [PatternSet -> Seq(Nat)]
        BY <2>2, ExamineEffect DEF Inv
      <4>2. Slots' = Slots /\ PatternSet' = PatternSet
        BY <4>1 DEF Slots, PatternSet
      <4> QED  BY <4>1, <4>2 DEF TypeInv
    <3> QED
      BY <2>2, <3>1, ExamineKeepsOrder, ExamineKeepsPace, ExamineKeepsCounts, ExamineKeepsWords DEF Inv
  <2>3. CASE Return \/ UNCHANGED vars
    <3>1. /\ UNCHANGED <<s, patterns, next_positions, match_positions>>
          /\ (pc = "start") <=> (pc' = "start")
          /\ pc' \in {"start", "search", "done"}
      BY <2>3 DEF Return, vars, TypeInv
    <3>2. TypeInv'
      BY <3>1 DEF TypeInv, Slots, PatternSet
    <3> QED  BY <3>1, <3>2, PhaseKeeps
  <2> QED  BY <2>1, <2>2, <2>3 DEF Next
<1> QED  BY <1>1, <1>2, PTL DEF Spec

\* When find returns nothing is queued.
LEMMA DoneIsDrained == Spec => [](pc = "done" => Queued = {})
<1>1. Init => (pc = "done" => Queued = {})
  BY DEF Init
<1>2. (pc = "done" => Queued = {}) /\ [Next]_vars => (pc = "done" => Queued = {})'
  BY DEF Next, Initialize, Examine, Return, vars, Queued, Slots
<1> QED  BY <1>1, <1>2, PTL DEF Spec

------------------------------------------------------------------------------
(* The theorems. *)

\* What find returns for a pattern are occurrences between borders or
\* wildcards, ascending, each as often as the pattern is listed.
THEOREM PositionsAreRight == Spec => []PositionsAreMatchesInOrder
<1>1. TypeInv /\ Inv /\ (pc = "done" => Queued = {}) => PositionsAreMatchesInOrder
  <2> SUFFICES ASSUME TypeInv, Inv, pc = "done" => Queued = {}, NEW x \in PatternSet
               PROVE  /\ \A i \in MatchesOf(x) : OccursAt(search_string(x), i) /\ IsMatch(x, i)
                      /\ \A j, k \in 1..Len(match_positions[x]) :
                           j < k => match_positions[x][j] <= match_positions[x][k]
                      /\ pc = "done" => \A i \in MatchesOf(x) :
                           Cardinality({k \in 1..Len(match_positions[x]) : match_positions[x][k] = i})
                             = Cardinality({k \in Slots : patterns[k] = x})
    BY DEF PositionsAreMatchesInOrder
  <2>1. \A i \in MatchesOf(x) : OccursAt(search_string(x), i) /\ IsMatch(x, i)
    BY DEF Inv, MatchesAreRight, Occurs
  <2>2. \A j, k \in 1..Len(match_positions[x]) :
          j < k => match_positions[x][j] <= match_positions[x][k]
    BY DEF Inv, MatchesAscend
  <2>3. ASSUME pc = "done", NEW i \in MatchesOf(x)
        PROVE  Cardinality({k \in 1..Len(match_positions[x]) : match_positions[x][k] = i})
                 = Cardinality({k \in Slots : patterns[k] = x})
    <3>1. Queued = {} /\ \A k \in Slots : next_positions[k] = None
      BY <2>3 DEF Queued
    <3>2. search_string(x) # <<>>
      BY <2>3, <3>1 DEF Inv, EmptyNeverEnds, PatternSet
    <3>3. PassedBy(x, i) = {k \in Slots : patterns[k] = x}
      BY <3>1 DEF PassedBy, Passed
    <3> QED  BY <3>2, <3>3 DEF Inv, ReportedAsOften, TimesOf
  <2> QED  BY <2>1, <2>2, <2>3
<1> QED  BY <1>1, SearchInv, DoneIsDrained, PTL

\* Though find leaves a word after its first candidate there, a pattern that is
\* one word has one match in each word it describes, and no other.
THEOREM DescribedWordsAreFound == Spec => []EveryDescribedWordOnce
<1>1. TypeInv /\ Inv /\ (pc = "done" => Queued = {}) => EveryDescribedWordOnce
  <2> SUFFICES ASSUME TypeInv, Inv, pc = "done", Queued = {}, NEW x \in PatternSet, IsPlain(x)
               PROVE  /\ {WordOf(i) : i \in MatchesOf(x)} = Described(x)
                      /\ \A i, j \in MatchesOf(x) : WordOf(i) = WordOf(j) => i = j
    BY DEF EveryDescribedWordOnce, IsPlain
  <2>1. \A i, j \in MatchesOf(x) : WordOf(i) = WordOf(j) => i = j
    BY DEF Inv, OneMatchPerWord, IsPlain
  <2>2. PICK k \in Slots : x = patterns[k] /\ next_positions[k] = None
    BY DEF PatternSet, Queued
  <2>3. Described(x) = {WordOf(i) : i \in {j \in Int : Occurs(x, j) /\ IsMatch(x, j)}}
    BY PatternTypes DEF Described, Occurs, TypeInv
  <2>4. \A i \in MatchesOf(x) : i \in Int /\ Occurs(x, i) /\ IsMatch(x, i)
    BY DEF Inv, MatchesAreRight, Occurs
  <2>5. ASSUME NEW i \in Int, Occurs(x, i), IsMatch(x, i)
        PROVE  \E j \in MatchesOf(x) : WordOf(j) = WordOf(i)
    BY <2>2, <2>5 DEF Inv, PassedWordsFound, Passed
  <2>6. {WordOf(i) : i \in MatchesOf(x)} = Described(x)
    BY <2>3, <2>4, <2>5
  <2> QED  BY <2>1, <2>6
<1> QED  BY <1>1, SearchInv, DoneIsDrained, PTL
------------------------------------------------------------------------------
(* The scans of @ and !@. *)

\* Each position handed to the scan is a natural number.
LEMMA ListElements ==
  ASSUME NEW l \in Inputs
  PROVE  /\ l \in Seq(Nat)
         /\ Len(l) \in Nat
         /\ \A k \in 1..Len(l) : l[k] \in Nat
         /\ \A j, k \in 1..Len(l) : j <= k => l[j] <= l[k]
<1>1. l \in Seq(Nat) /\ Len(l) \in Nat
  BY InputsAssumption
<1>2. \A k \in 1..Len(l) : l[k] \in Nat
  BY <1>1
<1>3. \A j, k \in 1..Len(l) : j <= k => l[j] <= l[k]
  <2> SUFFICES ASSUME NEW j \in 1..Len(l), NEW k \in 1..Len(l), j <= k
               PROVE  l[j] <= l[k]
    OBVIOUS
  <2>1. CASE j = k
    BY <1>2, <2>1
  <2>2. CASE j < k
    BY <2>2, InputsAssumption
  <2> QED  BY <1>1, <2>1, <2>2
<1> QED  BY <1>1, <1>2, <1>3

\* Every variable keeps its type, and bit is only dereferenced inside b.
THEOREM ScanTypeCorrect == ScanSpec => []ScanTypeOK
<1>1. ScanInit => ScanTypeOK
  <2> SUFFICES ASSUME ScanInit PROVE ScanTypeOK
    OBVIOUS
  <2>1. Len(a) \in Nat
    BY ListElements DEF ScanInit
  <2> QED  BY <2>1 DEF ScanInit, ScanTypeOK
<1>2. ScanTypeOK /\ [ScanNext]_scan_vars => ScanTypeOK'
  <2> SUFFICES ASSUME ScanTypeOK, [ScanNext]_scan_vars PROVE ScanTypeOK'
    OBVIOUS
  <2>0. /\ a \in Seq(Nat) /\ Len(a) \in Nat /\ Len(b) \in Nat
        /\ \A k \in 1..Len(a) : a[k] \in Nat
        /\ b # <<>> => Len(b) > 0
    BY ListElements, EmptySeq DEF ScanTypeOK
  <2>1. CASE EmptyB
    BY <2>0, <2>1 DEF ScanTypeOK, EmptyB, scan_inputs
  <2>2. CASE EnterLoop
    BY <2>0, <2>2 DEF ScanTypeOK, EnterLoop, scan_inputs
  <2>3. CASE Advance
    BY <2>0, <2>3 DEF ScanTypeOK, Advance, Lagging, scan_inputs
  <2>4. CASE Decide
    <3>1. a[ait] \in Nat /\ ait + 1 \in 1..(Len(a) + 1)
      BY <2>0, <2>4 DEF ScanTypeOK, Decide
    <3>2. c' \in Seq(Nat)
      BY <2>4, <3>1 DEF ScanTypeOK, Decide
    <3> QED  BY <2>0, <2>4, <3>1, <3>2 DEF ScanTypeOK, Decide, scan_inputs
  <2>5. CASE ReturnList
    BY <2>0, <2>5 DEF ScanTypeOK, ReturnList, scan_inputs
  <2>6. CASE UNCHANGED scan_vars
    BY <2>6 DEF ScanTypeOK, scan_vars, scan_inputs
  <2> QED  BY <2>1, <2>2, <2>3, <2>4, <2>5, <2>6 DEF ScanNext
<1> QED  BY <1>1, <1>2, PTL DEF ScanSpec

\* The elements of b behind bit can match no element of a still to come:
\* moving bit forward only loses nothing.
THEOREM ScanPassedAreOutOfReach == ScanSpec => []PassedOutOfReach
<1>1. ScanInit => PassedOutOfReach
  BY DEF ScanInit, PassedOutOfReach
<1>2. ScanTypeOK /\ PassedOutOfReach /\ [ScanNext]_scan_vars => PassedOutOfReach'
  <2> SUFFICES ASSUME ScanTypeOK, PassedOutOfReach, [ScanNext]_scan_vars
               PROVE  PassedOutOfReach'
    OBVIOUS
  <2>0. /\ Len(a) \in Nat /\ Len(b) \in Nat
        /\ \A k \in 1..Len(a) : a[k] \in Nat
        /\ \A j, k \in 1..Len(a) : j <= k => a[j] <= a[k]
        /\ \A k \in 1..Len(b) : b[k] \in Nat
        /\ distance \in Nat
    BY ListElements, DistancesAssumption DEF ScanTypeOK
  <2>1. CASE EmptyB
    BY <2>0, <2>1 DEF PassedOutOfReach, EmptyB, scan_inputs, ScanTypeOK
  <2>2. CASE EnterLoop
    BY <2>2 DEF PassedOutOfReach, EnterLoop, scan_inputs
  <2>3. CASE Advance
    <3> SUFFICES ASSUME NEW k \in 1..(bit' - 1), NEW j \in ait..Len(a)
                 PROVE  a[j] - b[k] > distance
      BY <2>3 DEF PassedOutOfReach, Advance, scan_inputs
    <3>1. CASE k = bit
      <4>1. /\ ait \in 1..Len(a) /\ j \in 1..Len(a) /\ bit \in 1..Len(b)
            /\ a[ait] - b[bit] > distance
        BY <2>0, <2>3 DEF ScanTypeOK, Advance, Lagging
      <4>2. a[ait] <= a[j]
        BY <2>0, <4>1
      <4> QED  BY <2>0, <3>1, <4>1, <4>2
    <3>2. CASE k # bit
      <4>1. k \in 1..(bit - 1)
        BY <2>3, <3>2 DEF Advance, ScanTypeOK
      <4> QED  BY <4>1 DEF PassedOutOfReach
    <3> QED  BY <3>1, <3>2
  <2>4. CASE Decide
    <3>1. /\ bit' = bit /\ a' = a /\ b' = b /\ distance' = distance
          /\ \A j \in ait'..Len(a) : j \in ait..Len(a)
      BY <2>0, <2>4 DEF Decide, scan_inputs, ScanTypeOK
    <3> QED  BY <3>1 DEF PassedOutOfReach
  <2>5. CASE ReturnList
    BY <2>5 DEF PassedOutOfReach, ReturnList, scan_inputs
  <2>6. CASE UNCHANGED scan_vars
    BY <2>6 DEF PassedOutOfReach, scan_vars, scan_inputs
  <2> QED  BY <2>1, <2>2, <2>3, <2>4, <2>5, <2>6 DEF ScanNext
<1> QED  BY <1>1, <1>2, ScanTypeCorrect, PTL DEF ScanSpec

------------------------------------------------------------------------------
\* When the inner while stops, the one element bit points at decides for all
\* of b: a[ait] has a neighbour in b exactly when b[bit] is one.
LEMMA OneComparisonDecides ==
  ASSUME ScanTypeOK, PassedOutOfReach, at = "scan", ait <= Len(a), ~Lagging
  PROVE  Within(a[ait], b[bit], distance) <=> Promise!HasNeighbour(a[ait])
<1>0. /\ Len(a) \in Nat /\ Len(b) \in Nat /\ distance \in Nat
      /\ ait \in 1..Len(a) /\ bit \in 1..Len(b)
      /\ a[ait] \in Nat
      /\ \A k \in 1..Len(b) : b[k] \in Nat
      /\ \A j, k \in 1..Len(b) : j <= k => b[j] <= b[k]
  BY ListElements, DistancesAssumption DEF ScanTypeOK
<1>1. Within(a[ait], b[bit], distance) => Promise!HasNeighbour(a[ait])
  BY <1>0 DEF Promise!HasNeighbour, Within
<1>2. ASSUME NEW k \in 1..Len(b), Promise!Within(a[ait], b[k], distance)
      PROVE  Within(a[ait], b[bit], distance)
  <2>1. k >= bit
    <3> SUFFICES ASSUME k < bit PROVE FALSE
      BY <1>0
    <3>1. a[ait] - b[k] > distance
      BY <1>0 DEF PassedOutOfReach
    <3> QED  BY <1>0, <1>2, <3>1 DEF Promise!Within, Promise!Abs
  <2>2. b[bit] <= b[k]
    BY <1>0, <2>1
  <2>3. CASE bit = Len(b)
    BY <1>0, <1>2, <2>1, <2>3 DEF Within
  <2>4. CASE b[bit] >= a[ait]
    BY <1>0, <1>2, <2>2, <2>4 DEF Within, Promise!Within, Promise!Abs
  <2>5. CASE b[bit] < a[ait] /\ a[ait] - b[bit] <= distance
    BY <1>0, <2>5 DEF Within, Promise!Within, Promise!Abs
  <2> QED  BY <1>0, <2>3, <2>4, <2>5 DEF Lagging
<1> QED  BY <1>1, <1>2 DEF Promise!HasNeighbour

\* With an empty b nothing has a neighbour.
LEMMA EmptyBDecides ==
  ASSUME b = <<>>, negated \in BOOLEAN
  PROVE  \A x : Promise!Keep(x) <=> negated
<1> SUFFICES ASSUME NEW x PROVE Promise!Keep(x) <=> negated
  OBVIOUS
<1>1. Promise!HasNeighbour(x) = FALSE
  BY DEF Promise!HasNeighbour
<1> QED  BY <1>1, Zenon DEF Promise!Keep

\* Decide keeps an element exactly when ProximityFilter does.
LEMMA DecideKeeps ==
  ASSUME ScanTypeOK, PassedOutOfReach, Decide
  PROVE  c' = IF Promise!Keep(a[ait]) THEN Append(c, a[ait]) ELSE c
<1>1. Within(a[ait], b[bit], distance) <=> Promise!HasNeighbour(a[ait])
  BY OneComparisonDecides DEF Decide
<1>2. /\ Within(a[ait], b[bit], distance) \in BOOLEAN
      /\ Promise!HasNeighbour(a[ait]) \in BOOLEAN
  BY DEF Within, Promise!Within, Promise!HasNeighbour
<1>3. (Within(a[ait], b[bit], distance) # negated) <=> Promise!Keep(a[ait])
  BY <1>1, <1>2 DEF Promise!Keep
<1> QED  BY <1>3 DEF Decide

\* nearv and notnearv refine ProximityFilter: advancing bit is invisible, and
\* every decision is the promised one, in order.
THEOREM ScanImplementsFilter == ScanSpec => ImplementsFilter
<1>1. ScanInit => Promise!Init
  BY DEF ScanInit, Promise!Init
<1>2. ScanTypeOK /\ PassedOutOfReach /\ [ScanNext]_scan_vars => [Promise!Next]_(Promise!vars)
  <2> SUFFICES ASSUME ScanTypeOK, PassedOutOfReach, [ScanNext]_scan_vars
               PROVE  Promise!Next \/ UNCHANGED Promise!vars
    OBVIOUS
  <2> USE DEF scan_inputs, Promise!inputs, Promise!vars
  <2>1. CASE EmptyB
    <3>1. ait = 1 /\ c = <<>> /\ negated \in BOOLEAN
      BY <2>1 DEF EmptyB, ScanTypeOK
    <3>2. CASE negated
      BY <2>1, <3>1, <3>2, EmptyBDecides DEF EmptyB, Promise!Next, Promise!TakeAll
    <3>3. CASE ~negated
      BY <2>1, <3>1, <3>3, EmptyBDecides DEF EmptyB, Promise!Next, Promise!DropAll
    <3> QED  BY <3>2, <3>3
  <2>2. CASE EnterLoop
    BY <2>2 DEF EnterLoop
  <2>3. CASE Advance
    BY <2>3 DEF Advance
  <2>4. CASE Decide
    <3>1. ait \in 1..Len(a)
      BY <2>4, ListElements DEF Decide, ScanTypeOK
    <3>2. CASE Promise!Keep(a[ait])
      BY <2>4, <3>1, <3>2, DecideKeeps DEF Decide, Promise!Next, Promise!Take
    <3>3. CASE ~Promise!Keep(a[ait])
      BY <2>4, <3>1, <3>3, DecideKeeps DEF Decide, Promise!Next, Promise!Drop
    <3> QED  BY <3>2, <3>3
  <2>5. CASE ReturnList
    BY <2>5 DEF ReturnList
  <2>6. CASE UNCHANGED scan_vars
    BY <2>6 DEF scan_vars
  <2> QED  BY <2>1, <2>2, <2>3, <2>4, <2>5, <2>6 DEF ScanNext
<1> QED
  BY <1>1, <1>2, ScanTypeCorrect, ScanPassedAreOutOfReach, PTL
  DEF ScanSpec, ImplementsFilter, Promise!Spec

\* The list is right after every decision, hence when it is returned.
THEOREM ScanResultCorrect == ScanSpec => [](FilterSoFar /\ ResultIsFilter)
<1>1. ScanInit => FilterSoFar
  BY DEF ScanInit, FilterSoFar, FilterOf
<1>2. ScanTypeOK /\ PassedOutOfReach /\ FilterSoFar /\ [ScanNext]_scan_vars => FilterSoFar'
  <2> SUFFICES ASSUME ScanTypeOK, PassedOutOfReach, FilterSoFar, [ScanNext]_scan_vars
               PROVE  FilterSoFar'
    OBVIOUS
  <2>0. /\ a \in Seq(Nat) /\ Len(a) \in Nat
        /\ \A k \in 1..Len(a) : a[k] \in Nat
        /\ c \in Seq(Nat) /\ Len(c) \in Nat /\ ait \in 1..(Len(a) + 1)
    <3>1. a \in Inputs /\ c \in Seq(Nat) /\ ait \in 1..(Len(a) + 1)
      BY DEF ScanTypeOK
    <3>2. a \in Seq(Nat) /\ \A k \in 1..Len(a) : a[k] \in Nat
      BY <3>1, ListElements
    <3> QED  BY ONLY <3>1, <3>2
  <2>1. /\ <<a, b, distance, negated>>' = <<a, b, distance, negated>>
        /\ \A x : Promise!Keep(x)' <=> Promise!Keep(x)
    <3>1. <<a, b, distance, negated>>' = <<a, b, distance, negated>>
      BY DEF ScanNext, EmptyB, EnterLoop, Advance, Decide, ReturnList, scan_vars, scan_inputs
    <3> QED  BY <3>1 DEF Promise!Keep, Promise!HasNeighbour
  <2>2. CASE EmptyB
    <3>1. ait = 1 /\ c = <<>> /\ ait' = Len(a) + 1 /\ negated \in BOOLEAN
      BY <2>2 DEF EmptyB, ScanTypeOK
    <3>2. \A x : Promise!Keep(x) <=> negated
      BY <2>2, <3>1, EmptyBDecides DEF EmptyB
    <3>3. c' = a \/ (c' = <<>> /\ ~negated)
      BY <2>2 DEF EmptyB
    <3>4. c' = a => negated \/ a = <<>>
      BY <2>2 DEF EmptyB
    <3> QED  BY <2>0, <2>1, <3>1, <3>2, <3>3, <3>4 DEF FilterSoFar, FilterOf
  <2>3. CASE EnterLoop \/ Advance \/ ReturnList \/ UNCHANGED scan_vars
    <3>1. c' = c /\ ait' = ait /\ (at' = "done" => ait' = Len(a) + 1)
      BY <2>0, <2>3 DEF EnterLoop, Advance, ReturnList, scan_vars, FilterSoFar
    <3>2. a' = a /\ FilterOf(ait - 1)
      BY <2>1 DEF FilterSoFar
    <3>3. FilterOf(ait - 1)'
      BY <2>1, <3>1, <3>2, Zenon DEF FilterOf
    <3> QED  BY <3>1, <3>2, <3>3 DEF FilterSoFar
  <2>4. CASE Decide
    <3>1. /\ ait' = ait + 1 /\ ait \in 1..Len(a) /\ at' = "scan"
          /\ a[ait] \in Nat
      BY <2>0, <2>4 DEF Decide
    <3>2. CASE Promise!Keep(a[ait])
      <4>1. c' = Append(c, a[ait])
        BY <2>4, <3>2, DecideKeeps
      <4>2. /\ Len(c') = Len(c) + 1 /\ c'[Len(c) + 1] = a[ait]
            /\ \A k \in 1..Len(c) : c'[k] = c[k]
        BY <2>0, <3>1, <4>1, AppendProperties
      <4>3. \A k \in 1..Len(c') : \E j \in 1..ait : Promise!Keep(a[j]) /\ c'[k] = a[j]
        <5> SUFFICES ASSUME NEW k \in 1..Len(c')
                     PROVE  \E j \in 1..ait : Promise!Keep(a[j]) /\ c'[k] = a[j]
          OBVIOUS
        <5>1. CASE k = Len(c) + 1
          BY <3>1, <3>2, <4>2, <5>1
        <5>2. CASE k \in 1..Len(c)
          <6>1. PICK j \in 1..(ait - 1) : Promise!Keep(a[j]) /\ c[k] = a[j]
            BY <5>2 DEF FilterSoFar, FilterOf
          <6>2. j \in 1..ait
            BY <3>1
          <6> QED  BY <4>2, <5>2, <6>1, <6>2
        <5> QED  BY <2>0, <4>2, <5>1, <5>2
      <4>4. \A j \in 1..ait : Promise!Keep(a[j]) => \E k \in 1..Len(c') : c'[k] = a[j]
        <5> SUFFICES ASSUME NEW j \in 1..ait, Promise!Keep(a[j])
                     PROVE  \E k \in 1..Len(c') : c'[k] = a[j]
          OBVIOUS
        <5>1. CASE j = ait
          BY <2>0, <4>2, <5>1
        <5>2. CASE j \in 1..(ait - 1)
          <6>1. PICK k \in 1..Len(c) : c[k] = a[j]
            BY <5>2 DEF FilterSoFar, FilterOf
          <6> QED  BY <2>0, <4>2, <6>1
        <5> QED  BY <3>1, <5>1, <5>2
      <4>5. ait' - 1 = ait
        BY <3>1
      <4> QED  BY <2>1, <3>1, <4>3, <4>4, <4>5 DEF FilterSoFar, FilterOf
    <3>3. CASE ~Promise!Keep(a[ait])
      <4>1. c' = c
        BY <2>4, <3>3, DecideKeeps
      <4> QED  BY <2>0, <2>1, <3>1, <3>3, <4>1, SMTT(30) DEF FilterSoFar, FilterOf
    <3> QED  BY <3>2, <3>3
  <2> QED  BY <2>2, <2>3, <2>4 DEF ScanNext
<1>3. ScanTypeOK /\ FilterSoFar => ResultIsFilter
  <2> SUFFICES ASSUME ScanTypeOK, FilterSoFar, at = "done" PROVE FilterOf(Len(a))
    BY DEF ResultIsFilter
  <2>1. ait - 1 = Len(a)
    BY ListElements DEF FilterSoFar, ScanTypeOK
  <2> QED  BY <2>1 DEF FilterSoFar
<1> QED  BY <1>1, <1>2, <1>3, ScanTypeCorrect, ScanPassedAreOutOfReach, PTL DEF ScanSpec
------------------------------------------------------------------------------
(* Position lists: what the operators return is ascending. *)

IsList(l) == l \in Seq(Nat) /\ Ascending(l)

\* Not only neighbours ascend.
LEMMA AllAscend ==
  ASSUME NEW l, IsList(l), NEW j \in 1..Len(l), NEW k \in 1..Len(l), j <= k
  PROVE  l[j] <= l[k]
<1> DEFINE Bad == {m \in Nat : m <= Len(l) /\ j <= m /\ l[j] > l[m]}
<1>1. l \in Seq(Nat) /\ Len(l) \in Nat /\ \A m \in 1..Len(l) : l[m] \in Nat
  BY DEF IsList
<1>2. CASE Bad = {}
  <2>1. k \in Nat /\ k <= Len(l) /\ k \notin Bad
    <3> HIDE DEF Bad
    <3> QED  BY <1>1, <1>2
  <2>2. l[j] \in Nat /\ l[k] \in Nat /\ ~(l[j] > l[k])
    BY <1>1, <2>1
  <2> QED  BY <2>2
<1>3. CASE Bad # {}
  <2>1. Bad \subseteq Nat
    OBVIOUS
  <2>2. PICK m \in Bad : \A n \in Bad : m <= n
    <3> HIDE DEF Bad
    <3> QED  BY <1>3, <2>1, LeastNumber
  <2>3. m # j /\ m \in 2..Len(l) /\ m - 1 \in 1..(Len(l) - 1)
    BY <1>1, <2>2
  <2>4. l[j] <= l[m - 1]
    <3>1. m - 1 \in Nat /\ m - 1 <= Len(l) /\ j <= m - 1 /\ ~(m <= m - 1)
      BY <1>1, <2>2, <2>3
    <3>2. m - 1 \notin Bad
      <4> HIDE DEF Bad
      <4> QED  BY <2>2, <3>1
    <3>3. l[j] \in Nat /\ l[m - 1] \in Nat
      BY <1>1, <2>3
    <3> QED  BY <3>1, <3>2, <3>3
  <2>5. l[m - 1] <= l[m]
    BY <2>3 DEF IsList, Ascending
  <2>6. l[j] > l[m]
    BY <2>2
  <2>7. l[j] \in Nat /\ l[m - 1] \in Nat /\ l[m] \in Nat
    BY <1>1, <2>3
  <2> QED  BY ONLY <2>4, <2>5, <2>6, <2>7
<1> QED  BY <1>2, <1>3

\* f is the list KeptOf builds, place after place.
Keeps(f, l, places) ==
  /\ f \in [0..Len(l) -> Seq(Nat)]
  /\ f[0] = <<>>
  /\ \A n \in 1..Len(l) : f[n] = IF n \in places THEN Append(f[n - 1], l[n]) ELSE f[n - 1]

LEMMA KeptIs ==
  ASSUME NEW l \in Seq(Nat), NEW places
  PROVE  \E f : Keeps(f, l, places) /\ KeptOf(l, places) = f[Len(l)]
<1> DEFINE N == Len(l)
           Step(f, n) == IF n \in places THEN Append(f[n - 1], l[n]) ELSE f[n - 1]
           Upto(f, m) == f[0] = <<>> /\ \A n \in 1..m : f[n] = Step(f, n)
           Bad == {m \in 0..N : ~\E f \in [0..m -> Seq(Nat)] : Upto(f, m)}
           Is(f) == f = [n \in 0..N |-> IF n = 0 THEN <<>> ELSE Step(f, n)]
           kept == CHOOSE f : Is(f)
<1>1. N \in Nat /\ \A n \in 1..N : l[n] \in Nat
  OBVIOUS
<1>2. Bad = {}
  <2> SUFFICES ASSUME Bad # {} PROVE FALSE
    OBVIOUS
  <2>1. PICK m \in Bad : \A n \in Bad : m <= n
    <3>1. Bad \subseteq Nat
      BY <1>1
    <3> HIDE DEF Bad
    <3> QED  BY <3>1, LeastNumber
  <2>2. m \in 0..N /\ ~\E f \in [0..m -> Seq(Nat)] : Upto(f, m)
    BY <2>1
  <2>3. CASE m = 0
    <3> DEFINE f == [n \in 0..0 |-> <<>>]
    <3>1. f \in [0..m -> Seq(Nat)] /\ f[0] = <<>> /\ 1..m = {}
      BY <2>3
    <3> QED  BY <2>2, <3>1
  <2>4. CASE m # 0
    <3>1. m - 1 \in 0..N /\ m - 1 \notin Bad
      <4>1. m - 1 \in 0..N /\ ~(m <= m - 1)
        BY <1>1, <2>2, <2>4
      <4> HIDE DEF Bad
      <4> QED  BY <2>1, <4>1
    <3>2. PICK h \in [0..(m - 1) -> Seq(Nat)] : Upto(h, m - 1)
      BY <3>1
    <3> DEFINE f == [n \in 0..m |-> IF n = m THEN Step(h, m) ELSE h[n]]
    <3>3. Step(h, m) \in Seq(Nat) /\ m \in 1..N
      <4>1. m - 1 \in 0..(m - 1) /\ m \in 1..N
        BY <1>1, <2>2, <2>4
      <4>2. h[m - 1] \in Seq(Nat) /\ l[m] \in Nat
        BY <1>1, <4>1
      <4> QED  BY <4>1, <4>2
    <3>4. f \in [0..m -> Seq(Nat)]
      <4>1. \A n \in 0..m : n = m \/ n \in 0..(m - 1)
        BY <3>3, <1>1
      <4> HIDE DEF Step
      <4> QED  BY <3>2, <3>3, <4>1
    <3>5. f[0] = <<>>
      BY <3>2, <3>3
    <3>6. ASSUME NEW n \in 1..m PROVE f[n] = Step(f, n)
      <4>1. f[n - 1] = h[n - 1]
        BY <3>3, <1>1
      <4>2. CASE n = m
        BY <4>1, <4>2
      <4>3. CASE n # m
        <5>1. n \in 1..(m - 1) /\ f[n] = h[n]
          BY <3>3, <1>1, <4>3
        <5> QED  BY <3>2, <4>1, <5>1
      <4> QED  BY <4>2, <4>3
    <3> HIDE DEF f, Step
    <3> QED  BY <2>2, <3>4, <3>5, <3>6
  <2> QED  BY <2>3, <2>4
<1>3. PICK g \in [0..N -> Seq(Nat)] : Upto(g, N)
  <2>1. N \notin Bad /\ N \in 0..N
    <3> HIDE DEF Bad
    <3> QED  BY <1>1, <1>2
  <2> QED  BY <2>1
<1>4. KeptOf(l, places) = kept[N]
  BY DEF KeptOf
<1>5. Is(kept)
  <2>1. Is(g)
    <3>1. g = [n \in 0..N |-> g[n]]
      BY <1>3
    <3>2. ASSUME NEW n \in 0..N PROVE g[n] = IF n = 0 THEN <<>> ELSE Step(g, n)
      <4>1. n # 0 => n \in 1..N
        BY <1>1
      <4> HIDE DEF N, Step
      <4> QED  BY <1>3, <4>1
    <3> HIDE DEF N, Step
    <3> QED  BY <3>1, <3>2
  <2> HIDE DEF Is
  <2> QED  BY <2>1
<1>6. \A n \in 0..N : kept[n] = IF n = 0 THEN <<>> ELSE Step(kept, n)
  <2> HIDE DEF kept, Step
  <2> QED  BY <1>5, Zenon
<1> HIDE DEF kept, Is
<1>7. \A n \in 0..N : kept[n] = g[n]
  <2> DEFINE Off == {n \in 0..N : kept[n] # g[n]}
  <2> SUFFICES ASSUME Off # {} PROVE FALSE
    OBVIOUS
  <2>1. PICK n \in Off : \A k \in Off : n <= k
    <3>1. Off \subseteq Nat
      BY <1>1
    <3> HIDE DEF Off
    <3> QED  BY <3>1, LeastNumber
  <2>2. n # 0 /\ n \in 1..N /\ n - 1 \in 0..N
    BY <1>1, <1>3, <1>6, <2>1
  <2>3. kept[n - 1] = g[n - 1]
    <3>1. ~(n <= n - 1)
      BY <2>2
    <3>2. n - 1 \notin Off
      <4> HIDE DEF Off
      <4> QED  BY <2>1, <3>1
    <3> QED  BY <2>2, <3>2
  <2> QED  BY <1>1, <1>3, <1>6, <2>1, <2>2, <2>3
<1>8. Keeps(g, l, places)
  BY <1>3 DEF Keeps
<1>9. kept[N] = g[N]
  BY <1>1, <1>7
<1> HIDE DEF N
<1> QED  BY <1>4, <1>8, <1>9 DEF N

\* What is kept of an ascending list ascends.
LEMMA KeptAscends ==
  ASSUME NEW l, IsList(l), NEW places
  PROVE  IsList(KeptOf(l, places))
<1>1. l \in Seq(Nat) /\ Len(l) \in Nat /\ \A n \in 1..Len(l) : l[n] \in Nat
  BY DEF IsList
<1>2. PICK f : Keeps(f, l, places) /\ KeptOf(l, places) = f[Len(l)]
  BY <1>1, KeptIs
<1> DEFINE Good(n) == /\ Ascending(f[n])
                      /\ \A k \in 1..Len(f[n]) : \E j \in 1..n : f[n][k] = l[j]
           Bad == {n \in 0..Len(l) : ~Good(n)}
<1>3. Bad = {}
  <2> SUFFICES ASSUME Bad # {} PROVE FALSE
    OBVIOUS
  <2>1. PICK n \in Bad : \A m \in Bad : n <= m
    <3>1. Bad \subseteq Nat
      BY <1>1
    <3> HIDE DEF Bad
    <3> QED  BY <3>1, LeastNumber
  <2>2. n \in 0..Len(l) /\ ~Good(n)
    BY <2>1
  <2>3. n # 0
    BY <1>2, <2>2 DEF Keeps, Ascending
  <2>4. n \in 1..Len(l) /\ n - 1 \in 0..Len(l) /\ ~(n <= n - 1)
    BY <1>1, <2>2, <2>3
  <2>5. Good(n - 1)
    <3>1. n - 1 \notin Bad
      <4> HIDE DEF Bad
      <4> QED  BY <2>1, <2>4
    <3> QED  BY <2>4, <3>1
  <2> DEFINE g == f[n - 1]
  <2>6. g \in Seq(Nat) /\ Len(g) \in Nat /\ \A k \in 1..Len(g) : g[k] \in Nat
    <3>1. g \in Seq(Nat)
      BY <1>2, <2>4 DEF Keeps
    <3> HIDE DEF g
    <3> QED  BY <3>1
  <2>7. CASE n \notin places
    <3>1. f[n] = g
      BY <1>2, <2>4, <2>7 DEF Keeps
    <3>2. \A j \in 1..(n - 1) : j \in 1..n
      BY <2>4
    <3> QED  BY <2>2, <2>5, <3>1, <3>2
  <2>8. CASE n \in places
    <3>1. f[n] = Append(g, l[n])
      BY <1>2, <2>4, <2>8 DEF Keeps
    <3>2. /\ Len(f[n]) = Len(g) + 1 /\ f[n][Len(g) + 1] = l[n]
          /\ \A k \in 1..Len(g) : f[n][k] = g[k]
      BY <1>1, <2>4, <2>6, <3>1, AppendProperties
    <3>3. \A k \in 1..Len(g) : g[k] <= l[n]
      <4> SUFFICES ASSUME NEW k \in 1..Len(g) PROVE g[k] <= l[n]
        OBVIOUS
      <4>1. PICK j \in 1..(n - 1) : g[k] = l[j]
        BY <2>5
      <4>2. j \in 1..Len(l) /\ j <= n
        BY <1>1, <2>4
      <4> QED  BY <2>4, <4>1, <4>2, AllAscend
    <3>4. Ascending(f[n])
      <4> SUFFICES ASSUME NEW k \in 1..(Len(f[n]) - 1) PROVE f[n][k] <= f[n][k + 1]
        BY DEF Ascending
      <4>1. k \in 1..Len(g)
        BY <2>6, <3>2
      <4>2. CASE k = Len(g)
        BY <2>6, <3>2, <3>3, <4>1, <4>2
      <4>3. CASE k # Len(g)
        <5>1. k + 1 \in 1..Len(g) /\ k \in 1..(Len(g) - 1)
          BY <2>6, <4>1, <4>3
        <5>2. g[k] <= g[k + 1]
          BY <2>5, <5>1 DEF Ascending
        <5> HIDE DEF g
        <5> QED  BY <3>2, <4>1, <5>1, <5>2
      <4> QED  BY <4>2, <4>3
    <3>5. ASSUME NEW k \in 1..Len(f[n]) PROVE \E j \in 1..n : f[n][k] = l[j]
      <4>1. CASE k = Len(g) + 1
        <5>1. n \in 1..n /\ f[n][k] = l[n]
          BY <2>4, <3>2, <4>1
        <5> QED  BY <5>1
      <4>2. CASE k # Len(g) + 1
        <5>1. k \in 1..Len(g)
          BY <2>6, <3>2, <4>2
        <5>2. PICK j \in 1..(n - 1) : g[k] = l[j]
          BY <2>5, <5>1
        <5>3. j \in 1..n
          BY <2>4
        <5>4. f[n][k] = l[j]
          <6> HIDE DEF g
          <6> QED  BY <3>2, <5>1, <5>2
        <5> QED  BY <5>3, <5>4
      <4> QED  BY <4>1, <4>2
    <3> QED  BY <2>2, <3>4, <3>5
  <2> QED  BY <2>7, <2>8
<1>4. Good(Len(l)) /\ f[Len(l)] \in Seq(Nat)
  <2>1. Len(l) \in 0..Len(l)
    BY <1>1
  <2> QED  BY <1>2, <1>3, <2>1 DEF Keeps
<1> QED  BY <1>2, <1>4 DEF IsList
\* Element j of l is sorted in front of element k, or is the same.
Before(l, j, k) == l[j] < l[k] \/ (l[j] = l[k] /\ j <= k)

LEMMA RankIs ==
  ASSUME NEW l \in Seq(Nat)
  PROVE  /\ \A k \in 1..Len(l) : Rank(l, k) \in 1..Len(l)
         /\ \A j, k \in 1..Len(l) : j # k /\ Before(l, j, k) => Rank(l, j) < Rank(l, k)
<1> DEFINE InFront(k) == {j \in 1..Len(l) : Before(l, j, k)}
<1>1. Len(l) \in Nat /\ \A n \in 1..Len(l) : l[n] \in Nat
  OBVIOUS
<1>2. IsFiniteSet(1..Len(l)) /\ Cardinality(1..Len(l)) = Len(l)
  BY <1>1, FS_Interval
<1>3. ASSUME NEW k \in 1..Len(l)
      PROVE  /\ IsFiniteSet(InFront(k)) /\ Rank(l, k) = Cardinality(InFront(k))
             /\ Cardinality(InFront(k)) \in 1..Len(l)
  <2>1. InFront(k) \in SUBSET (1..Len(l)) /\ k \in InFront(k)
    BY <1>1 DEF Before
  <2>2. Rank(l, k) = Cardinality(InFront(k))
    BY DEF Rank, Before
  <2> HIDE DEF InFront
  <2>3. IsFiniteSet(InFront(k)) /\ Cardinality(InFront(k)) <= Len(l)
    BY <1>2, <2>1, FS_Subset
  <2>4. Cardinality(InFront(k)) \in Nat /\ Cardinality(InFront(k)) # 0
    BY <2>1, <2>3, FS_CardinalityType, FS_EmptySet
  <2> QED  BY <1>1, <2>2, <2>3, <2>4
<1>4. ASSUME NEW j \in 1..Len(l), NEW k \in 1..Len(l), j # k, Before(l, j, k)
      PROVE  Rank(l, j) < Rank(l, k)
  <2>1. InFront(j) \in SUBSET InFront(k)
    BY <1>1, <1>4 DEF Before
  <2>2. k \in InFront(k) /\ k \notin InFront(j)
    BY <1>1, <1>4 DEF Before
  <2> HIDE DEF InFront
  <2>3. Cardinality(InFront(j)) # Cardinality(InFront(k))
    BY <1>3, <2>1, <2>2, FS_Subset
  <2>4. Cardinality(InFront(j)) <= Cardinality(InFront(k))
    BY <1>3, <2>1, FS_Subset
  <2> QED  BY <1>1, <1>3, <2>3, <2>4
<1> QED  BY <1>3, <1>4

\* Each place has its element, and the list sorted ascends.
LEMMA SortedAscends ==
  ASSUME NEW l \in Seq(Nat)
  PROVE  IsList(Sorted(l))
<1> DEFINE N == Len(l)
           r == [k \in 1..N |-> Rank(l, k)]
           At(n) == CHOOSE k \in 1..N : Rank(l, k) = n
<1>1. N \in Nat /\ \A n \in 1..N : l[n] \in Nat
  OBVIOUS
<1>2. \A k \in 1..N : Rank(l, k) \in 1..N
  BY RankIs
<1>3. ASSUME NEW j \in 1..N, NEW k \in 1..N, j # k PROVE Rank(l, j) # Rank(l, k)
  <2>1. Before(l, j, k) \/ Before(l, k, j)
    BY <1>1 DEF Before
  <2>2. Rank(l, j) < Rank(l, k) \/ Rank(l, k) < Rank(l, j)
    BY <1>3, <2>1, RankIs
  <2> QED  BY <1>2, <2>2
<1>4. r \in Surjection(1..N, 1..N)
  <2>1. r \in Injection(1..N, 1..N)
    BY <1>2, <1>3 DEF Injection, IsInjective
  <2>2. IsFiniteSet(1..N)
    BY <1>1, FS_Interval
  <2> HIDE DEF r
  <2> QED  BY <2>1, <2>2, FS_Injection
<1>5. ASSUME NEW n \in 1..N PROVE At(n) \in 1..N /\ Rank(l, At(n)) = n
  <2>1. PICK k \in 1..N : r[k] = n
    BY <1>4 DEF Surjection
  <2> QED  BY <2>1
<1>6. Sorted(l) = [n \in 1..N |-> l[At(n)]]
  BY DEF Sorted
<1> HIDE DEF At, r
<1>7. Sorted(l) \in Seq(Nat) /\ Len(Sorted(l)) = N
  <2>1. \A n \in 1..N : l[At(n)] \in Nat
    BY <1>1, <1>5
  <2> HIDE DEF N
  <2> QED  BY <1>1, <1>6, <2>1
<1>8. ASSUME NEW n \in 1..(N - 1) PROVE Sorted(l)[n] <= Sorted(l)[n + 1]
  <2>1. n \in 1..N /\ n + 1 \in 1..N /\ ~(n + 1 < n) /\ n # n + 1
    BY <1>1
  <2>2. At(n) # At(n + 1) /\ ~Before(l, At(n + 1), At(n))
    BY <1>5, <2>1, RankIs
  <2>3. l[At(n)] \in Nat /\ l[At(n + 1)] \in Nat
    BY <1>1, <1>5, <2>1
  <2>4. l[At(n)] <= l[At(n + 1)]
    BY <2>2, <2>3 DEF Before
  <2> QED  BY <1>6, <2>1, <2>4
<1> QED  BY <1>7, <1>8 DEF IsList, Ascending

\* Every operator of the query language returns an ascending list.
LEMMA ApplyAscends ==
  ASSUME NEW op, NEW l, IsList(l), NEW m, IsList(m)
  PROVE  IsList(Apply(op, l, m))
<1>1. l \in Seq(Nat) /\ m \in Seq(Nat) /\ l \o m \in Seq(Nat)
  BY ConcatProperties DEF IsList
<1>2. IsList(<<>>)
  BY DEF IsList, Ascending
<1>3. IsList(orv(l, m))
  BY <1>1, SortedAscends DEF orv
<1>4. IsList(andv(l, m)) /\ IsList(notandv(l, m))
  BY <1>2, <1>3 DEF andv, notandv
<1>5. IsList(nearv(l, m, Distance(op))) /\ IsList(notnearv(l, m, Distance(op)))
  BY KeptAscends DEF nearv, notnearv
<1> DEFINE R1 == andv(l, m)
           R2 == notandv(l, m)
           R3 == orv(l, m)
           R4 == nearv(l, m, Distance(op))
           R5 == notnearv(l, m, Distance(op))
<1>6. Apply(op, l, m) \in {R1, R2, R3, R4, R5}
  <2>1. Apply(op, l, m) = CASE op.first = <<"&">> -> R1
    [] op.first = <<"!&">>   -> R2
    [] op.first = <<"+">>    -> R3
    [] Symbol(op) = <<"!@">> -> R5
    [] OTHER                 -> R4
    BY DEF Apply
  <2> HIDE DEF R1, R2, R3, R4, R5
  <2> QED BY <2>1
<1> QED  BY <1>3, <1>4, <1>5, <1>6
------------------------------------------------------------------------------
(* Parentheses: on the stack of operators, and in the tokens read. *)

\* How many "(" are in q.
Opened(q) == Cardinality({k \in 1..Len(q) : q[k] = LeftParen})

LEMMA OpenedIs ==
  ASSUME NEW T, NEW q \in Seq(T)
  PROVE  /\ Opened(q) \in Nat
         /\ Opened(q) = 0 <=> \A k \in 1..Len(q) : q[k] # LeftParen
<1> DEFINE P == {k \in 1..Len(q) : q[k] = LeftParen}
<1>1. IsFiniteSet(P)
  <2>1. IsFiniteSet(1..Len(q))
    BY LenProperties, FS_Interval
  <2> QED  BY <2>1, FS_Subset
<1>2. Opened(q) = Cardinality(P)
  BY DEF Opened
<1>3. P = {} <=> \A k \in 1..Len(q) : q[k] # LeftParen
  OBVIOUS
<1> HIDE DEF P
<1> QED  BY <1>1, <1>2, <1>3, FS_CardinalityType, FS_EmptySet

LEMMA OpenedAppend ==
  ASSUME NEW T, NEW q \in Seq(T), NEW t \in T
  PROVE  Opened(Append(q, t)) = Opened(q) + IF t = LeftParen THEN 1 ELSE 0
<1> DEFINE r == Append(q, t)
           P == {k \in 1..Len(q) : q[k] = LeftParen}
           R == {k \in 1..Len(r) : r[k] = LeftParen}
<1>1. /\ Len(q) \in Nat /\ Len(r) = Len(q) + 1 /\ r[Len(q) + 1] = t
      /\ \A k \in 1..Len(q) : r[k] = q[k]
  BY AppendProperties, LenProperties
<1>2. IsFiniteSet(P) /\ Cardinality(P) \in Nat
  <2>1. IsFiniteSet(1..Len(q))
    BY <1>1, FS_Interval
  <2>2. IsFiniteSet(P)
    BY <2>1, FS_Subset
  <2> QED  BY <2>2, FS_CardinalityType
<1>3. Opened(q) = Cardinality(P) /\ Opened(r) = Cardinality(R)
  BY DEF Opened
<1>4. \A k : k \in R <=> k \in P \/ (k = Len(q) + 1 /\ t = LeftParen)
  <2> HIDE DEF r
  <2> QED  BY <1>1
<1>5. Len(q) + 1 \notin P
  BY <1>1
<1> HIDE DEF r, P, R
<1>6. CASE t = LeftParen
  <2>1. R = P \cup {Len(q) + 1}
    BY <1>4, <1>6
  <2> QED  BY <1>2, <1>3, <1>5, <1>6, <2>1, FS_AddElement DEF r
<1>7. CASE t # LeftParen
  <2>1. R = P
    BY <1>4, <1>7
  <2> QED  BY <1>2, <1>3, <1>7, <2>1 DEF r
<1> QED  BY <1>6, <1>7

LEMMA PrefixIs ==
  ASSUME NEW T, NEW q \in Seq(T), NEW m \in 0..Len(q)
  PROVE  /\ SubSeq(q, 1, m) \in Seq(T) /\ Len(SubSeq(q, 1, m)) = m
         /\ \A k \in 1..m : SubSeq(q, 1, m)[k] = q[k]
<1>1. Len(q) \in Nat /\ m \in Nat /\ \A k \in 1..m : q[k] \in T
  OBVIOUS
<1>2. SubSeq(q, 1, m) \in Seq(T)
  BY <1>1
<1>3. Len(SubSeq(q, 1, m)) = m
  <2>1. 1 \in Int /\ m \in Int
    BY <1>1
  <2>2. Len(SubSeq(q, 1, m)) = IF 1 <= m THEN m - 1 + 1 ELSE 0
    BY <1>1, <2>1, SubSeqProperties
  <2>3. CASE m = 0
    BY <2>2, <2>3
  <2>4. CASE m # 0
    <3>1. 1 <= m /\ m - 1 + 1 = m
      BY <1>1, <2>4
    <3> QED  BY <2>2, <3>1
  <2> QED  BY <2>3, <2>4
<1>4. \A k \in 1..m : SubSeq(q, 1, m)[k] = q[k]
  BY <1>1
<1> QED  BY <1>2, <1>3, <1>4

\* A stack that is not empty is its top on the rest.
LEMMA TopOf ==
  ASSUME NEW T, NEW q \in Seq(T), q # <<>>
  PROVE  /\ Front(q) \in Seq(T) /\ Last(q) \in T
         /\ Len(q) \in Nat \ {0} /\ Len(Front(q)) = Len(q) - 1
         /\ Last(q) = q[Len(q)]
         /\ \A k \in 1..(Len(q) - 1) : Front(q)[k] = q[k]
         /\ Opened(q) = Opened(Front(q)) + IF Last(q) = LeftParen THEN 1 ELSE 0
<1>1. Len(q) \in Nat \ {0} /\ \A k \in 1..Len(q) : q[k] \in T
  BY EmptySeq, ElementOfSeq
<1>2. /\ Front(q) \in Seq(T) /\ Len(Front(q)) = Len(q) - 1
      /\ \A k \in 1..(Len(q) - 1) : Front(q)[k] = q[k]
  <2>1. Front(q) = SubSeq(q, 1, Len(q) - 1)
    BY DEF Front
  <2>2. Len(q) - 1 \in 0..Len(q)
    BY <1>1
  <2> QED  BY <2>1, <2>2, PrefixIs
<1>3. Last(q) = q[Len(q)] /\ Last(q) \in T
  BY <1>1 DEF Last
<1>4. q = Append(Front(q), Last(q))
  <2> DEFINE r == Append(Front(q), Last(q))
  <2>1. /\ r \in Seq(T) /\ Len(r) = Len(q) /\ r[Len(q)] = Last(q)
        /\ \A k \in 1..(Len(q) - 1) : r[k] = Front(q)[k]
    BY <1>1, <1>2, <1>3, AppendProperties
  <2>2. ASSUME NEW k \in 1..Len(q) PROVE q[k] = r[k]
    <3>1. CASE k = Len(q)
      BY <1>3, <2>1, <3>1
    <3>2. CASE k # Len(q)
      <4>1. k \in 1..(Len(q) - 1)
        BY <1>1, <3>2
      <4> HIDE DEF r
      <4> QED  BY <1>2, <2>1, <4>1
    <3> QED  BY <3>1, <3>2
  <2> HIDE DEF r
  <2>3. q = r
    BY <2>1, <2>2, SeqEqual
  <2> QED  BY <2>3 DEF r
<1>5. Opened(q) = Opened(Front(q)) + IF Last(q) = LeftParen THEN 1 ELSE 0
  BY <1>2, <1>3, <1>4, OpenedAppend
<1> QED  BY <1>1, <1>2, <1>3, <1>5

\* A parenthesis is one or the other, and no pattern.
LEMMA ParenthesesAre ==
  /\ LeftParen # RightParen
  /\ LeftParen \in Tokens /\ RightParen \in Tokens
  /\ Patterns \cap Parentheses = {}
<1>1. <<"(">> # <<")">>
  <2>1. <<"(">>[1] = "(" /\ <<")">>[1] = ")"
    OBVIOUS
  <2> QED  BY <2>1
<1>2. LeftParen.first = <<"(">> /\ RightParen.first = <<")">>
      /\ LeftParen.second = "OPERATOR" /\ RightParen.second = "OPERATOR"
  BY DEF LeftParen, RightParen, Operator
<1>3. \A t \in Patterns : t.second = "STRING"
  BY DEF Patterns, Pattern
<1>4. LeftParen \in Tokens /\ RightParen \in Tokens
  <2>1. <<"(">> \in Seq(Symbols) /\ <<")">> \in Seq(Symbols)
    BY DEF Symbols, Marks
  <2> QED  BY <2>1 DEF Tokens, LeftParen, RightParen
<1> QED  BY <1>1, <1>2, <1>3, <1>4 DEF Parentheses

\* How often t is among the first n elements of q.
Tally(q, n, t) == Cardinality({k \in 1..n : q[k] = t})

LEMMA TallyType == ASSUME NEW q, NEW t, NEW n \in Nat PROVE Tally(q, n, t) \in Nat
<1> DEFINE P == {k \in 1..n : q[k] = t}
<1>1. IsFiniteSet(1..n)
  BY FS_Interval
<1>2. P \in SUBSET (1..n)
  OBVIOUS
<1> HIDE DEF P
<1>3. Cardinality(P) \in Nat
  BY <1>1, <1>2, FS_Subset, FS_CardinalityType
<1> QED  BY <1>3 DEF P, Tally

LEMMA TallyStarts == ASSUME NEW q, NEW t PROVE Tally(q, 0, t) = 0
<1>1. {k \in 1..0 : q[k] = t} = {}
  OBVIOUS
<1> QED  BY <1>1, FS_EmptySet DEF Tally

LEMMA TallyStep ==
  ASSUME NEW q, NEW t, NEW n \in Nat \ {0}
  PROVE  Tally(q, n, t) = IF q[n] = t THEN Tally(q, n - 1, t) + 1 ELSE Tally(q, n - 1, t)
<1> DEFINE P(m) == {k \in 1..m : q[k] = t}
<1>1. IsFiniteSet(P(n - 1)) /\ n \notin P(n - 1)
  <2>1. n - 1 \in Nat /\ IsFiniteSet(1..(n - 1))
    BY FS_Interval
  <2>2. P(n - 1) \in SUBSET (1..(n - 1)) /\ n \notin P(n - 1)
    OBVIOUS
  <2> HIDE DEF P
  <2> QED  BY <2>1, <2>2, FS_Subset
<1>2. CASE q[n] = t
  <2>1. P(n) = P(n - 1) \cup {n}
    BY <1>2
  <2> HIDE DEF P
  <2>2. Cardinality(P(n)) = Cardinality(P(n - 1)) + 1
    BY <1>1, <2>1, FS_AddElement
  <2> QED  BY <1>2, <2>2 DEF P, Tally
<1>3. CASE q[n] # t
  <2>1. P(n) = P(n - 1)
    BY <1>3
  <2> HIDE DEF P
  <2>2. Cardinality(P(n)) = Cardinality(P(n - 1))
    BY <2>1
  <2> QED  BY <1>3, <2>2 DEF P, Tally
<1> QED  BY <1>2, <1>3

\* Nesting, element by element.
LEMMA NestingIs ==
  ASSUME NEW q, NEW open, NEW close, NEW n
  PROVE  Nesting(q, n, open, close) = Tally(q, n, open) - Tally(q, n, close)
BY DEF Nesting, Tally

LEMMA NestingStarts ==
  ASSUME NEW q, NEW open, NEW close
  PROVE  Nesting(q, 0, open, close) = 0
<1>1. Tally(q, 0, open) = 0 /\ Tally(q, 0, close) = 0
  BY TallyStarts
<1>2. Nesting(q, 0, open, close) = Tally(q, 0, open) - Tally(q, 0, close)
  BY NestingIs, Zenon
<1> QED  BY <1>1, <1>2

LEMMA NestingType ==
  ASSUME NEW q, NEW open, NEW close, NEW n \in Nat
  PROVE  Nesting(q, n, open, close) \in Int
<1>1. Tally(q, n, open) \in Nat /\ Tally(q, n, close) \in Nat
  BY TallyType
<1>2. Nesting(q, n, open, close) = Tally(q, n, open) - Tally(q, n, close)
  BY NestingIs, Zenon
<1> QED  BY <1>1, <1>2

LEMMA NestingStep ==
  ASSUME NEW q, NEW open, NEW close, open # close, NEW n \in Nat \ {0}
  PROVE  /\ q[n] = open => Nesting(q, n, open, close) = Nesting(q, n - 1, open, close) + 1
         /\ q[n] = close => Nesting(q, n, open, close) = Nesting(q, n - 1, open, close) - 1
         /\ q[n] \notin {open, close} => Nesting(q, n, open, close) = Nesting(q, n - 1, open, close)
<1>1. n - 1 \in Nat
  OBVIOUS
<1>2. /\ Tally(q, n, open) \in Nat /\ Tally(q, n, close) \in Nat
      /\ Tally(q, n - 1, open) \in Nat /\ Tally(q, n - 1, close) \in Nat
  BY <1>1, TallyType
<1>3. /\ Nesting(q, n, open, close) = Tally(q, n, open) - Tally(q, n, close)
      /\ Nesting(q, n - 1, open, close) = Tally(q, n - 1, open) - Tally(q, n - 1, close)
  BY NestingIs, Zenon
<1>4. /\ Tally(q, n, open) = IF q[n] = open THEN Tally(q, n - 1, open) + 1 ELSE Tally(q, n - 1, open)
      /\ Tally(q, n, close) = IF q[n] = close THEN Tally(q, n - 1, close) + 1 ELSE Tally(q, n - 1, close)
  BY TallyStep
<1> QED  BY <1>2, <1>3, <1>4

LEMMA TokenDepthIs ==
  /\ TokenDepth(0) = 0
  /\ \A n \in Nat : TokenDepth(n) \in Int
  /\ \A n \in Nat \ {0} :
       TokenDepth(n) =
         TokenDepth(n - 1) + (IF tokens[n] = LeftParen THEN 1 ELSE IF tokens[n] = RightParen THEN -1 ELSE 0)
<1>1. LeftParen # RightParen
  BY ParenthesesAre
<1>2. Nesting(tokens, 0, LeftParen, RightParen) = 0
  BY <1>1, NestingStarts, Zenon
<1>3. \A n \in Nat : Nesting(tokens, n, LeftParen, RightParen) \in Int
  BY <1>1, NestingType, Zenon
<1>4. ASSUME NEW n \in Nat \ {0}
      PROVE  Nesting(tokens, n, LeftParen, RightParen) =
               Nesting(tokens, n - 1, LeftParen, RightParen)
                 + (IF tokens[n] = LeftParen THEN 1 ELSE IF tokens[n] = RightParen THEN -1 ELSE 0)
  <2>1. n - 1 \in Nat
    OBVIOUS
  <2>2. Nesting(tokens, n - 1, LeftParen, RightParen) \in Int
    BY <1>3, <2>1
  <2>3. CASE tokens[n] = LeftParen
    BY <1>1, <2>3, NestingStep
  <2>4. CASE tokens[n] = RightParen
    BY <1>1, <2>2, <2>4, NestingStep
  <2>5. CASE tokens[n] \notin {LeftParen, RightParen}
    BY <1>1, <2>2, <2>5, NestingStep
  <2> QED  BY <2>3, <2>4, <2>5
<1> QED  BY <1>2, <1>3, <1>4, Zenon DEF TokenDepth

------------------------------------------------------------------------------
(* The evaluator, whatever is written. *)

Spellings == Seq(Tokens \cup Parentheses)

\* The text and where it is read.
TextTypes ==
  /\ raw_expression \in Expressions
  /\ cursor \in 1..(Len(raw_expression) + 1)
  /\ brackets \in Seq({"left_brace", "("})

EvalTypes ==
  /\ tokens \in Seq(Tokens)
  /\ locations \in [Patterns -> Seq(Nat)]
  /\ \A x \in Patterns : IsList(locations[x])
  /\ idx \in 1..(Len(tokens) + 1)
  /\ ops \in Seq(Tokens)
  /\ rpn \in Seq(Tokens)
  /\ operands \in Seq(Spellings)
  /\ phase \in {"check", "split", "convert", "evaluate"} \cup Outcomes

\* What is on the stack and in the queue; every "(" not yet closed is on the
\* stack, so that none is left when all are closed.
Yard ==
  /\ \A k \in 1..Len(ops) : ops[k] = LeftParen \/ IsOperator(ops[k])
  /\ \A k \in 1..Len(rpn) : rpn[k] # RightParen /\ (rpn[k] = LeftParen => ~TokensBalanced)
  /\ phase \in {"check", "split"} => idx = 1 /\ ops = <<>> /\ rpn = <<>>
  /\ phase = "convert" => Opened(ops) = TokenDepth(idx - 1)

\* Each operand is a pattern or has its list, and the lists ascend.
Known ==
  /\ phase \in {"check", "split", "convert", "syntax_error"} => operands = <<>> /\ newLocations = <<>>
  /\ \A k \in 1..Len(operands) : operands[k] \in {<<x>> : x \in Patterns} \cup DOMAIN newLocations
  /\ \A key \in DOMAIN newLocations : IsList(newLocations[key])

EvalInv == TextTypes /\ EvalTypes /\ Yard /\ Known

LEMMA EvalBegins == EvalInit => EvalInv
<1> SUFFICES ASSUME EvalInit PROVE EvalInv
  OBVIOUS
<1> USE DEF EvalInit, TokenInit
<1>1. TextTypes
  <2>1. raw_expression \in Seq(Symbols)
    BY ExpressionTextsAssumption
  <2>2. cursor \in 1..(Len(raw_expression) + 1)
    BY <2>1
  <2> QED  BY <2>2 DEF TextTypes
<1>2. EvalTypes
  <2>1. tokens \in Seq(Tokens) /\ Len(tokens) = 0
    OBVIOUS
  <2>2. locations \in [Patterns -> Seq(Nat)] /\ \A x \in Patterns : IsList(locations[x])
    BY LocationsAssumption DEF IsList
  <2>3. idx \in 1..(Len(tokens) + 1)
    BY <2>1
  <2>4. ops \in Seq(Tokens) /\ rpn \in Seq(Tokens) /\ operands \in Seq(Spellings)
    OBVIOUS
  <2> QED  BY <2>1, <2>2, <2>3, <2>4 DEF EvalTypes
<1>3. Yard
  BY DEF Yard
<1>4. Known
  BY DEF Known
<1> QED  BY <1>1, <1>2, <1>3, <1>4 DEF EvalInv

LEMMA ExpressionStays == ASSUME TextTypes, UNCHANGED written PROVE TextTypes'
BY DEF TextTypes, written

LEMMA DepthSame ==
  ASSUME tokens' = tokens
  PROVE  /\ \A n : TokenDepth(n)' = TokenDepth(n)
         /\ TokenDepth(idx - 1)' = TokenDepth(idx' - 1)
         /\ TokensBalanced' = TokensBalanced
<1>1. \A n : TokenDepth(n)' = TokenDepth(n)
  BY DEF TokenDepth
<1>2. TokenDepth(idx - 1)' = TokenDepth(idx' - 1)
  BY DEF TokenDepth
<1>3. TokensBalanced' = TokensBalanced
  BY DEF TokensBalanced, TokenDepth
<1> QED  BY <1>1, <1>2, <1>3

\* A stack without operators has no "(" on it.
LEMMA NothingOpened ==
  ASSUME NEW T, NEW q \in Seq(T), q = <<>>
  PROVE  Opened(q) = 0
<1>1. \A k \in 1..Len(q) : q[k] # LeftParen
  OBVIOUS
<1> QED  BY <1>1, OpenedIs

\* A ")" finds its "(" if the tokens up to it have one.
LEMMA ClosesOpen ==
  ASSUME EvalInv, phase = "convert", idx <= Len(tokens), token = RightParen, TokenDepth(idx) >= 0
  PROVE  Opened(ops) > 0 /\ ops # <<>>
<1>1. /\ tokens \in Seq(Tokens) /\ ops \in Seq(Tokens) /\ idx \in 1..Len(tokens)
      /\ Opened(ops) = TokenDepth(idx - 1) /\ tokens[idx] = RightParen /\ Len(tokens) \in Nat
  BY DEF EvalInv, EvalTypes, Yard, token
<1>2. TokenDepth(idx) = TokenDepth(idx - 1) - 1 /\ TokenDepth(idx) \in Int
  <2>1. idx \in Nat \ {0} /\ idx - 1 \in Nat
    BY <1>1
  <2>2. TokenDepth(idx) = TokenDepth(idx - 1)
          + (IF tokens[idx] = LeftParen THEN 1 ELSE IF tokens[idx] = RightParen THEN -1 ELSE 0)
    BY <2>1, TokenDepthIs
  <2>3. TokenDepth(idx - 1) \in Int /\ TokenDepth(idx) \in Int
    BY <2>1, TokenDepthIs
  <2> QED  BY <1>1, <2>2, <2>3, ParenthesesAre
<1>3. Opened(ops) \in Nat /\ Opened(ops) > 0
  BY <1>1, <1>2, OpenedIs
<1> QED  BY <1>1, <1>3, NothingOpened

\* Moving the top of the stack to the queue.
LEMMA TopMoves ==
  ASSUME EvalInv, phase = "convert", ops # <<>>, Last(ops) # LeftParen,
         rpn' = Append(rpn, Last(ops)), ops' = Front(ops),
         UNCHANGED <<idx, phase, machine, query, written>>
  PROVE  EvalInv'
<1>1. /\ ops \in Seq(Tokens) /\ rpn \in Seq(Tokens) /\ Len(rpn) \in Nat
      /\ UNCHANGED <<idx, phase, operands, newLocations, tokens, locations>>
  BY DEF EvalInv, EvalTypes, machine, query
<1>2. /\ Front(ops) \in Seq(Tokens) /\ Last(ops) \in Tokens
      /\ Len(ops) \in Nat \ {0} /\ Len(Front(ops)) = Len(ops) - 1
      /\ Last(ops) = ops[Len(ops)]
      /\ \A k \in 1..(Len(ops) - 1) : Front(ops)[k] = ops[k]
      /\ Opened(ops) = Opened(Front(ops))
  <2>1. /\ Front(ops) \in Seq(Tokens) /\ Last(ops) \in Tokens
        /\ Len(ops) \in Nat \ {0} /\ Len(Front(ops)) = Len(ops) - 1
        /\ Last(ops) = ops[Len(ops)]
        /\ \A k \in 1..(Len(ops) - 1) : Front(ops)[k] = ops[k]
        /\ Opened(ops) = Opened(Front(ops)) + IF Last(ops) = LeftParen THEN 1 ELSE 0
    BY ONLY <1>1, ops # <<>>, TopOf
  <2>2. Opened(Front(ops)) \in Nat
    BY <2>1, OpenedIs
  <2>3. Opened(ops) = Opened(Front(ops)) + 0
    BY <2>1
  <2>4. Opened(ops) = Opened(Front(ops))
    BY <2>2, <2>3
  <2> QED  BY <2>1, <2>4
<1>3. /\ rpn' \in Seq(Tokens) /\ Len(rpn') = Len(rpn) + 1 /\ rpn'[Len(rpn) + 1] = Last(ops)
      /\ \A k \in 1..Len(rpn) : rpn'[k] = rpn[k]
  BY <1>1, <1>2, AppendProperties
<1>4. EvalTypes'
  BY <1>1, <1>2, <1>3 DEF EvalInv, EvalTypes
<1>5. Yard'
  <2>1. \A k \in 1..Len(ops') : ops'[k] = LeftParen \/ IsOperator(ops'[k])
    BY <1>2 DEF EvalInv, Yard
  <2>2. \A k \in 1..Len(rpn') : rpn'[k] # RightParen /\ (rpn'[k] = LeftParen => ~TokensBalanced)
    <3> SUFFICES ASSUME NEW k \in 1..Len(rpn') PROVE rpn'[k] # RightParen /\ (rpn'[k] = LeftParen => ~TokensBalanced)
      OBVIOUS
    <3>1. CASE k = Len(rpn) + 1
      BY <1>2, <1>3, <3>1 DEF EvalInv, Yard, IsOperator, Parentheses
    <3>2. CASE k # Len(rpn) + 1
      <4>1. k \in 1..Len(rpn)
        BY <1>1, <1>3, <3>2
      <4> QED  BY <1>3, <4>1 DEF EvalInv, Yard
    <3> QED  BY <3>1, <3>2
  <2>3. (TokensBalanced' <=> TokensBalanced) /\ Opened(ops') = TokenDepth(idx - 1)'
    BY <1>1, <1>2, DepthSame DEF EvalInv, Yard
  <2> QED  BY <1>1, <2>1, <2>2, <2>3 DEF Yard, IsOperator, Parentheses, Opened
<1>6. Known'
  BY <1>1 DEF EvalInv, Known
<1>7. TextTypes'
  BY ExpressionStays DEF EvalInv
<1> QED  BY <1>4, <1>5, <1>6, <1>7 DEF EvalInv

\* Moving the next token to the stack.
LEMMA TokenMoves ==
  ASSUME EvalInv, phase = "convert", idx <= Len(tokens), token = LeftParen \/ IsOperator(token),
         ops' = Append(ops, token), idx' = idx + 1,
         UNCHANGED <<rpn, phase, machine, query, written>>
  PROVE  EvalInv'
<1>1. /\ ops \in Seq(Tokens) /\ tokens \in Seq(Tokens) /\ Len(tokens) \in Nat /\ Len(ops) \in Nat
      /\ idx \in 1..Len(tokens) /\ token = tokens[idx] /\ token \in Tokens
      /\ UNCHANGED <<rpn, phase, operands, newLocations, tokens, locations>>
  BY DEF EvalInv, EvalTypes, machine, query, token
<1>2. /\ ops' \in Seq(Tokens) /\ Len(ops') = Len(ops) + 1 /\ ops'[Len(ops) + 1] = token
      /\ \A k \in 1..Len(ops) : ops'[k] = ops[k]
      /\ Opened(ops') = Opened(ops) + IF token = LeftParen THEN 1 ELSE 0
  BY <1>1, AppendProperties, OpenedAppend
<1>3. idx' \in 1..(Len(tokens) + 1)
  BY <1>1
<1>4. EvalTypes'
  BY <1>1, <1>2, <1>3 DEF EvalInv, EvalTypes
<1>5. Yard'
  <2>1. \A k \in 1..Len(ops') : ops'[k] = LeftParen \/ IsOperator(ops'[k])
    <3> SUFFICES ASSUME NEW k \in 1..Len(ops') PROVE ops'[k] = LeftParen \/ IsOperator(ops'[k])
      OBVIOUS
    <3>1. CASE k = Len(ops) + 1
      BY <1>2, <3>1
    <3>2. CASE k # Len(ops) + 1
      <4>1. k \in 1..Len(ops)
        BY <1>1, <1>2, <3>2
      <4> QED  BY <1>2, <4>1 DEF EvalInv, Yard
    <3> QED  BY <3>1, <3>2
  <2>2. Opened(ops') = TokenDepth(idx - 1)'
    <3>1. idx \in Nat \ {0} /\ idx' - 1 = idx
      BY <1>1
    <3>2. TokenDepth(idx) = TokenDepth(idx - 1)
            + (IF token = LeftParen THEN 1 ELSE IF token = RightParen THEN -1 ELSE 0)
      BY <1>1, <3>1, TokenDepthIs
    <3>3. token # RightParen
      BY ParenthesesAre DEF IsOperator, Parentheses
    <3>4. Opened(ops) = TokenDepth(idx - 1) /\ Opened(ops) \in Nat
      BY <1>1, OpenedIs DEF EvalInv, Yard
    <3>5. Opened(ops') = TokenDepth(idx)
      BY <1>2, <3>2, <3>3, <3>4
    <3> QED  BY <1>1, <3>1, <3>5, DepthSame
  <2>3. TokensBalanced' <=> TokensBalanced
    BY <1>1, DepthSame DEF EvalInv, Yard
  <2> QED  BY <1>1, <2>1, <2>2, <2>3 DEF EvalInv, Yard, IsOperator, Parentheses, Opened
<1>6. Known'
  BY <1>1 DEF EvalInv, Known
<1>7. TextTypes'
  BY ExpressionStays DEF EvalInv
<1> QED  BY <1>4, <1>5, <1>6, <1>7 DEF EvalInv

LEMMA PatternQueued == ASSUME EvalInv, PushPattern PROVE EvalInv'
<1> USE DEF PushPattern, Convert
<1>1. /\ rpn \in Seq(Tokens) /\ tokens \in Seq(Tokens) /\ Len(tokens) \in Nat /\ Len(rpn) \in Nat
      /\ phase = "convert" /\ idx \in 1..Len(tokens) /\ token = tokens[idx] /\ token \in Tokens
      /\ token \in Patterns
      /\ UNCHANGED <<ops, phase, operands, newLocations, tokens, locations>>
  BY DEF EvalInv, EvalTypes, machine, query, token
<1>2. token \notin Parentheses
  BY <1>1, ParenthesesAre
<1>3. /\ rpn' \in Seq(Tokens) /\ Len(rpn') = Len(rpn) + 1 /\ rpn'[Len(rpn) + 1] = token
      /\ \A k \in 1..Len(rpn) : rpn'[k] = rpn[k]
  BY <1>1, AppendProperties
<1>4. idx' \in 1..(Len(tokens) + 1)
  BY <1>1
<1>5. EvalTypes'
  BY <1>1, <1>3, <1>4 DEF EvalInv, EvalTypes
<1>6. Yard'
  <2>1. \A k \in 1..Len(rpn') : rpn'[k] # RightParen /\ (rpn'[k] = LeftParen => ~TokensBalanced)
    <3> SUFFICES ASSUME NEW k \in 1..Len(rpn') PROVE rpn'[k] # RightParen /\ (rpn'[k] = LeftParen => ~TokensBalanced)
      OBVIOUS
    <3>1. CASE k = Len(rpn) + 1
      BY <1>2, <1>3, <3>1 DEF Parentheses
    <3>2. CASE k # Len(rpn) + 1
      <4>1. k \in 1..Len(rpn)
        BY <1>1, <1>3, <3>2
      <4> QED  BY <1>3, <4>1 DEF EvalInv, Yard
    <3> QED  BY <3>1, <3>2
  <2>2. Opened(ops) = TokenDepth(idx - 1)'
    <3>1. idx \in Nat \ {0} /\ idx' - 1 = idx /\ idx - 1 \in Nat
      BY <1>1
    <3>2. TokenDepth(idx) = TokenDepth(idx - 1)
            + (IF token = LeftParen THEN 1 ELSE IF token = RightParen THEN -1 ELSE 0)
      BY <1>1, <3>1, TokenDepthIs
    <3>3. TokenDepth(idx - 1) \in Int
      BY <1>1, <3>1, TokenDepthIs
    <3>4. TokenDepth(idx) = TokenDepth(idx - 1)
      BY <1>2, <3>2, <3>3 DEF Parentheses
    <3> QED  BY <1>1, <3>1, <3>4, DepthSame DEF EvalInv, Yard
  <2>3. TokensBalanced' <=> TokensBalanced
    BY <1>1, DepthSame DEF EvalInv, Yard
  <2> QED  BY <1>1, <2>1, <2>2, <2>3 DEF EvalInv, Yard, IsOperator, Parentheses, Opened
<1>7. Known'
  BY <1>1 DEF EvalInv, Known
<1>8. TextTypes'
  BY ExpressionStays DEF EvalInv
<1> QED  BY <1>5, <1>6, <1>7, <1>8 DEF EvalInv

LEMMA ParenthesisClosed ==
  ASSUME EvalInv, phase = "convert", idx <= Len(tokens), token = RightParen,
         ops # <<>>, Last(ops) = LeftParen,
         ops' = Front(ops), idx' = idx + 1, UNCHANGED <<rpn, phase, machine, query, written>>
  PROVE  EvalInv'
<1>1. /\ ops \in Seq(Tokens) /\ tokens \in Seq(Tokens) /\ Len(tokens) \in Nat
      /\ idx \in 1..Len(tokens) /\ token = tokens[idx]
      /\ UNCHANGED <<rpn, phase, operands, newLocations, tokens, locations>>
  BY DEF EvalInv, EvalTypes, machine, query, token
<1>2. ops # <<>>
  OBVIOUS
<1>3. /\ Front(ops) \in Seq(Tokens) /\ Len(ops) \in Nat \ {0} /\ Len(Front(ops)) = Len(ops) - 1
      /\ \A k \in 1..(Len(ops) - 1) : Front(ops)[k] = ops[k]
      /\ Opened(ops) = Opened(Front(ops)) + 1 /\ Opened(Front(ops)) \in Nat
  <2>1. Opened(Front(ops)) \in Nat
    BY <1>1, <1>2, TopOf, OpenedIs
  <2> QED  BY <1>1, <1>2, <2>1, TopOf
<1>4. EvalTypes'
  <2>1. idx' \in 1..(Len(tokens) + 1)
    BY <1>1
  <2> QED  BY <1>1, <1>3, <2>1 DEF EvalInv, EvalTypes
<1>5. Yard'
  <2>1. \A k \in 1..Len(ops') : ops'[k] = LeftParen \/ IsOperator(ops'[k])
    BY <1>3 DEF EvalInv, Yard
  <2>2. Opened(ops') = TokenDepth(idx - 1)'
    <3>1. idx \in Nat \ {0} /\ idx' - 1 = idx /\ idx - 1 \in Nat
      BY <1>1
    <3>2. TokenDepth(idx) = TokenDepth(idx - 1)
            + (IF tokens[idx] = LeftParen THEN 1 ELSE IF tokens[idx] = RightParen THEN -1 ELSE 0)
      BY <1>1, <3>1, TokenDepthIs
    <3>3. TokenDepth(idx - 1) = Opened(ops)
      BY DEF EvalInv, Yard
    <3>4. TokenDepth(idx) = Opened(ops')
      <4>1. tokens[idx] = RightParen /\ ops' = Front(ops)
        BY <1>1
      <4>2. TokenDepth(idx) = TokenDepth(idx - 1) - 1
        BY <1>3, <3>2, <3>3, <4>1, ParenthesesAre
      <4> QED  BY <1>3, <3>3, <4>1, <4>2
    <3> QED  BY <1>1, <3>1, <3>4, DepthSame
  <2>3. TokensBalanced' <=> TokensBalanced
    BY <1>1, DepthSame DEF EvalInv, Yard
  <2> QED  BY <1>1, <2>1, <2>2, <2>3 DEF EvalInv, Yard, IsOperator, Parentheses, Opened
<1>6. Known'
  BY <1>1 DEF EvalInv, Known
<1>7. TextTypes'
  BY ExpressionStays DEF EvalInv
<1> QED  BY <1>4, <1>5, <1>6, <1>7 DEF EvalInv

LEMMA StackDrained == ASSUME EvalInv, Drain PROVE EvalInv'
<1> USE DEF Drain
<1>1. /\ ops \in Seq(Tokens) /\ rpn \in Seq(Tokens) /\ tokens \in Seq(Tokens) /\ Len(tokens) \in Nat
      /\ Len(ops) \in Nat /\ Len(rpn) \in Nat
      /\ phase = "convert" /\ phase' = "evaluate" /\ idx = Len(tokens) + 1
      /\ UNCHANGED <<idx, operands, newLocations, tokens, locations>>
  BY DEF EvalInv, EvalTypes, machine, query
<1>2. /\ Reverse(ops) \in Seq(Tokens) /\ Len(Reverse(ops)) = Len(ops)
      /\ \A k \in 1..Len(ops) : Reverse(ops)[k] = ops[Len(ops) - k + 1]
  <2>1. Reverse(ops) = [k \in 1..Len(ops) |-> ops[(Len(ops) - k) + 1]]
    BY DEF Reverse
  <2>2. \A k \in 1..Len(ops) : (Len(ops) - k) + 1 \in 1..Len(ops)
    BY <1>1
  <2>3. \A k \in 1..Len(ops) : ops[(Len(ops) - k) + 1] \in Tokens
    BY <1>1, <2>2
  <2> QED  BY <1>1, <2>1, <2>3
<1>3. TokensBalanced => \A k \in 1..Len(ops) : IsOperator(ops[k])
  <2> SUFFICES ASSUME TokensBalanced PROVE \A k \in 1..Len(ops) : IsOperator(ops[k])
    OBVIOUS
  <2>1. Opened(ops) = 0
    <3>1. idx - 1 = Len(tokens)
      BY <1>1
    <3> QED  BY <1>1, <3>1 DEF EvalInv, Yard, TokensBalanced
  <2>2. \A k \in 1..Len(ops) : ops[k] # LeftParen
    BY <1>1, <2>1, OpenedIs
  <2> QED  BY <2>2 DEF EvalInv, Yard
<1>4. /\ rpn' \in Seq(Tokens) /\ Len(rpn') = Len(rpn) + Len(ops)
      /\ \A k \in 1..Len(rpn') : rpn'[k] = IF k <= Len(rpn) THEN rpn[k] ELSE Reverse(ops)[k - Len(rpn)]
  <2>1. Reverse(ops) \in Seq(Tokens) /\ Len(Reverse(ops)) = Len(ops)
    BY <1>2
  <2> DEFINE r == Reverse(ops)
  <2> HIDE DEF r
  <2>2. r \in Seq(Tokens) /\ Len(r) = Len(ops) /\ rpn' = rpn \o r
    BY <2>1 DEF r
  <2>3. /\ rpn \o r \in Seq(Tokens) /\ Len(rpn \o r) = Len(rpn) + Len(r)
        /\ \A k \in 1..(Len(rpn) + Len(r)) : (rpn \o r)[k] = IF k <= Len(rpn) THEN rpn[k] ELSE r[k - Len(rpn)]
    <3>1. rpn \in Seq(Tokens) /\ r \in Seq(Tokens)
      BY <1>1, <2>2
    <3> QED  BY ONLY <3>1, ConcatProperties, Zenon
  <2> QED  BY <2>2, <2>3 DEF r
<1>5. EvalTypes'
  <2>1. ops' \in Seq(Tokens)
    OBVIOUS
  <2> QED  BY <1>1, <1>4, <2>1 DEF EvalInv, EvalTypes
<1>6. Yard'
  <2>1. \A k \in 1..Len(rpn') : rpn'[k] # RightParen /\ (rpn'[k] = LeftParen => ~TokensBalanced)
    <3> SUFFICES ASSUME NEW k \in 1..Len(rpn') PROVE rpn'[k] # RightParen /\ (rpn'[k] = LeftParen => ~TokensBalanced)
      OBVIOUS
    <3>1. CASE k <= Len(rpn)
      <4>1. k \in 1..Len(rpn) /\ rpn'[k] = rpn[k]
        BY <1>1, <1>4, <3>1
      <4> QED  BY <4>1 DEF EvalInv, Yard
    <3>2. CASE ~(k <= Len(rpn))
      <4>1. k - Len(rpn) \in 1..Len(ops) /\ rpn'[k] = Reverse(ops)[k - Len(rpn)]
        BY <1>1, <1>4, <3>2
      <4>2. Len(ops) - (k - Len(rpn)) + 1 \in 1..Len(ops)
        BY <1>1, <4>1
      <4>3. rpn'[k] \in {ops[j] : j \in 1..Len(ops)}
        BY <1>2, <4>1, <4>2
      <4>4. \A j \in 1..Len(ops) : ops[j] # RightParen /\ (ops[j] = LeftParen => ~TokensBalanced)
        BY <1>3, ParenthesesAre DEF EvalInv, Yard, IsOperator, Parentheses
      <4> QED  BY <4>3, <4>4
    <3> QED  BY <3>1, <3>2
  <2>2. Len(ops') = 0 /\ (TokensBalanced' <=> TokensBalanced)
    BY <1>1, DepthSame
  <2> QED  BY <1>1, <2>1, <2>2 DEF Yard
<1>7. Known'
  BY <1>1 DEF EvalInv, Known
<1>8. TextTypes'
  BY ExpressionStays DEF EvalInv
<1> QED  BY <1>5, <1>6, <1>7, <1>8 DEF EvalInv

\* The list of an operand.
LEMMA OperandList ==
  ASSUME EvalInv, NEW k \in 1..Len(operands)
  PROVE  IsList(LociOf(operands[k]))
<1> DEFINE key == operands[k]
<1>1. key \in {<<x>> : x \in Patterns} \cup DOMAIN newLocations
  BY DEF EvalInv, Known
<1> HIDE DEF key
<1>2. CASE key \in {<<x>> : x \in Patterns}
  <2>1. PICK x \in Patterns : key = <<x>>
    BY <1>2
  <2>2. key[1] = x /\ LociOf(key) = locations[x]
    BY <1>2, <2>1 DEF LociOf
  <2>3. IsList(locations[x])
    BY DEF EvalInv, EvalTypes
  <2> QED  BY <2>2, <2>3 DEF key
<1>3. CASE key \notin {<<x>> : x \in Patterns}
  <2>1. LociOf(key) = newLocations[key] /\ key \in DOMAIN newLocations
    BY <1>1, <1>3 DEF LociOf
  <2>2. IsList(newLocations[key])
    BY <2>1 DEF EvalInv, Known
  <2> QED  BY <2>1, <2>2 DEF key
<1> QED  BY <1>2, <1>3

\* The key of an inner expression.
Spell(x, op, y) == <<LeftParen>> \o x \o <<op>> \o y \o <<RightParen>>

LEMMA SpellIs ==
  ASSUME NEW x \in Spellings, NEW op \in Tokens, NEW y \in Spellings
  PROVE  Spell(x, op, y) \in Spellings
<1> DEFINE T == Tokens \cup Parentheses
<1>1. <<LeftParen>> \in Seq(T) /\ <<RightParen>> \in Seq(T) /\ <<op>> \in Seq(T) /\ x \in Seq(T) /\ y \in Seq(T)
  BY DEF Parentheses, Spellings
<1> HIDE DEF T
<1>2. <<LeftParen>> \o x \in Seq(T)
  BY <1>1, ConcatProperties
<1>3. <<LeftParen>> \o x \o <<op>> \in Seq(T)
  BY <1>1, <1>2, ConcatProperties
<1>4. <<LeftParen>> \o x \o <<op>> \o y \in Seq(T)
  BY <1>1, <1>3, ConcatProperties
<1>5. Spell(x, op, y) \in Seq(T)
  BY <1>1, <1>4, ConcatProperties DEF Spell
<1> QED  BY <1>5 DEF Spellings, T

\* What the queue loses at its head.
LEMMA QueueTail ==
  ASSUME EvalInv, rpn # <<>>
  PROVE  /\ Tail(rpn) \in Seq(Tokens) /\ Head(rpn) \in Tokens
         /\ Head(rpn) # RightParen /\ (Head(rpn) = LeftParen => ~TokensBalanced)
         /\ \A k \in 1..Len(Tail(rpn)) :
              Tail(rpn)[k] # RightParen /\ (Tail(rpn)[k] = LeftParen => ~TokensBalanced)
<1>1. rpn \in Seq(Tokens) /\ Len(rpn) \in Nat \ {0}
  BY EmptySeq DEF EvalInv, EvalTypes
<1>2. /\ Head(rpn) \in Tokens /\ Tail(rpn) \in Seq(Tokens) /\ Len(Tail(rpn)) = Len(rpn) - 1
      /\ \A k \in 1..Len(Tail(rpn)) : Tail(rpn)[k] = rpn[k + 1]
  BY <1>1, HeadTailProperties
<1>3. Head(rpn) = rpn[1] /\ 1 \in 1..Len(rpn)
  BY <1>1
<1>4. \A k \in 1..Len(Tail(rpn)) : k + 1 \in 1..Len(rpn)
  BY <1>1, <1>2
<1> QED  BY <1>2, <1>3, <1>4 DEF EvalInv, Yard

LEMMA OperandPushed == ASSUME EvalInv, PushOperand PROVE EvalInv'
<1> USE DEF PushOperand
<1>1. /\ phase = "evaluate" /\ UNCHANGED <<newLocations, idx, ops, phase, tokens, locations>>
      /\ Head(rpn) \in Patterns /\ rpn' = Tail(rpn)
  BY DEF yard, query
<1>2. /\ rpn' \in Seq(Tokens) /\ Head(rpn) \in Tokens
      /\ \A k \in 1..Len(rpn') : rpn'[k] # RightParen /\ (rpn'[k] = LeftParen => ~TokensBalanced)
  BY QueueTail
<1> DEFINE key == <<Head(rpn)>>
<1>3. key \in Spellings /\ operands \in Seq(Spellings) /\ Len(operands) \in Nat /\ operands' = Append(operands, key)
  BY <1>2 DEF Spellings, EvalInv, EvalTypes
<1>4. key \in {<<x>> : x \in Patterns}
  BY <1>1
<1> HIDE DEF key
<1>5. /\ operands' \in Seq(Spellings) /\ Len(operands') = Len(operands) + 1 /\ operands'[Len(operands) + 1] = key
      /\ \A k \in 1..Len(operands) : operands'[k] = operands[k]
  BY <1>3, AppendProperties
<1>6. EvalTypes'
  BY <1>1, <1>2, <1>5 DEF EvalInv, EvalTypes
<1>7. Yard'
  BY <1>1, <1>2, DepthSame DEF EvalInv, Yard, IsOperator
<1>8. Known'
  <2>1. ASSUME NEW k \in 1..Len(operands')
        PROVE  operands'[k] \in {<<x>> : x \in Patterns} \cup DOMAIN newLocations
    <3>1. CASE k = Len(operands) + 1
      BY <1>4, <1>5, <3>1
    <3>2. CASE k # Len(operands) + 1
      <4>1. k \in 1..Len(operands)
        BY <1>3, <1>5, <3>2
      <4> QED  BY <1>5, <4>1 DEF EvalInv, Known
    <3> QED  BY <3>1, <3>2
  <2> QED  BY <1>1, <2>1 DEF EvalInv, Known
<1>9. TextTypes'
  BY ExpressionStays DEF EvalInv
<1> QED  BY <1>6, <1>7, <1>8, <1>9 DEF EvalInv

\* What ApplyOperator does, with names for what it takes and makes.
Applied(x, y, key) ==
  LET n == Len(operands) IN
  /\ n >= 2 /\ x = operands[n - 1] /\ y = operands[n] /\ key = Spell(x, Head(rpn), y)
  /\ operands' = Append(SubSeq(operands, 1, n - 2), key)
  /\ newLocations' = [z \in DOMAIN newLocations \cup {key} |->
                        IF z = key THEN Apply(Head(rpn), LociOf(x), LociOf(y)) ELSE newLocations[z]]

LEMMA AppliedIs ==
  ASSUME EvalInv, ApplyOperator
  PROVE  \E x, y, key : Applied(x, y, key)
<1> DEFINE n == Len(operands)
           x == operands[n - 1]
           y == operands[n]
           key == Spell(x, Head(rpn), y)
<1>1. n >= 2 /\ operands' = Append(SubSeq(operands, 1, n - 2), key)
  BY DEF ApplyOperator, Spell
<1>2. newLocations' = [z \in DOMAIN newLocations \cup {key} |->
                        IF z = key THEN Apply(Head(rpn), LociOf(x), LociOf(y)) ELSE newLocations[z]]
  BY DEF ApplyOperator, Spell
<1>3. Applied(x, y, key)
  BY <1>1, <1>2, Zenon DEF Applied
<1> QED  BY <1>3

LEMMA OperatorApplied == ASSUME EvalInv, ApplyOperator PROVE EvalInv'
<1>1. /\ phase = "evaluate" /\ UNCHANGED <<idx, ops, phase, tokens, locations>>
      /\ rpn # <<>> /\ rpn' = Tail(rpn)
  BY DEF ApplyOperator, yard, query
<1>2. /\ rpn' \in Seq(Tokens) /\ Head(rpn) \in Tokens
      /\ \A k \in 1..Len(rpn') : rpn'[k] # RightParen /\ (rpn'[k] = LeftParen => ~TokensBalanced)
  BY <1>1, QueueTail
<1> DEFINE n == Len(operands)
<1>3. PICK x, y, key : Applied(x, y, key)
  BY AppliedIs
<1>4. operands \in Seq(Spellings) /\ n \in Nat /\ n >= 2 /\ n - 1 \in 1..n /\ n \in 1..n
  BY <1>3 DEF EvalInv, EvalTypes, Applied
<1>5. x \in Spellings /\ y \in Spellings /\ IsList(LociOf(x)) /\ IsList(LociOf(y))
  BY <1>3, <1>4, OperandList, ElementOfSeq DEF Applied
<1>6. key \in Spellings
  BY <1>2, <1>3, <1>5, SpellIs DEF Applied
<1> DEFINE front == SubSeq(operands, 1, n - 2)
<1>7. /\ front \in Seq(Spellings) /\ Len(front) = n - 2
      /\ \A k \in 1..(n - 2) : front[k] = operands[k] /\ k \in 1..n
  <2>1. n - 2 \in 0..n /\ \A k \in 1..(n - 2) : k \in 1..n
    BY <1>4
  <2> QED  BY <1>4, <2>1, PrefixIs
<1>8. operands' = Append(front, key)
  BY <1>3 DEF Applied
<1> HIDE DEF front
<1>9. /\ operands' \in Seq(Spellings) /\ Len(operands') = n - 1 /\ operands'[n - 1] = key
      /\ \A k \in 1..(n - 2) : operands'[k] = front[k]
  <2>1. /\ operands' \in Seq(Spellings) /\ Len(operands') = Len(front) + 1 /\ operands'[Len(front) + 1] = key
        /\ \A k \in 1..Len(front) : operands'[k] = front[k]
    BY <1>6, <1>7, <1>8, AppendProperties
  <2>2. n - 2 + 1 = n - 1
    BY <1>4
  <2> QED  BY <1>7, <2>1, <2>2
<1>10. EvalTypes'
  BY <1>1, <1>2, <1>9 DEF EvalInv, EvalTypes
<1>11. Yard'
  BY <1>1, <1>2, DepthSame DEF EvalInv, Yard, IsOperator
<1> DEFINE result == Apply(Head(rpn), LociOf(x), LociOf(y))
<1>12. /\ newLocations' = [z \in DOMAIN newLocations \cup {key} |-> IF z = key THEN result ELSE newLocations[z]]
       /\ IsList(result)
  BY <1>3, <1>5, ApplyAscends DEF Applied
<1> HIDE DEF result
<1>13. Known'
  <2>1. DOMAIN newLocations' = DOMAIN newLocations \cup {key}
    BY <1>12
  <2>2. ASSUME NEW k \in 1..Len(operands')
        PROVE  operands'[k] \in {<<z>> : z \in Patterns} \cup DOMAIN newLocations'
    <3>1. CASE k = n - 1
      BY <1>9, <2>1, <3>1
    <3>2. CASE k # n - 1
      <4>1. k \in 1..(n - 2)
        BY <1>4, <1>9, <3>2
      <4> QED  BY <1>7, <1>9, <2>1, <4>1 DEF EvalInv, Known
    <3> QED  BY <3>1, <3>2
  <2>3. ASSUME NEW z \in DOMAIN newLocations' PROVE IsList(newLocations'[z])
    <3>1. CASE z = key
      BY <1>12, <2>1, <3>1
    <3>2. CASE z # key
      <4>1. z \in DOMAIN newLocations /\ newLocations'[z] = newLocations[z]
        BY <1>12, <2>1, <3>2
      <4> QED  BY <4>1 DEF EvalInv, Known
    <3> QED  BY <3>1, <3>2
  <2> QED  BY <1>1, <2>2, <2>3 DEF Known, IsList, Ascending
<1>14. TextTypes'
  BY ExpressionStays DEF EvalInv, ApplyOperator
<1> QED  BY <1>10, <1>11, <1>13, <1>14 DEF EvalInv

\* A step that changes no more than the phase, and that to an outcome.
LEMMA OnlyThePhase ==
  ASSUME EvalInv, UNCHANGED <<written, tokens, locations, idx, ops, rpn, operands, newLocations>>,
         phase' \in Outcomes,
         phase' = "syntax_error" => phase \in {"check", "split", "convert"}
  PROVE  EvalInv'
<1> USE DEF Outcomes
<1>1. EvalTypes'
  BY DEF EvalInv, EvalTypes
<1>2. Yard'
  BY DepthSame DEF EvalInv, Yard, IsOperator
<1>3. Known'
  BY DEF EvalInv, Known
<1>4. TextTypes'
  BY ExpressionStays DEF EvalInv
<1> QED  BY <1>1, <1>2, <1>3, <1>4 DEF EvalInv

\* What tokenize adds is a token.
LEMMA PartOfText ==
  ASSUME TextTypes, NEW i \in 1..Len(raw_expression), NEW j \in 0..Len(raw_expression)
  PROVE  SubSeq(raw_expression, i, j) \in Seq(Symbols)
<1>1. raw_expression \in Seq(Symbols) /\ Len(raw_expression) \in Nat
  BY ExpressionTextsAssumption DEF TextTypes
<1>2. \A k \in i..j : raw_expression[k] \in Symbols
  BY <1>1
<1> QED  BY <1>1, <1>2

LEMMA TokensAdded ==
  ASSUME EvalInv, phase = "split", phase' = phase, NEW t \in Tokens, tokens' = Append(tokens, t),
         UNCHANGED <<locations, yard, rpn, machine>>
  PROVE  EvalTypes' /\ Yard' /\ Known'
<1>1. /\ tokens \in Seq(Tokens) /\ idx = 1 /\ ops = <<>> /\ rpn = <<>>
      /\ UNCHANGED <<locations, idx, ops, rpn, operands, newLocations>>
  BY DEF EvalInv, EvalTypes, Yard, yard, machine
<1>2. tokens' \in Seq(Tokens) /\ Len(tokens') \in Nat
  BY <1>1, AppendProperties
<1>3. EvalTypes'
  BY <1>1, <1>2 DEF EvalInv, EvalTypes
<1>4. Yard'
  BY <1>1 DEF Yard
<1>5. Known'
  BY <1>1 DEF EvalInv, Known
<1> QED  BY <1>3, <1>4, <1>5

\* A step of tokenize that changes no tokens.
LEMMA TokensSame ==
  ASSUME EvalInv, phase \in {"check", "split"}, UNCHANGED <<tokens, locations, yard, rpn, machine>>,
         phase' \in {"check", "split", "convert", "syntax_error", "undefined"}
  PROVE  EvalTypes' /\ Yard' /\ Known'
<1>1. /\ ops \in Seq(Tokens) /\ idx = 1 /\ ops = <<>> /\ rpn = <<>> /\ operands = <<>> /\ newLocations = <<>>
      /\ UNCHANGED <<tokens, locations, idx, ops, rpn, operands, newLocations>>
  BY DEF EvalInv, EvalTypes, Yard, Known, yard, machine
<1>2. EvalTypes'
  BY <1>1 DEF EvalInv, EvalTypes, Outcomes
<1>3. Opened(ops)' = 0 /\ TokenDepth(idx - 1)' = 0
  <2>1. Opened(ops) = 0 /\ Opened(ops)' = Opened(ops)
    BY <1>1, NothingOpened
  <2>2. TokenDepth(idx - 1)' = TokenDepth(idx' - 1)
    BY <1>1, DepthSame
  <2>3. idx' - 1 = 0
    BY <1>1
  <2> QED  BY <2>1, <2>2, <2>3, TokenDepthIs
<1>4. Yard'
  BY <1>1, <1>3 DEF Yard
<1>5. Known'
  BY <1>1 DEF EvalInv, Known
<1> QED  BY <1>2, <1>4, <1>5

LEMMA TokenizeKept == ASSUME EvalInv, Tokenize PROVE EvalInv'
<1>1. TokenNext /\ UNCHANGED <<locations, yard, rpn, machine>>
  BY DEF Tokenize
<1>2. /\ TextTypes /\ raw_expression \in Seq(Symbols) /\ Len(raw_expression) \in Nat
      /\ cursor \in 1..(Len(raw_expression) + 1) /\ brackets \in Seq({"left_brace", "("})
  BY ExpressionTextsAssumption DEF EvalInv, TextTypes
<1>3. CASE NoBrace
  <2>1. TextTypes'
    BY <1>2, <1>3 DEF NoBrace, TextTypes
  <2>2. EvalTypes' /\ Yard' /\ Known'
    BY <1>1, <1>3, TokensSame DEF NoBrace
  <2> QED  BY <2>1, <2>2 DEF EvalInv
<1>4. CASE PassSymbol
  <2>1. TextTypes'
    BY <1>2, <1>4 DEF PassSymbol, Scanning, TextTypes
  <2>2. EvalTypes' /\ Yard' /\ Known'
    BY <1>1, <1>4, TokensSame DEF PassSymbol, Scanning
  <2> QED  BY <2>1, <2>2 DEF EvalInv
<1>5. CASE OpenBracket
  <2>1. brackets' \in Seq({"left_brace", "("})
    BY <1>2, <1>5, AppendProperties DEF OpenBracket
  <2>2. TextTypes'
    BY <1>2, <1>5, <2>1 DEF OpenBracket, Scanning, TextTypes
  <2>3. EvalTypes' /\ Yard' /\ Known'
    BY <1>1, <1>5, TokensSame DEF OpenBracket, Scanning
  <2> QED  BY <2>2, <2>3 DEF EvalInv
<1>6. CASE CloseBracket
  <2>1. brackets' \in Seq({"left_brace", "("})
    <3>1. brackets # <<>> /\ brackets' = SubSeq(brackets, 1, Len(brackets) - 1)
      BY <1>6 DEF CloseBracket, IsClosed
    <3>2. Len(brackets) - 1 \in 0..Len(brackets)
      BY <1>2, <3>1, EmptySeq
    <3> QED  BY <1>2, <3>1, <3>2, PrefixIs
  <2>2. TextTypes'
    BY <1>2, <1>6, <2>1 DEF CloseBracket, Scanning, TextTypes
  <2>3. EvalTypes' /\ Yard' /\ Known'
    BY <1>1, <1>6, TokensSame DEF CloseBracket, Scanning
  <2> QED  BY <2>2, <2>3 DEF EvalInv
<1>7. CASE MismatchedBracket
  <2>1. TextTypes'
    BY <1>2, <1>7 DEF MismatchedBracket, Scanning, TextTypes
  <2>2. EvalTypes' /\ Yard' /\ Known'
    BY <1>1, <1>7, TokensSame DEF MismatchedBracket, Scanning
  <2> QED  BY <2>1, <2>2 DEF EvalInv
<1>8. CASE EndCheck
  <2>1. TextTypes'
    BY <1>2, <1>8 DEF EndCheck, TextTypes
  <2>2. EvalTypes' /\ Yard' /\ Known'
    BY <1>1, <1>8, TokensSame DEF EndCheck
  <2> QED  BY <2>1, <2>2 DEF EvalInv
<1>9. CASE SkipBlank
  <2>1. TextTypes'
    BY <1>2, <1>9 DEF SkipBlank, Splitting, TextTypes
  <2>2. EvalTypes' /\ Yard' /\ Known'
    BY <1>1, <1>9, TokensSame DEF SkipBlank, Splitting
  <2> QED  BY <2>1, <2>2 DEF EvalInv
<1>10. CASE SplitPattern
  <2>1. PICK next \in FirstOf({"right_brace"}) :
          /\ tokens' = Append(tokens, Pattern(SubSeq(raw_expression, cursor + 1, next - 1)))
          /\ cursor' = next + 1
    BY <1>10 DEF SplitPattern
  <2>2. /\ phase = "split" /\ phase' = phase /\ symbol = "left_brace" /\ cursor \in 1..Len(raw_expression)
        /\ UNCHANGED <<raw_expression, brackets>>
    BY <1>2, <1>10 DEF SplitPattern, Splitting
  <2>3. /\ next \in (cursor + 1)..Len(raw_expression) /\ raw_expression[next] = "right_brace"
        /\ \A k \in (cursor + 1)..(next - 1) : raw_expression[k] # "right_brace"
    BY <2>1 DEF FirstOf
  <2>4. Pattern(SubSeq(raw_expression, cursor + 1, next - 1)) \in Tokens
    <3>1. <<cursor, next>> \in Stretches(raw_expression)
      BY <1>2, <2>2, <2>3 DEF Stretches, symbol
    <3> QED  BY <1>2, <3>1 DEF TextTypes, Patterns, Tokens
  <2>5. TextTypes'
    BY <1>2, <2>1, <2>2, <2>3 DEF TextTypes
  <2>6. EvalTypes' /\ Yard' /\ Known'
    BY <1>1, <2>1, <2>2, <2>4, TokensAdded
  <2> QED  BY <2>5, <2>6 DEF EvalInv
<1>11. CASE SplitParenthesis
  <2>1. /\ phase = "split" /\ phase' = phase /\ symbol \in {"(", ")"} /\ cursor \in 1..Len(raw_expression)
        /\ UNCHANGED <<raw_expression, brackets>> /\ cursor' = cursor + 1
        /\ tokens' = Append(tokens, Operator(<<symbol>>))
    BY <1>2, <1>11 DEF SplitParenthesis, Splitting
  <2>2. Operator(<<symbol>>) \in Tokens
    BY <2>1, ParenthesesAre DEF LeftParen, RightParen
  <2>3. TextTypes'
    BY <1>2, <2>1 DEF TextTypes
  <2>4. EvalTypes' /\ Yard' /\ Known'
    BY <1>1, <2>1, <2>2, TokensAdded
  <2> QED  BY <2>3, <2>4 DEF EvalInv
<1>12. CASE SplitOperator
  <2>1. PICK next \in FirstOf({"space", "left_brace", "("}) :
          /\ tokens' = Append(tokens, Operator(SubSeq(raw_expression, cursor, next - 1)))
          /\ cursor' = next
    BY <1>12 DEF SplitOperator
  <2>2. /\ phase = "split" /\ phase' = phase /\ cursor \in 1..Len(raw_expression)
        /\ UNCHANGED <<raw_expression, brackets>>
    BY <1>2, <1>12 DEF SplitOperator, Splitting
  <2>3. next \in (cursor + 1)..Len(raw_expression)
    BY <2>1 DEF FirstOf
  <2>4. Operator(SubSeq(raw_expression, cursor, next - 1)) \in Tokens
    <3>1. next - 1 \in 0..Len(raw_expression)
      BY <1>2, <2>2, <2>3
    <3> QED  BY <1>2, <2>2, <3>1, PartOfText DEF Tokens
  <2>5. TextTypes'
    BY <1>2, <2>1, <2>2, <2>3 DEF TextTypes
  <2>6. EvalTypes' /\ Yard' /\ Known'
    BY <1>1, <2>1, <2>2, <2>4, TokensAdded
  <2> QED  BY <2>5, <2>6 DEF EvalInv
<1>13. CASE RunPastEnd
  <2>1. /\ phase = "split" /\ cursor \in 1..Len(raw_expression) /\ UNCHANGED <<raw_expression, brackets>>
    BY <1>2, <1>13 DEF RunPastEnd, Splitting
  <2>2. CASE phase' = "undefined" /\ UNCHANGED <<cursor, tokens>>
    <3>1. TextTypes'
      BY <1>2, <2>1, <2>2 DEF TextTypes
    <3>2. EvalTypes' /\ Yard' /\ Known'
      BY <1>1, <2>1, <2>2, TokensSame
    <3> QED  BY <3>1, <3>2 DEF EvalInv
  <2>3. CASE /\ tokens' = Append(tokens, Operator(SubSeq(raw_expression, cursor, Len(raw_expression))))
             /\ cursor' = Len(raw_expression) + 1
             /\ phase' = phase
    <3>1. Operator(SubSeq(raw_expression, cursor, Len(raw_expression))) \in Tokens
      <4>1. Len(raw_expression) \in 0..Len(raw_expression)
        BY <1>2
      <4> QED  BY <1>2, <2>1, <4>1, PartOfText DEF Tokens
    <3>2. TextTypes'
      BY <1>2, <2>1, <2>3 DEF TextTypes
    <3>3. EvalTypes' /\ Yard' /\ Known'
      BY <1>1, <2>1, <2>3, <3>1, TokensAdded
    <3> QED  BY <3>2, <3>3 DEF EvalInv
  <2> QED  BY <1>13, <2>2, <2>3 DEF RunPastEnd
<1>14. CASE EndSplit
  <2>1. TextTypes'
    BY <1>2, <1>14 DEF EndSplit, TextTypes
  <2>2. EvalTypes' /\ Yard' /\ Known'
    BY <1>1, <1>14, TokensSame DEF EndSplit
  <2> QED  BY <2>1, <2>2 DEF EvalInv
<1> QED  BY <1>1, <1>3, <1>4, <1>5, <1>6, <1>7, <1>8, <1>9, <1>10, <1>11, <1>12, <1>13, <1>14 DEF TokenNext

LEMMA EvalKept == EvalInv /\ [EvalNext]_eval_vars => EvalInv'
<1> SUFFICES ASSUME EvalInv, [EvalNext]_eval_vars PROVE EvalInv'
  OBVIOUS
<1> USE DEF Outcomes
<1>1. CASE Tokenize
  BY <1>1, TokenizeKept
<1>2. CASE PushPattern
  BY <1>2, PatternQueued
<1>3. CASE RejectOperator
  <2>1. /\ UNCHANGED <<written, tokens, locations, idx, ops, rpn, operands, newLocations>>
        /\ phase = "convert" /\ phase' = "syntax_error"
    BY <1>3 DEF RejectOperator, Convert, yard, machine, query
  <2> QED  BY <2>1, OnlyThePhase
<1>4. CASE PopOperator
  <2>1. /\ phase = "convert" /\ ops # <<>> /\ Last(ops) # LeftParen
        /\ rpn' = Append(rpn, Last(ops)) /\ ops' = Front(ops)
        /\ UNCHANGED <<idx, phase, machine, query, written>>
    BY <1>4 DEF PopOperator, Convert, MustPop, IsOperator, Parentheses
  <2> QED  BY <2>1, TopMoves
<1>5. CASE PushOperator
  BY <1>5, TokenMoves DEF PushOperator, Convert
<1>6. CASE OpenParenthesis
  BY <1>6, TokenMoves DEF OpenParenthesis, Convert
<1>7. CASE CloseParenthesis
  <2>1. /\ phase = "convert" /\ idx <= Len(tokens) /\ token = RightParen /\ ops # <<>>
        /\ UNCHANGED <<machine, query, written>>
    BY <1>7 DEF CloseParenthesis, Convert
  <2>2. CASE Last(ops) # LeftParen
    <3>1. rpn' = Append(rpn, Last(ops)) /\ ops' = Front(ops) /\ UNCHANGED <<idx, phase>>
      BY <1>7, <2>2 DEF CloseParenthesis
    <3> QED  BY <2>1, <2>2, <3>1, TopMoves
  <2>3. CASE Last(ops) = LeftParen
    <3>1. ops' = Front(ops) /\ idx' = idx + 1 /\ UNCHANGED <<rpn, phase>>
      BY <1>7, <2>3 DEF CloseParenthesis
    <3> QED  BY <2>1, <2>3, <3>1, ParenthesisClosed
  <2> QED  BY <2>2, <2>3
<1>8. CASE EmptyStack
  <2>1. /\ UNCHANGED <<written, tokens, locations, idx, ops, rpn, operands, newLocations>>
        /\ phase' = "undefined"
    BY <1>8 DEF EmptyStack, Convert, yard, machine, query
  <2> QED  BY <2>1, OnlyThePhase
<1>9. CASE Drain
  BY <1>9, StackDrained
<1>10. CASE PushOperand
  BY <1>10, OperandPushed
<1>11. CASE ApplyOperator
  BY <1>11, OperatorApplied
<1>12. CASE Underflow \/ NumberMissing \/ ReturnLoci
  <2>1. /\ UNCHANGED <<written, tokens, locations, idx, ops, rpn, operands, newLocations>>
        /\ phase' \in {"undefined", "invalid_argument", "done"}
    BY <1>12 DEF Underflow, NumberMissing, ReturnLoci, yard, machine, query
  <2> QED  BY <2>1, OnlyThePhase
<1>13. CASE UNCHANGED eval_vars
  <2>1. UNCHANGED <<written, tokens, locations, idx, ops, rpn, operands, newLocations, phase>>
    BY <1>13 DEF eval_vars, token_vars, written
  <2>2. TokenDepth(idx - 1)' = TokenDepth(idx - 1) /\ TokensBalanced' = TokensBalanced /\ Opened(ops') = Opened(ops)
    BY <2>1, DepthSame
  <2>3. EvalTypes'
    BY <2>1 DEF EvalInv, EvalTypes
  <2>4. Yard'
    BY <2>1, <2>2 DEF EvalInv, Yard, IsOperator, Opened
  <2>5. Known'
    BY <2>1 DEF EvalInv, Known
  <2>6. TextTypes'
    BY <2>1, ExpressionStays DEF EvalInv
  <2> QED  BY <2>3, <2>4, <2>5, <2>6 DEF EvalInv
<1> QED  BY <1>1, <1>2, <1>3, <1>4, <1>5, <1>6, <1>7, <1>8, <1>9, <1>10, <1>11, <1>12, <1>13 DEF EvalNext

\* What the machine of convert_to_rpn and evaluate_expression keeps.
THEOREM EvalTypeCorrect == EvalSpec => []EvalInv
<1> QED  BY EvalBegins, EvalKept, PTL DEF EvalSpec

\* Every list the machine computes is ascending, whatever is written.
THEOREM ListsAreAscending == EvalSpec => []ListsAscending
<1>1. EvalInv => ListsAscending
  BY DEF EvalInv, Known, ListsAscending, IsList
<1> QED  BY <1>1, EvalTypeCorrect, PTL
------------------------------------------------------------------------------
(* What the bracket check of the characters leaves for the tokens. *)

ParenDepth(n) == Nesting(raw_expression, n, "(", ")")

NoBraces(i, j) == \A k \in i..j : raw_expression[k] \notin {"left_brace", "right_brace"}

\* Between a "{" and the "}" that follows it parentheses are balanced.
StretchesEven(p) ==
  \A i, j \in 1..p :
    i < j /\ raw_expression[i] = "left_brace" /\ raw_expression[j] = "right_brace" /\ NoBraces(i + 1, j - 1)
      => ParenDepth(j) = ParenDepth(i)

\* The stack of the check after p characters: it holds the open parentheses,
\* and the "{" that is the last brace met, at its place among them.
CheckedTo(stack, p) ==
  /\ \A n \in 0..p : ParenDepth(n) >= 0
  /\ ParenDepth(p) = Tally(stack, Len(stack), "(")
  /\ \A i \in 1..p :
       raw_expression[i] = "left_brace" /\ NoBraces(i + 1, p) =>
         \E brace \in 1..Len(stack) :
           /\ stack[brace] = "left_brace"
           /\ \A k \in (brace + 1)..Len(stack) : stack[k] = "("
           /\ ParenDepth(i) = Tally(stack, brace, "(")
  /\ StretchesEven(p)

CheckPassed ==
  /\ \A n \in 0..Len(raw_expression) : ParenDepth(n) >= 0
  /\ StretchesEven(Len(raw_expression))

\* The depth of the tokens against that of the text they are read from: it is
\* never below it, since only operators lose a ")" and patterns are even.
TokensNest ==
  /\ \A n \in 1..Len(tokens) : TokenDepth(n) >= 0
  /\ TokenDepth(Len(tokens)) >= ParenDepth(cursor - 1)
  /\ ParenthesesApart => TokenDepth(Len(tokens)) = ParenDepth(cursor - 1)

MatchInv ==
  /\ phase = "check" => CheckedTo(brackets, cursor - 1) /\ tokens = <<>>
  /\ phase = "split" => CheckPassed /\ ParenDepth(Len(raw_expression)) = 0
  /\ phase = "split" /\ BracesApart => TokensNest
  /\ phase \in {"convert", "evaluate"} /\ BracesApart =>
       /\ \A n \in 1..Len(tokens) : TokenDepth(n) >= 0
       /\ ParenthesesApart => TokensBalanced

LEMMA TallySame ==
  ASSUME NEW q, NEW r, NEW t, NEW n, \A k \in 1..n : q[k] = r[k]
  PROVE  Tally(q, n, t) = Tally(r, n, t)
<1>1. {k \in 1..n : q[k] = t} = {k \in 1..n : r[k] = t}
  OBVIOUS
<1> QED  BY <1>1 DEF Tally

LEMMA TallyGrows ==
  ASSUME NEW q, NEW t, NEW n \in Nat, NEW m \in Nat, n <= m
  PROVE  /\ Tally(q, n, t) <= Tally(q, m, t)
         /\ (\A k \in (n + 1)..m : q[k] # t) => Tally(q, n, t) = Tally(q, m, t)
<1> DEFINE P(l) == {k \in 1..l : q[k] = t}
<1>1. IsFiniteSet(1..m)
  BY FS_Interval
<1>2. P(n) \subseteq P(m) /\ P(m) \in SUBSET (1..m)
  OBVIOUS
<1>3. (\A k \in (n + 1)..m : q[k] # t) => P(n) = P(m)
  OBVIOUS
<1> HIDE DEF P
<1>4. Cardinality(P(n)) <= Cardinality(P(m))
  BY <1>1, <1>2, FS_Subset
<1>5. Tally(q, n, t) = Cardinality(P(n)) /\ Tally(q, m, t) = Cardinality(P(m))
  BY DEF Tally, P
<1> QED  BY <1>3, <1>4, <1>5

LEMMA NestingSame ==
  ASSUME NEW q, NEW r, NEW open, NEW close, NEW n, \A k \in 1..n : q[k] = r[k]
  PROVE  Nesting(q, n, open, close) = Nesting(r, n, open, close)
<1>1. Tally(q, n, open) = Tally(r, n, open) /\ Tally(q, n, close) = Tally(r, n, close)
  BY TallySame
<1>2. /\ Nesting(q, n, open, close) = Tally(q, n, open) - Tally(q, n, close)
      /\ Nesting(r, n, open, close) = Tally(r, n, open) - Tally(r, n, close)
  BY NestingIs, Zenon
<1> QED  BY <1>1, <1>2

\* Where nothing opens the depth does not grow.
LEMMA NestingFalls ==
  ASSUME NEW q, NEW open, NEW close, NEW n \in Nat, NEW m \in Nat, n <= m,
         \A k \in (n + 1)..m : q[k] # open
  PROVE  /\ Nesting(q, m, open, close) <= Nesting(q, n, open, close)
         /\ (\A k \in (n + 1)..m : q[k] # close) => Nesting(q, m, open, close) = Nesting(q, n, open, close)
<1>1. /\ Tally(q, n, open) \in Nat /\ Tally(q, n, close) \in Nat
      /\ Tally(q, m, open) \in Nat /\ Tally(q, m, close) \in Nat
  BY TallyType
<1>2. /\ Tally(q, n, open) = Tally(q, m, open)
      /\ Tally(q, n, close) <= Tally(q, m, close)
      /\ (\A k \in (n + 1)..m : q[k] # close) => Tally(q, n, close) = Tally(q, m, close)
  BY TallyGrows
<1>3. /\ Nesting(q, n, open, close) = Tally(q, n, open) - Tally(q, n, close)
      /\ Nesting(q, m, open, close) = Tally(q, m, open) - Tally(q, m, close)
  BY NestingIs, Zenon
<1> QED  BY <1>1, <1>2, <1>3

LEMMA ParenDepthIs ==
  /\ ParenDepth(0) = 0
  /\ \A n \in Nat : ParenDepth(n) \in Int
<1>1. Nesting(raw_expression, 0, "(", ")") = 0
  BY NestingStarts, Zenon
<1>2. \A n \in Nat : Nesting(raw_expression, n, "(", ")") \in Int
  BY NestingType, Zenon
<1> QED  BY <1>1, <1>2, Zenon DEF ParenDepth

LEMMA ParenDepthStep ==
  ASSUME NEW n \in Nat \ {0}
  PROVE  /\ raw_expression[n] = "(" => ParenDepth(n) = ParenDepth(n - 1) + 1
         /\ raw_expression[n] = ")" => ParenDepth(n) = ParenDepth(n - 1) - 1
         /\ raw_expression[n] \notin {"(", ")"} => ParenDepth(n) = ParenDepth(n - 1)
<1>1. "(" # ")"
  OBVIOUS
<1> QED  BY <1>1, NestingStep DEF ParenDepth

LEMMA CheckedSame ==
  ASSUME UNCHANGED raw_expression
  PROVE  /\ \A n : ParenDepth(n)' = ParenDepth(n)
         /\ CheckedTo(brackets, cursor - 1)' <=> CheckedTo(brackets', cursor' - 1)
         /\ CheckPassed' <=> CheckPassed
<1>1. \A n : ParenDepth(n)' = ParenDepth(n)
  BY DEF ParenDepth
<1>2. CheckedTo(brackets, cursor - 1)' <=> CheckedTo(brackets', cursor' - 1)
  BY DEF CheckedTo, StretchesEven, NoBraces, ParenDepth
<1>3. CheckPassed' <=> CheckPassed
  BY DEF CheckPassed, StretchesEven, NoBraces, ParenDepth
<1> QED  BY <1>1, <1>2, <1>3

\* One more character that is no "}".
LEMMA StretchesGrow ==
  ASSUME NEW p \in Nat, StretchesEven(p), raw_expression[p + 1] # "right_brace"
  PROVE  StretchesEven(p + 1)
BY DEF StretchesEven

LEMMA CheckBegins == CheckedTo(<<>>, 0)
<1>1. ParenDepth(0) = 0 /\ Tally(<<>>, Len(<<>>), "(") = 0
  BY ParenDepthIs, TallyStarts
<1> QED  BY <1>1 DEF CheckedTo, StretchesEven

\* The depth after one more character, if it is that of a stack.
LEMMA StillOpen ==
  ASSUME NEW p \in Nat, \A n \in 0..p : ParenDepth(n) >= 0,
         NEW stack, NEW m \in Nat, ParenDepth(p + 1) = Tally(stack, m, "(")
  PROVE  \A n \in 0..(p + 1) : ParenDepth(n) >= 0
<1>1. Tally(stack, m, "(") \in Nat
  BY TallyType
<1>2. ParenDepth(p + 1) >= 0
  BY <1>1
<1> QED  BY <1>2

LEMMA CheckedPass ==
  ASSUME NEW stack \in Seq({"left_brace", "("}), NEW p \in Nat, CheckedTo(stack, p),
         raw_expression[p + 1] \notin {"left_brace", "right_brace", "(", ")"}
  PROVE  CheckedTo(stack, p + 1)
<1>1. ParenDepth(p + 1) = ParenDepth(p)
  BY ParenDepthStep
<1>2. ParenDepth(p + 1) = Tally(stack, Len(stack), "(") /\ Len(stack) \in Nat
  BY <1>1 DEF CheckedTo
<1>3. \A n \in 0..(p + 1) : ParenDepth(n) >= 0
  BY <1>2, StillOpen DEF CheckedTo
<1>4. ASSUME NEW i \in 1..(p + 1), raw_expression[i] = "left_brace", NoBraces(i + 1, p + 1)
      PROVE  \E brace \in 1..Len(stack) :
               /\ stack[brace] = "left_brace"
               /\ \A k \in (brace + 1)..Len(stack) : stack[k] = "("
               /\ ParenDepth(i) = Tally(stack, brace, "(")
  <2>1. i \in 1..p /\ NoBraces(i + 1, p)
    BY <1>4 DEF NoBraces
  <2> QED  BY <1>4, <2>1 DEF CheckedTo
<1>5. StretchesEven(p + 1)
  BY StretchesGrow DEF CheckedTo
<1> QED  BY <1>2, <1>3, <1>4, <1>5 DEF CheckedTo

LEMMA CheckedPush ==
  ASSUME NEW stack \in Seq({"left_brace", "("}), NEW p \in Nat, CheckedTo(stack, p),
         raw_expression[p + 1] \in {"left_brace", "("}
  PROVE  CheckedTo(Append(stack, raw_expression[p + 1]), p + 1)
<1> DEFINE new == Append(stack, raw_expression[p + 1])
           n == Len(stack)
<1>1. /\ n \in Nat /\ Len(new) = n + 1 /\ new[n + 1] = raw_expression[p + 1]
      /\ \A k \in 1..n : new[k] = stack[k]
  BY AppendProperties
<1> HIDE DEF new
<1>2. \A m \in 0..n : Tally(new, m, "(") = Tally(stack, m, "(") /\ Tally(stack, m, "(") \in Nat
  <2> TAKE m \in 0..n
  <2>1. m \in Nat /\ \A k \in 1..m : new[k] = stack[k]
    BY <1>1
  <2> QED  BY <2>1, TallySame, TallyType
<1>3. Tally(new, n + 1, "(") = IF raw_expression[p + 1] = "(" THEN Tally(stack, n, "(") + 1 ELSE Tally(stack, n, "(")
  <2>1. n + 1 \in Nat \ {0} /\ n + 1 - 1 = n /\ n \in 0..n
    BY <1>1
  <2>2. Tally(new, n + 1, "(") =
          IF new[n + 1] = "(" THEN Tally(new, n + 1 - 1, "(") + 1 ELSE Tally(new, n + 1 - 1, "(")
    BY <2>1, TallyStep
  <2> QED  BY <1>1, <1>2, <2>1, <2>2
<1>4. /\ ParenDepth(p) = Tally(stack, n, "(") /\ Tally(stack, n, "(") \in Nat
      /\ raw_expression[p + 1] = "(" => ParenDepth(p + 1) = ParenDepth(p) + 1
      /\ raw_expression[p + 1] = "left_brace" => ParenDepth(p + 1) = ParenDepth(p)
  <2>1. p + 1 \in Nat \ {0} /\ p + 1 - 1 = p /\ n \in 0..n
    BY <1>1
  <2>2. /\ raw_expression[p + 1] = "(" => ParenDepth(p + 1) = ParenDepth(p + 1 - 1) + 1
        /\ raw_expression[p + 1] \notin {"(", ")"} => ParenDepth(p + 1) = ParenDepth(p + 1 - 1)
    BY <2>1, ParenDepthStep
  <2> QED  BY <1>2, <2>1, <2>2 DEF CheckedTo
<1>5. ParenDepth(p + 1) = Tally(new, Len(new), "(")
  BY <1>1, <1>3, <1>4
<1>6. \A m \in 0..(p + 1) : ParenDepth(m) >= 0
  BY <1>1, <1>5, StillOpen DEF CheckedTo
<1>7. ASSUME NEW i \in 1..(p + 1), raw_expression[i] = "left_brace", NoBraces(i + 1, p + 1)
      PROVE  \E brace \in 1..Len(new) :
               /\ new[brace] = "left_brace"
               /\ \A k \in (brace + 1)..Len(new) : new[k] = "("
               /\ ParenDepth(i) = Tally(new, brace, "(")
  <2>1. CASE i = p + 1
    <3>1. n + 1 \in 1..Len(new) /\ new[n + 1] = "left_brace" /\ ParenDepth(i) = Tally(new, n + 1, "(")
      BY <1>1, <1>5, <1>7, <2>1
    <3>2. \A k \in (n + 2)..Len(new) : new[k] = "("
      BY <1>1
    <3> QED  BY <1>1, <3>1, <3>2
  <2>2. CASE i # p + 1
    <3>1. i \in 1..p /\ NoBraces(i + 1, p) /\ raw_expression[p + 1] = "("
      BY <1>7, <2>2 DEF NoBraces
    <3>2. PICK brace \in 1..n : /\ stack[brace] = "left_brace"
                                /\ \A k \in (brace + 1)..n : stack[k] = "("
                                /\ ParenDepth(i) = Tally(stack, brace, "(")
      BY <1>7, <3>1 DEF CheckedTo
    <3>3. brace \in 1..Len(new) /\ new[brace] = "left_brace" /\ ParenDepth(i) = Tally(new, brace, "(")
      <4>1. brace \in 0..n /\ brace \in 1..Len(new)
        BY <1>1, <3>2
      <4>2. new[brace] = "left_brace"
        BY <1>1, <3>2
      <4>3. Tally(new, brace, "(") = Tally(stack, brace, "(")
        BY <1>2, <4>1
      <4> QED  BY <3>2, <4>1, <4>2, <4>3
    <3>4. ASSUME NEW k \in (brace + 1)..Len(new) PROVE new[k] = "("
      <4>1. CASE k = n + 1
        BY <1>1, <3>1, <4>1
      <4>2. CASE k # n + 1
        BY <1>1, <3>2, <4>2
      <4> QED  BY <4>1, <4>2
    <3> QED  BY <3>3, <3>4
  <2> QED  BY <2>1, <2>2
<1>8. StretchesEven(p + 1)
  BY StretchesGrow DEF CheckedTo
<1>9. CheckedTo(new, p + 1)
  BY <1>5, <1>6, <1>7, <1>8 DEF CheckedTo
<1> QED  BY <1>9 DEF new

LEMMA CheckedPop ==
  ASSUME NEW stack \in Seq({"left_brace", "("}), stack # <<>>, NEW p \in Nat, CheckedTo(stack, p),
         Closes(stack[Len(stack)], raw_expression[p + 1])
  PROVE  CheckedTo(SubSeq(stack, 1, Len(stack) - 1), p + 1)
<1> DEFINE new == SubSeq(stack, 1, Len(stack) - 1)
           n == Len(stack)
<1>1. /\ n \in Nat \ {0} /\ Len(new) = n - 1 /\ n - 1 \in Nat
      /\ \A k \in 1..(n - 1) : new[k] = stack[k]
  <2>1. n \in Nat \ {0}
    BY EmptySeq
  <2>2. n - 1 \in 0..n /\ n - 1 \in Nat
    BY <2>1
  <2>3. Len(new) = n - 1 /\ \A k \in 1..(n - 1) : new[k] = stack[k]
    BY <2>2, PrefixIs
  <2> QED  BY <2>1, <2>2, <2>3
<1>2. \/ stack[n] = "left_brace" /\ raw_expression[p + 1] = "right_brace"
      \/ stack[n] = "(" /\ raw_expression[p + 1] = ")"
  <2>1. ASSUME NEW x1, NEW x2, NEW x3, NEW x4, <<x1, x2>> = <<x3, x4>> PROVE x1 = x3 /\ x2 = x4
    BY <2>1
  <2>2. \/ <<stack[n], raw_expression[p + 1]>> = <<"left_brace", "right_brace">>
        \/ <<stack[n], raw_expression[p + 1]>> = <<"(", ")">>
    BY DEF Closes
  <2> QED  BY <2>1, <2>2
<1> HIDE DEF new
<1>3. \A m \in 0..(n - 1) : Tally(new, m, "(") = Tally(stack, m, "(") /\ Tally(stack, m, "(") \in Nat
  <2> TAKE m \in 0..(n - 1)
  <2>1. m \in Nat /\ \A k \in 1..m : new[k] = stack[k]
    BY <1>1
  <2> QED  BY <2>1, TallySame, TallyType
<1>4. Tally(stack, n, "(") = IF stack[n] = "(" THEN Tally(stack, n - 1, "(") + 1 ELSE Tally(stack, n - 1, "(")
  BY <1>1, TallyStep
<1>5. /\ ParenDepth(p) = Tally(stack, n, "(")
      /\ raw_expression[p + 1] = ")" => ParenDepth(p + 1) = ParenDepth(p) - 1
      /\ raw_expression[p + 1] = "right_brace" => ParenDepth(p + 1) = ParenDepth(p)
  <2>1. p + 1 \in Nat \ {0} /\ p + 1 - 1 = p
    OBVIOUS
  <2>2. /\ raw_expression[p + 1] = ")" => ParenDepth(p + 1) = ParenDepth(p + 1 - 1) - 1
        /\ raw_expression[p + 1] \notin {"(", ")"} => ParenDepth(p + 1) = ParenDepth(p + 1 - 1)
    BY <2>1, ParenDepthStep
  <2> QED  BY <2>1, <2>2 DEF CheckedTo
<1>6. ParenDepth(p + 1) = Tally(new, Len(new), "(")
  <2>1. n - 1 \in 0..(n - 1)
    BY <1>1
  <2>2. Tally(new, n - 1, "(") = Tally(stack, n - 1, "(") /\ Tally(stack, n - 1, "(") \in Nat
    BY <1>3, <2>1
  <2> QED  BY <1>1, <1>2, <1>4, <1>5, <2>2
<1>7. \A m \in 0..(p + 1) : ParenDepth(m) >= 0
  BY <1>1, <1>6, StillOpen DEF CheckedTo
<1>8. ASSUME NEW i \in 1..(p + 1), raw_expression[i] = "left_brace", NoBraces(i + 1, p + 1)
      PROVE  \E brace \in 1..Len(new) :
               /\ new[brace] = "left_brace"
               /\ \A k \in (brace + 1)..Len(new) : new[k] = "("
               /\ ParenDepth(i) = Tally(new, brace, "(")
  <2>1. i \in 1..p /\ NoBraces(i + 1, p) /\ raw_expression[p + 1] = ")" /\ stack[n] = "("
    BY <1>2, <1>8 DEF NoBraces
  <2>2. PICK brace \in 1..n : /\ stack[brace] = "left_brace"
                              /\ \A k \in (brace + 1)..n : stack[k] = "("
                              /\ ParenDepth(i) = Tally(stack, brace, "(")
    BY <1>8, <2>1 DEF CheckedTo
  <2>3. brace \in 1..(n - 1)
    BY <1>1, <2>1, <2>2
  <2>4. /\ brace \in 1..Len(new) /\ new[brace] = "left_brace"
        /\ \A k \in (brace + 1)..Len(new) : new[k] = "("
    BY <1>1, <2>2, <2>3
  <2>5. brace \in 0..(n - 1)
    BY <2>3
  <2>6. ParenDepth(i) = Tally(new, brace, "(")
    BY <1>3, <2>2, <2>5
  <2> QED  BY <2>4, <2>6
<1>9. StretchesEven(p + 1)
  <2>1. CASE raw_expression[p + 1] = ")"
    BY <2>1, StretchesGrow DEF CheckedTo
  <2>2. CASE stack[n] = "left_brace" /\ raw_expression[p + 1] = "right_brace"
    <3> SUFFICES ASSUME NEW i \in 1..(p + 1), NEW j \in 1..(p + 1), i < j, raw_expression[i] = "left_brace",
                        raw_expression[j] = "right_brace", NoBraces(i + 1, j - 1)
                 PROVE  ParenDepth(j) = ParenDepth(i)
      BY DEF StretchesEven
    <3>1. CASE j # p + 1
      <4>1. i \in 1..p /\ j \in 1..p
        BY <1>1, <3>1
      <4> QED  BY <4>1 DEF CheckedTo, StretchesEven
    <3>2. CASE j = p + 1
      <4>1. i \in 1..p /\ NoBraces(i + 1, p)
        BY <3>2
      <4>2. PICK brace \in 1..n : /\ stack[brace] = "left_brace"
                                  /\ \A k \in (brace + 1)..n : stack[k] = "("
                                  /\ ParenDepth(i) = Tally(stack, brace, "(")
        BY <4>1 DEF CheckedTo
      <4>3. brace = n
        BY <1>1, <2>2, <4>2
      <4> QED  BY <1>5, <2>2, <3>2, <4>2, <4>3
    <3> QED  BY <3>1, <3>2
  <2> QED  BY <1>2, <2>1, <2>2
<1>10. CheckedTo(new, p + 1)
  BY <1>6, <1>7, <1>8, <1>9 DEF CheckedTo
<1> QED  BY <1>10 DEF new

LEMMA StretchHas ==
  ASSUME NEW e \in Seq(Symbols), NEW i \in 1..Len(e), NEW j \in 0..Len(e), NEW k \in i..j
  PROVE  e[k] \in ToSet(SubSeq(e, i, j))
<1>1. /\ Len(e) \in Nat /\ i \in Nat /\ j \in Nat
      /\ Len(SubSeq(e, i, j)) = j - i + 1 /\ SubSeq(e, i, j) \in Seq(Symbols)
      /\ \A l \in 1..(j - i + 1) : SubSeq(e, i, j)[l] = e[i + l - 1]
  BY \A l \in i..j : e[l] \in Symbols
<1>2. k - i + 1 \in 1..(j - i + 1) /\ i + (k - i + 1) - 1 = k
  BY <1>1
<1>3. SubSeq(e, i, j)[k - i + 1] = e[k]
  BY <1>1, <1>2
<1>4. k - i + 1 \in DOMAIN SubSeq(e, i, j)
  BY <1>1, <1>2
<1> QED  BY <1>3, <1>4 DEF ToSet

\* One more token.
LEMMA NestingAppend ==
  ASSUME NEW q \in Seq(Tokens), NEW t \in Tokens
  PROVE  LET l == Len(q)
             N(r, n) == Nesting(r, n, LeftParen, RightParen)
             new == N(Append(q, t), l + 1)
         IN  /\ \A n \in 0..l : N(Append(q, t), n) = N(q, n) /\ N(q, n) \in Int
             /\ t = LeftParen => new = N(q, l) + 1
             /\ t = RightParen => new = N(q, l) - 1
             /\ t \notin Parentheses => new = N(q, l)
<1> DEFINE l == Len(q)
           r == Append(q, t)
           N(z, n) == Nesting(z, n, LeftParen, RightParen)
<1>1. l \in Nat /\ Len(r) = l + 1 /\ r[l + 1] = t /\ \A k \in 1..l : r[k] = q[k]
  BY AppendProperties, LenProperties
<1> HIDE DEF r
<1>2. ASSUME NEW n \in 0..l PROVE N(r, n) = N(q, n) /\ N(q, n) \in Int
  <2>1. n \in Nat /\ \A k \in 1..n : r[k] = q[k]
    BY <1>1
  <2>2. Nesting(r, n, LeftParen, RightParen) = Nesting(q, n, LeftParen, RightParen)
    BY <2>1, NestingSame
  <2>3. Nesting(q, n, LeftParen, RightParen) \in Int
    BY <2>1, NestingType
  <2> QED  BY <2>2, <2>3
<1>3. LeftParen # RightParen /\ l + 1 \in Nat \ {0} /\ l + 1 - 1 = l /\ l \in 0..l
  BY <1>1, ParenthesesAre
<1>4. /\ r[l + 1] = LeftParen => N(r, l + 1) = N(r, l + 1 - 1) + 1
      /\ r[l + 1] = RightParen => N(r, l + 1) = N(r, l + 1 - 1) - 1
      /\ r[l + 1] \notin {LeftParen, RightParen} => N(r, l + 1) = N(r, l + 1 - 1)
  BY <1>3, NestingStep
<1>5. N(r, l) = N(q, l)
  BY <1>2, <1>3
<1>6. /\ t = LeftParen => N(r, l + 1) = N(q, l) + 1
      /\ t = RightParen => N(r, l + 1) = N(q, l) - 1
      /\ t \notin Parentheses => N(r, l + 1) = N(q, l)
  BY <1>1, <1>3, <1>4, <1>5 DEF Parentheses
<1> HIDE DEF N, l
<1>7. /\ \A n \in 0..l : N(r, n) = N(q, n) /\ N(q, n) \in Int
      /\ t = LeftParen => N(r, l + 1) = N(q, l) + 1
      /\ t = RightParen => N(r, l + 1) = N(q, l) - 1
      /\ t \notin Parentheses => N(r, l + 1) = N(q, l)
  BY <1>2, <1>6
<1> QED  BY <1>7 DEF r, N, l

LEMMA ApartBefore ==
  ASSUME tokens \in Seq(Tokens), NEW t \in Tokens, tokens' = Append(tokens, t)
  PROVE  /\ BracesApart' => BracesApart /\ (t \in Patterns => "left_brace" \notin ToSet(t.first))
         /\ ParenthesesApart' => ParenthesesApart /\ (IsOperator(t) => ")" \notin ToSet(t.first))
<1> DEFINE l == Len(tokens)
<1>1. /\ l \in Nat /\ Len(tokens') = l + 1 /\ tokens'[l + 1] = t
      /\ \A k \in 1..l : tokens'[k] = tokens[k]
  BY AppendProperties, LenProperties
<1>2. BracesApart' => BracesApart /\ (t \in Patterns => "left_brace" \notin ToSet(t.first))
  <2> SUFFICES ASSUME BracesApart'
               PROVE  BracesApart /\ (t \in Patterns => "left_brace" \notin ToSet(t.first))
    OBVIOUS
  <2>1. \A k \in 1..(l + 1) : tokens'[k] \in Patterns => "left_brace" \notin ToSet(tokens'[k].first)
    BY <1>1 DEF BracesApart
  <2> QED  BY <1>1, <2>1 DEF BracesApart
<1>3. ParenthesesApart' => ParenthesesApart /\ (IsOperator(t) => ")" \notin ToSet(t.first))
  <2> SUFFICES ASSUME ParenthesesApart'
               PROVE  ParenthesesApart /\ (IsOperator(t) => ")" \notin ToSet(t.first))
    OBVIOUS
  <2>1. \A k \in 1..(l + 1) : IsOperator(tokens'[k]) => ")" \notin ToSet(tokens'[k].first)
    BY <1>1 DEF ParenthesesApart, IsOperator
  <2> QED  BY <1>1, <2>1 DEF ParenthesesApart
<1> QED  BY <1>2, <1>3

\* The tokens still nest after one that costs the text what it costs them, or
\* after one that costs them nothing and the text no less.
LEMMA StillNested ==
  ASSUME tokens \in Seq(Tokens), NEW t \in Tokens, tokens' = Append(tokens, t),
         UNCHANGED raw_expression, NEW d \in Int, NEW dn \in Int,
         ParenDepth(cursor - 1) = d, ParenDepth(cursor' - 1) = dn, dn >= 0,
         TokensNest,
         \/ t = LeftParen /\ dn = d + 1
         \/ t = RightParen /\ dn = d - 1
         \/ t \notin Parentheses /\ dn <= d /\ (ParenthesesApart' => dn = d)
  PROVE  TokensNest'
<1> DEFINE l == Len(tokens)
           N(z, n) == Nesting(z, n, LeftParen, RightParen)
<1>1. l \in Nat /\ Len(tokens') = l + 1
  BY AppendProperties, LenProperties
<1>2. /\ \A n \in 0..l : N(tokens', n) = N(tokens, n) /\ N(tokens, n) \in Int
      /\ t = LeftParen => N(tokens', l + 1) = N(tokens, l) + 1
      /\ t = RightParen => N(tokens', l + 1) = N(tokens, l) - 1
      /\ t \notin Parentheses => N(tokens', l + 1) = N(tokens, l)
  BY NestingAppend
<1>3. LeftParen # RightParen /\ LeftParen \in Parentheses /\ RightParen \in Parentheses /\ l \in 0..l
  BY <1>1, ParenthesesAre DEF Parentheses
<1>4. /\ \A n \in 1..l : N(tokens, n) >= 0
      /\ N(tokens, l) >= d
      /\ ParenthesesApart => N(tokens, l) = d
  BY DEF TokensNest, TokenDepth
<1>5. ParenthesesApart' => ParenthesesApart
  BY ApartBefore
<1>6. TokensNest' <=> /\ \A n \in 1..(l + 1) : N(tokens', n) >= 0
                      /\ N(tokens', l + 1) >= dn
                      /\ ParenthesesApart' => N(tokens', l + 1) = dn
  BY <1>1 DEF TokensNest, TokenDepth, ParenDepth
<1> HIDE DEF N
<1>7. /\ N(tokens', l + 1) >= dn /\ N(tokens', l + 1) \in Int
      /\ ParenthesesApart' => N(tokens', l + 1) = dn
  <2>1. N(tokens, l) \in Int
    BY <1>2, <1>3
  <2> QED  BY <1>2, <1>3, <1>4, <1>5, <2>1
<1>8. \A n \in 1..(l + 1) : N(tokens', n) >= 0
  <2> TAKE n \in 1..(l + 1)
  <2>1. CASE n = l + 1
    BY <1>7, <2>1
  <2>2. CASE n # l + 1
    <3>1. n \in 1..l /\ n \in 0..l
      BY <1>1, <2>2
    <3> QED  BY <1>2, <1>4, <3>1
  <2> QED  BY <2>1, <2>2
<1> QED  BY <1>6, <1>7, <1>8

\* Where none of some marks is ahead.
LEMMA NoneAhead ==
  ASSUME raw_expression \in Seq(Symbols), cursor \in 1..Len(raw_expression),
         NEW marks, FirstOf(marks) = {}
  PROVE  \A k \in (cursor + 1)..Len(raw_expression) : raw_expression[k] \notin marks
<1> DEFINE S == {k \in (cursor + 1)..Len(raw_expression) : raw_expression[k] \in marks}
<1> SUFFICES ASSUME S # {} PROVE FALSE
  OBVIOUS
<1>1. S \subseteq Nat
  OBVIOUS
<1>2. PICK n \in S : \A k \in S : n <= k
  BY <1>1, LeastNumber
<1>3. n \in FirstOf(marks)
  BY <1>2 DEF FirstOf
<1> QED  BY <1>3

LEMMA OperatorSplit ==
  ASSUME EvalInv, MatchInv, phase = "split", BracesApart', UNCHANGED raw_expression,
         cursor \in 1..Len(raw_expression), NEW next \in (cursor + 1)..(Len(raw_expression) + 1),
         \A k \in cursor..(next - 1) : raw_expression[k] # "(",
         raw_expression[cursor] # ")",
         tokens' = Append(tokens, Operator(SubSeq(raw_expression, cursor, next - 1))),
         cursor' = next
  PROVE  TokensNest'
<1> DEFINE e == raw_expression
           x == SubSeq(e, cursor, next - 1)
           d == ParenDepth(cursor - 1)
           dn == ParenDepth(next - 1)
<1>1. /\ e \in Seq(Symbols) /\ Len(e) \in Nat /\ tokens \in Seq(Tokens)
      /\ cursor \in Nat /\ cursor - 1 \in Nat /\ next - 1 \in Nat /\ cursor - 1 <= next - 1
      /\ next - 1 \in 0..Len(e) /\ cursor \in 1..Len(e)
  BY ExpressionTextsAssumption DEF EvalInv, EvalTypes, TextTypes
<1>2. x \in Seq(Symbols) /\ Operator(x) \in Tokens
  BY <1>1, PartOfText DEF EvalInv, Tokens
<1>3. Operator(x) \notin Patterns \cup Parentheses /\ Operator(x).first = x
  <2>1. x[1] = e[cursor]
    <3>1. Len(x) = next - 1 - cursor + 1 /\ \A l \in 1..(next - 1 - cursor + 1) : x[l] = e[cursor + l - 1]
      BY <1>1, \A l \in cursor..(next - 1) : e[l] \in Symbols
    <3> QED  BY <1>1, <3>1
  <2>2. x[1] \notin {"(", ")"}
    <3>1. cursor \in cursor..(next - 1)
      BY <1>1
    <3> QED  BY <2>1, <3>1
  <2> HIDE DEF x
  <2>3. x # <<"(">> /\ x # <<")">>
    <3>1. <<"(">>[1] = "(" /\ <<")">>[1] = ")"
      OBVIOUS
    <3> QED  BY <2>2, <3>1
  <2>4. Operator(x).first = x /\ Operator(x).second = "OPERATOR"
    BY DEF Operator
  <2>5. LeftParen.first = <<"(">> /\ RightParen.first = <<")">>
    BY DEF LeftParen, RightParen, Operator
  <2>6. \A t \in Patterns : t.second = "STRING"
    BY DEF Patterns, Pattern
  <2> QED  BY <2>3, <2>4, <2>5, <2>6 DEF Parentheses
<1>4. /\ dn <= d
      /\ (\A k \in cursor..(next - 1) : e[k] # ")") => dn = d
  <2>1. \A k \in (cursor - 1 + 1)..(next - 1) : e[k] # "("
    BY <1>1
  <2>2. /\ Nesting(e, next - 1, "(", ")") <= Nesting(e, cursor - 1, "(", ")")
        /\ (\A k \in (cursor - 1 + 1)..(next - 1) : e[k] # ")") =>
             Nesting(e, next - 1, "(", ")") = Nesting(e, cursor - 1, "(", ")")
    BY <1>1, <2>1, NestingFalls
  <2> QED  BY <1>1, <2>2 DEF ParenDepth
<1>5. ParenthesesApart' => dn = d
  <2> SUFFICES ASSUME ParenthesesApart' PROVE dn = d
    OBVIOUS
  <2>1. ")" \notin ToSet(x)
    BY <1>1, <1>2, <1>3, ApartBefore DEF IsOperator
  <2>2. \A k \in cursor..(next - 1) : e[k] \in ToSet(x)
    BY <1>1, StretchHas
  <2> QED  BY <1>4, <2>1, <2>2
<1>6. BracesApart
  BY <1>1, <1>2, ApartBefore
<1>7. TokensNest /\ dn >= 0
  BY <1>1, <1>6 DEF MatchInv, CheckPassed
<1>8. d \in Int /\ dn \in Int
  BY <1>1, ParenDepthIs
<1>9. ParenDepth(cursor' - 1) = dn
  OBVIOUS
<1> HIDE DEF dn, d, x
<1> QED  BY <1>1, <1>2, <1>3, <1>4, <1>5, <1>7, <1>8, <1>9, StillNested DEF dn, d, x

LEMMA PatternSplit ==
  ASSUME EvalInv, MatchInv, SplitPattern, BracesApart'
  PROVE  TokensNest'
<1> DEFINE e == raw_expression
<1>1. /\ e \in Seq(Symbols) /\ Len(e) \in Nat /\ tokens \in Seq(Tokens)
      /\ phase = "split" /\ e[cursor] = "left_brace" /\ UNCHANGED raw_expression
      /\ cursor \in 1..Len(e) /\ cursor - 1 \in Nat /\ cursor \in Nat \ {0}
  BY ExpressionTextsAssumption DEF EvalInv, EvalTypes, TextTypes, SplitPattern, Splitting, symbol
<1>2. PICK next \in FirstOf({"right_brace"}) :
        /\ tokens' = Append(tokens, Pattern(SubSeq(raw_expression, cursor + 1, next - 1)))
        /\ cursor' = next + 1
  BY DEF SplitPattern
<1> DEFINE x == SubSeq(e, cursor + 1, next - 1)
<1>3. /\ next \in (cursor + 1)..Len(e) /\ e[next] = "right_brace"
      /\ \A k \in (cursor + 1)..(next - 1) : e[k] # "right_brace"
  BY <1>2 DEF FirstOf
<1>4. Pattern(x) \in Patterns /\ Pattern(x).first = x
  <2>1. <<cursor, next>> \in Stretches(e)
    BY <1>1, <1>3 DEF Stretches
  <2>2. e \in Expressions
    BY DEF EvalInv, TextTypes
  <2>3. Pattern(x) \in {Pattern(SubSeq(e, i[1] + 1, i[2] - 1)) : i \in Stretches(e)}
    BY <2>1
  <2>4. Pattern(x) \in Patterns
    BY <2>2, <2>3 DEF Patterns
  <2>5. Pattern(x).first = x
    BY DEF Pattern
  <2> QED  BY <2>4, <2>5
<1>5. BracesApart /\ "left_brace" \notin ToSet(x)
  BY <1>1, <1>2, <1>4, ApartBefore DEF Tokens
<1>6. NoBraces(cursor + 1, next - 1)
  <2>1. next - 1 \in 0..Len(e)
    BY <1>1, <1>3
  <2>2. ASSUME NEW k \in (cursor + 1)..(next - 1) PROVE e[k] \in ToSet(x)
    <3>1. cursor + 1 \in 1..Len(e)
      BY <1>1, <1>3
    <3> QED  BY <1>1, <2>1, <2>2, <3>1, StretchHas
  <2> QED  BY <1>3, <1>5, <2>2 DEF NoBraces
<1>7. ParenDepth(next) = ParenDepth(cursor) /\ TokensNest /\ ParenDepth(next) >= 0
  <2>1. CheckPassed /\ TokensNest
    BY <1>1, <1>5 DEF MatchInv
  <2>2. cursor \in 1..Len(e) /\ next \in 1..Len(e) /\ cursor < next
    BY <1>1, <1>3
  <2> QED  BY <1>1, <1>3, <1>6, <2>1, <2>2 DEF CheckPassed, StretchesEven
<1>8. ParenDepth(cursor) = ParenDepth(cursor - 1)
  BY <1>1, ParenDepthStep
<1>9. /\ ParenDepth(cursor' - 1) = ParenDepth(next) /\ ParenDepth(next) \in Int
      /\ ParenDepth(cursor - 1) = ParenDepth(next)
  <2>1. cursor' - 1 = next /\ next \in Nat
    BY <1>1, <1>2, <1>3
  <2> QED  BY <1>7, <1>8, <2>1, ParenDepthIs
<1>10. Pattern(x) \in Tokens /\ Pattern(x) \notin Parentheses
  BY <1>4, ParenthesesAre DEF Tokens
<1> HIDE DEF x
<1> QED  BY <1>1, <1>2, <1>7, <1>9, <1>10, StillNested DEF x

LEMMA ParenthesisSplit ==
  ASSUME EvalInv, MatchInv, SplitParenthesis, BracesApart'
  PROVE  TokensNest'
<1> DEFINE e == raw_expression
<1>1. /\ tokens \in Seq(Tokens) /\ Len(e) \in Nat
      /\ phase = "split" /\ e[cursor] \in {"(", ")"} /\ UNCHANGED raw_expression
      /\ cursor \in 1..Len(e) /\ cursor - 1 \in Nat /\ cursor \in Nat \ {0} /\ cursor' = cursor + 1
      /\ tokens' = Append(tokens, Operator(<<e[cursor]>>))
  BY ExpressionTextsAssumption DEF EvalInv, EvalTypes, TextTypes, SplitParenthesis, Splitting, symbol
<1>2. /\ e[cursor] = "(" => ParenDepth(cursor) = ParenDepth(cursor - 1) + 1
      /\ e[cursor] = ")" => ParenDepth(cursor) = ParenDepth(cursor - 1) - 1
  BY <1>1, ParenDepthStep
<1>3. /\ e[cursor] = "(" => Operator(<<e[cursor]>>) = LeftParen
      /\ e[cursor] = ")" => Operator(<<e[cursor]>>) = RightParen
  BY DEF LeftParen, RightParen
<1>4. LeftParen \in Tokens /\ RightParen \in Tokens
  BY ParenthesesAre
<1>5. Operator(<<e[cursor]>>) \in Tokens
  BY <1>1, <1>3, <1>4
<1>6. BracesApart
  BY <1>1, <1>5, ApartBefore
<1>7. /\ TokensNest /\ ParenDepth(cursor) >= 0 /\ ParenDepth(cursor' - 1) = ParenDepth(cursor)
      /\ ParenDepth(cursor) \in Int /\ ParenDepth(cursor - 1) \in Int
  <2>1. TokensNest /\ CheckPassed /\ cursor \in 0..Len(e) /\ cursor' - 1 = cursor
    BY <1>1, <1>6 DEF MatchInv
  <2> QED  BY <1>1, <2>1, ParenDepthIs DEF CheckPassed
<1> QED  BY <1>1, <1>2, <1>3, <1>5, <1>7, StillNested

LEMMA MatchBegins == EvalInit => MatchInv
<1> SUFFICES ASSUME EvalInit PROVE MatchInv
  OBVIOUS
<1>1. phase = "check" /\ cursor - 1 = 0 /\ brackets = <<>>
  BY DEF EvalInit, TokenInit
<1> QED  BY <1>1, CheckBegins DEF MatchInv, EvalInit, TokenInit

\* A step of the check that goes on.
LEMMA CheckGoesOn ==
  ASSUME MatchInv, phase = "check", phase' = "check", UNCHANGED <<raw_expression, tokens>>,
         CheckedTo(brackets', cursor' - 1)
  PROVE  MatchInv'
BY CheckedSame DEF MatchInv

\* A step of the loop that splits.
LEMMA SplitGoesOn ==
  ASSUME MatchInv, phase = "split", phase' = "split", UNCHANGED raw_expression,
         BracesApart' => TokensNest'
  PROVE  MatchInv'
<1>1. CheckPassed' /\ ParenDepth(Len(raw_expression))' = 0
  BY CheckedSame DEF MatchInv, ParenDepth
<1> QED  BY <1>1 DEF MatchInv

LEMMA TokenizeMatches == ASSUME EvalInv, MatchInv, TokenNext PROVE MatchInv'
<1>1. /\ brackets \in Seq({"left_brace", "("}) /\ cursor \in Nat \ {0} /\ cursor - 1 \in Nat
      /\ cursor - 1 + 1 = cursor
      /\ cursor \in 1..(Len(raw_expression) + 1) /\ Len(raw_expression) \in Nat
      /\ raw_expression \in Seq(Symbols) /\ tokens \in Seq(Tokens)
  BY ExpressionTextsAssumption DEF EvalInv, TextTypes, EvalTypes
<1>2. CASE NoBrace \/ MismatchedBracket
  BY <1>2 DEF NoBrace, MismatchedBracket, MatchInv
<1>3. CASE PassSymbol
  <2>1. /\ phase = "check" /\ phase' = "check" /\ UNCHANGED <<raw_expression, brackets, tokens>>
        /\ cursor' - 1 = cursor - 1 + 1
        /\ raw_expression[cursor] \notin {"left_brace", "right_brace", "(", ")"}
    BY <1>1, <1>3 DEF PassSymbol, Scanning, symbol
  <2>2. CheckedTo(brackets, cursor - 1 + 1)
    BY <1>1, <2>1, CheckedPass DEF MatchInv
  <2> QED  BY <2>1, <2>2, CheckGoesOn
<1>4. CASE OpenBracket
  <2>1. /\ phase = "check" /\ phase' = "check" /\ UNCHANGED <<raw_expression, tokens>> /\ cursor' - 1 = cursor - 1 + 1
        /\ raw_expression[cursor] \in {"left_brace", "("} /\ brackets' = Append(brackets, raw_expression[cursor])
    BY <1>1, <1>4 DEF OpenBracket, Scanning, symbol
  <2>2. CheckedTo(Append(brackets, raw_expression[cursor]), cursor - 1 + 1)
    BY <1>1, <2>1, CheckedPush DEF MatchInv
  <2> QED  BY <2>1, <2>2, CheckGoesOn
<1>5. CASE CloseBracket
  <2>1. /\ phase = "check" /\ phase' = "check" /\ UNCHANGED <<raw_expression, tokens>> /\ cursor' - 1 = cursor - 1 + 1
        /\ brackets # <<>> /\ Closes(brackets[Len(brackets)], raw_expression[cursor])
        /\ brackets' = SubSeq(brackets, 1, Len(brackets) - 1)
    BY <1>1, <1>5 DEF CloseBracket, IsClosed, Scanning, symbol
  <2>2. CheckedTo(SubSeq(brackets, 1, Len(brackets) - 1), cursor - 1 + 1)
    BY <1>1, <2>1, CheckedPop DEF MatchInv
  <2> QED  BY <2>1, <2>2, CheckGoesOn
<1>6. CASE EndCheck
  <2>1. phase = "check" /\ UNCHANGED <<raw_expression, brackets, tokens>> /\ cursor - 1 = Len(raw_expression)
    BY <1>1, <1>6 DEF EndCheck
  <2>2. CASE brackets = <<>> /\ phase' = "split" /\ cursor' = 1
    <3>1. CheckedTo(brackets, Len(raw_expression)) /\ Len(brackets) = 0
      BY <2>1, <2>2 DEF MatchInv
    <3>2. CheckPassed /\ ParenDepth(Len(raw_expression)) = 0
      <4>1. Tally(brackets, Len(brackets), "(") = 0
        BY <3>1, TallyStarts
      <4> QED  BY <3>1, <4>1 DEF CheckedTo, CheckPassed
    <3>3. CheckPassed' /\ ParenDepth(Len(raw_expression))' = 0
      BY <2>1, <3>2, CheckedSame DEF ParenDepth
    <3>4. tokens = <<>> /\ Len(tokens) = 0 /\ cursor' - 1 = 0
      BY <2>1, <2>2 DEF MatchInv
    <3>5. TokensNest'
      <4>1. Len(tokens') = 0 /\ cursor' - 1 = 0
        BY <2>1, <3>4
      <4>2. Nesting(tokens', 0, LeftParen, RightParen) = 0 /\ Nesting(raw_expression', 0, "(", ")") = 0
        BY NestingStarts
      <4> QED  BY <4>1, <4>2 DEF TokensNest, TokenDepth, ParenDepth
    <3> QED  BY <2>2, <3>3, <3>5 DEF MatchInv
  <2>3. CASE phase' = "syntax_error"
    BY <2>3 DEF MatchInv
  <2> QED  BY <1>6, <2>2, <2>3 DEF EndCheck
<1>7. CASE SkipBlank
  <2>1. /\ phase = "split" /\ phase' = "split" /\ UNCHANGED <<raw_expression, tokens>> /\ cursor' - 1 = cursor
        /\ raw_expression[cursor] = "space"
    BY <1>1, <1>7 DEF SkipBlank, Splitting, symbol
  <2>2. ParenDepth(cursor) = ParenDepth(cursor - 1)
    BY <1>1, <2>1, ParenDepthStep
  <2>3. BracesApart' => TokensNest'
    <3>1. /\ BracesApart' <=> BracesApart
          /\ ParenthesesApart' <=> ParenthesesApart
      BY <2>1 DEF BracesApart, ParenthesesApart, IsOperator
    <3>2. BracesApart => TokensNest
      BY <2>1 DEF MatchInv
    <3>3. TokensNest' <=> TokensNest
      BY <2>1, <2>2, <3>1 DEF TokensNest, TokenDepth, ParenDepth
    <3> QED  BY <3>1, <3>2, <3>3
  <2> QED  BY <2>1, <2>3, SplitGoesOn
<1>8. CASE SplitPattern
  <2>1. phase = "split" /\ phase' = "split" /\ UNCHANGED raw_expression
    BY <1>8 DEF SplitPattern, Splitting
  <2> QED  BY <1>8, <2>1, PatternSplit, SplitGoesOn
<1>9. CASE SplitParenthesis
  <2>1. phase = "split" /\ phase' = "split" /\ UNCHANGED raw_expression
    BY <1>9 DEF SplitParenthesis, Splitting
  <2> QED  BY <1>9, <2>1, ParenthesisSplit, SplitGoesOn
<1>10. CASE SplitOperator
  <2>1. /\ phase = "split" /\ phase' = "split" /\ UNCHANGED raw_expression
        /\ cursor \in 1..Len(raw_expression) /\ raw_expression[cursor] \notin {"space", "left_brace", "(", ")"}
    BY <1>1, <1>10 DEF SplitOperator, Splitting, BeginsOperator, symbol
  <2>2. PICK next \in FirstOf({"space", "left_brace", "("}) :
          /\ tokens' = Append(tokens, Operator(SubSeq(raw_expression, cursor, next - 1)))
          /\ cursor' = next
    BY <1>10 DEF SplitOperator
  <2>3. /\ next \in (cursor + 1)..(Len(raw_expression) + 1)
        /\ \A k \in cursor..(next - 1) : raw_expression[k] # "("
    <3>1. /\ next \in (cursor + 1)..Len(raw_expression)
          /\ \A k \in (cursor + 1)..(next - 1) : raw_expression[k] # "("
      BY <2>2 DEF FirstOf
    <3> QED  BY <1>1, <2>1, <3>1
  <2> QED  BY <2>1, <2>2, <2>3, OperatorSplit, SplitGoesOn
<1>11. CASE RunPastEnd
  <2>1. /\ phase = "split" /\ UNCHANGED raw_expression
        /\ cursor \in 1..Len(raw_expression) /\ raw_expression[cursor] \notin {"space", "left_brace", "(", ")"}
    BY <1>1, <1>11 DEF RunPastEnd, Splitting, BeginsOperator, symbol
  <2>2. CASE phase' = "undefined"
    BY <2>2 DEF MatchInv
  <2>3. CASE /\ tokens' = Append(tokens, Operator(SubSeq(raw_expression, cursor, Len(raw_expression))))
             /\ cursor' = Len(raw_expression) + 1
             /\ phase' = phase
    <3> DEFINE next == Len(raw_expression) + 1
    <3>1. next \in (cursor + 1)..(Len(raw_expression) + 1) /\ next - 1 = Len(raw_expression)
      BY <1>1, <2>1
    <3>2. \A k \in cursor..(next - 1) : raw_expression[k] # "("
      BY <1>1, <1>11, <2>1, <3>1, NoneAhead DEF RunPastEnd
    <3> QED  BY <2>1, <2>3, <3>1, <3>2, OperatorSplit, SplitGoesOn
  <2> QED  BY <1>11, <2>2, <2>3 DEF RunPastEnd
<1>12. CASE EndSplit
  <2>1. /\ phase = "split" /\ phase' = "convert" /\ UNCHANGED <<raw_expression, tokens>>
        /\ cursor - 1 = Len(raw_expression)
    BY <1>1, <1>12 DEF EndSplit
  <2>2. /\ BracesApart' <=> BracesApart
        /\ ParenthesesApart' <=> ParenthesesApart
        /\ TokensBalanced' <=> TokensBalanced
    BY <2>1 DEF BracesApart, ParenthesesApart, IsOperator, TokensBalanced, TokenDepth
  <2>3. BracesApart => TokensNest
    BY <2>1 DEF MatchInv
  <2>4. BracesApart => /\ \A n \in 1..Len(tokens) : TokenDepth(n) >= 0
                       /\ ParenthesesApart => TokensBalanced
    BY <2>1, <2>3 DEF MatchInv, TokensNest, TokensBalanced
  <2>5. BracesApart => \A n \in 1..Len(tokens') : TokenDepth(n)' >= 0
    BY <2>1, <2>4 DEF TokenDepth
  <2> QED  BY <2>1, <2>2, <2>4, <2>5 DEF MatchInv
<1> QED  BY <1>2, <1>3, <1>4, <1>5, <1>6, <1>7, <1>8, <1>9, <1>10, <1>11, <1>12 DEF TokenNext

LEMMA MatchKept == EvalInv /\ MatchInv /\ [EvalNext]_eval_vars => MatchInv'
<1> SUFFICES ASSUME EvalInv, MatchInv, [EvalNext]_eval_vars PROVE MatchInv'
  OBVIOUS
<1>1. CASE Tokenize
  BY <1>1, TokenizeMatches DEF Tokenize
<1>2. CASE ~Tokenize
  <2>1. UNCHANGED tokens
    BY <1>2 DEF EvalNext, PushPattern, RejectOperator, PopOperator, PushOperator, OpenParenthesis,
                CloseParenthesis, EmptyStack, Drain, PushOperand, ApplyOperator, Underflow,
                NumberMissing, ReturnLoci, Convert, query, eval_vars, token_vars
  <2>2. /\ BracesApart' <=> BracesApart
        /\ ParenthesesApart' <=> ParenthesesApart
        /\ TokensBalanced' <=> TokensBalanced
        /\ (\A n \in 1..Len(tokens) : TokenDepth(n) >= 0)' <=> (\A n \in 1..Len(tokens) : TokenDepth(n) >= 0)
    BY <2>1 DEF BracesApart, ParenthesesApart, IsOperator, TokensBalanced, TokenDepth
  <2>3. \/ phase \in {"convert", "evaluate"} /\ phase' \in {"convert", "evaluate"} \cup Outcomes
        \/ UNCHANGED <<raw_expression, cursor, brackets, phase>>
    BY <1>2 DEF EvalNext, PushPattern, RejectOperator, PopOperator, PushOperator, OpenParenthesis,
                CloseParenthesis, EmptyStack, Drain, PushOperand, ApplyOperator, Underflow,
                NumberMissing, ReturnLoci, Convert, Outcomes, eval_vars, token_vars
  <2>4. CASE phase \in {"convert", "evaluate"} /\ phase' \in {"convert", "evaluate"} \cup Outcomes
    BY <2>2, <2>4 DEF MatchInv, Outcomes
  <2>5. CASE UNCHANGED <<raw_expression, cursor, brackets, phase>>
    <3>1. CheckedTo(brackets, cursor - 1)' <=> CheckedTo(brackets, cursor - 1)
      BY <2>5, CheckedSame
    <3>2. /\ CheckPassed' <=> CheckPassed
          /\ ParenDepth(Len(raw_expression))' = ParenDepth(Len(raw_expression))
      BY <2>5, CheckedSame DEF ParenDepth
    <3>3. TokensNest' <=> TokensNest
      BY <2>1, <2>2, <2>5 DEF TokensNest, TokenDepth, ParenDepth
    <3> QED  BY <2>1, <2>2, <2>5, <3>1, <3>2, <3>3 DEF MatchInv
  <2> QED  BY <2>3, <2>4, <2>5
<1> QED  BY <1>1, <1>2

\* The bracket check is over the characters, and conversion works on the
\* tokens: whatever the tokens of a text that passed it, each ")" among them
\* finds its "(" on the stack if no pattern holds a "{", and if no operator
\* holds a ")" either, no "(" is left in the queue for evaluate_expression.
THEOREM ParenthesesAreMatched == EvalSpec => []ParenthesesMatched
<1>1. EvalInit => EvalInv /\ MatchInv
  BY EvalBegins, MatchBegins
<1>2. EvalInv /\ MatchInv /\ [EvalNext]_eval_vars => (EvalInv /\ MatchInv)'
  BY EvalKept, MatchKept
<1>3. EvalInv /\ MatchInv => ParenthesesMatched
  <2> SUFFICES ASSUME EvalInv, MatchInv, BracesApart
               PROVE  /\ phase = "convert" /\ idx <= Len(tokens) /\ token = RightParen => LeftParen \in ToSet(ops)
                      /\ phase = "evaluate" /\ ParenthesesApart => \A k \in 1..Len(rpn) : rpn[k] # LeftParen
    BY DEF ParenthesesMatched
  <2>1. ASSUME phase = "convert", idx <= Len(tokens), token = RightParen PROVE LeftParen \in ToSet(ops)
    <3>1. ops \in Seq(Tokens) /\ idx \in 1..Len(tokens)
      BY <2>1 DEF EvalInv, EvalTypes
    <3>2. TokenDepth(idx) >= 0
      BY <2>1, <3>1 DEF MatchInv
    <3>3. Opened(ops) > 0
      BY <2>1, <3>2, ClosesOpen
    <3>4. PICK k \in 1..Len(ops) : ops[k] = LeftParen
      BY <3>1, <3>3, OpenedIs
    <3> QED  BY <3>1, <3>4 DEF ToSet
  <2>2. ASSUME phase = "evaluate", ParenthesesApart PROVE \A k \in 1..Len(rpn) : rpn[k] # LeftParen
    BY <2>2 DEF MatchInv, EvalInv, Yard
  <2> QED  BY <2>1, <2>2
<1> QED  BY <1>1, <1>2, <1>3, PTL DEF EvalSpec
------------------------------------------------------------------------------
(* The recursive functions of the grammar exist. *)

\* What WellFormed is at i, where f is known for shorter intervals.
FormedBody(f, i) ==
  LET lo == i[1]
      hi == i[2]
      k == Max(Cuts(lo, hi))
  IN  \/ lo = hi /\ tokens[lo] \in Patterns
      \/ /\ hi > lo + 1 /\ tokens[lo] = LeftParen /\ tokens[hi] = RightParen
         /\ Cuts(lo, hi) = {}
         /\ f[<<lo + 1, hi - 1>>]
      \/ /\ Cuts(lo, hi) # {}
         /\ Symbol(tokens[k]) \in Recognized
         /\ f[<<lo, k - 1>>]
         /\ f[<<k + 1, hi>>]

\* The same of Meaning.
MeaningBody(f, i) ==
  LET lo == i[1]
      hi == i[2]
      k == Max(Cuts(lo, hi))
  IN  IF hi <= lo + 1 THEN locations[tokens[lo]]
      ELSE IF Cuts(lo, hi) = {} THEN f[<<lo + 1, hi - 1>>]
      ELSE Apply(tokens[k], f[<<lo, k - 1>>], f[<<k + 1, hi>>])

\* A number that is smaller for shorter intervals.
Size(i) == i[2] - i[1] + Len(tokens)

Shorter(i) == {j \in Intervals : Size(j) < Size(i)}

LEMMA LastCut ==
  ASSUME tokens \in Seq(Tokens), NEW i \in Intervals, Cuts(i[1], i[2]) # {}
  PROVE  LET k == Max(Cuts(i[1], i[2])) IN
         /\ k \in Cuts(i[1], i[2]) /\ \A m \in Cuts(i[1], i[2]) : k >= m
         /\ k \in (i[1] + 1)..(i[2] - 1)
<1>1. Cuts(i[1], i[2]) \subseteq (i[1] + 1)..(i[2] - 1)
  BY DEF Cuts
<1>2. i[1] \in 1..Len(tokens) /\ i[2] \in 1..Len(tokens) /\ Len(tokens) \in Nat
  BY DEF Intervals
<1> DEFINE C == Cuts(i[1], i[2])
<1>3. C \in SUBSET (1..Len(tokens))
  BY <1>1, <1>2
<1>4. C # {}
  OBVIOUS
<1> HIDE DEF C
<1>5. \E k \in C : \A m \in C : k >= m
  <2>1. PICK k \in C : \A m \in C : m <= k
    BY <1>2, <1>3, <1>4, GreatestNumber
  <2>2. \A m \in C : k >= m
    BY <1>2, <1>3, <2>1
  <2> QED  BY <2>2
<1>6. Max(C) \in C /\ \A m \in C : Max(C) >= m
  BY <1>5 DEF Max
<1> QED  BY <1>1, <1>6 DEF C

\* The intervals the grammar looks at next are shorter.
LEMMA Parts ==
  ASSUME tokens \in Seq(Tokens), NEW i \in Intervals
  PROVE  /\ Size(i) \in Nat
         /\ i[2] > i[1] + 1 => <<i[1] + 1, i[2] - 1>> \in Shorter(i)
         /\ Cuts(i[1], i[2]) # {} =>
              LET k == Max(Cuts(i[1], i[2])) IN
              /\ <<i[1], k - 1>> \in Shorter(i) /\ <<k + 1, i[2]>> \in Shorter(i)
<1>1. i[1] \in 1..Len(tokens) /\ i[2] \in 1..Len(tokens) /\ Len(tokens) \in Nat
  BY DEF Intervals
<1>2. Size(i) \in Nat
  BY <1>1 DEF Size
<1>3. ASSUME i[2] > i[1] + 1 PROVE <<i[1] + 1, i[2] - 1>> \in Shorter(i)
  BY <1>1, <1>3 DEF Shorter, Size, Intervals
<1>4. ASSUME Cuts(i[1], i[2]) # {}, NEW k, k = Max(Cuts(i[1], i[2]))
      PROVE  <<i[1], k - 1>> \in Shorter(i) /\ <<k + 1, i[2]>> \in Shorter(i)
  <2>1. k \in (i[1] + 1)..(i[2] - 1)
    BY <1>4, LastCut
  <2> QED  BY <1>1, <2>1 DEF Shorter, Size, Intervals
<1> QED  BY <1>2, <1>3, <1>4

\* The bodies look at shorter intervals alone.
LEMMA BodiesLookDown ==
  ASSUME tokens \in Seq(Tokens), NEW i \in Intervals, NEW f, NEW g,
         \A j \in Shorter(i) : f[j] = g[j]
  PROVE  MeaningBody(f, i) = MeaningBody(g, i) /\ FormedBody(f, i) = FormedBody(g, i)
<1> DEFINE k == Max(Cuts(i[1], i[2]))
<1>1. i[1] \in 1..Len(tokens) /\ i[2] \in 1..Len(tokens) /\ Len(tokens) \in Nat
  BY DEF Intervals
<1>2. i[2] > i[1] + 1 => f[<<i[1] + 1, i[2] - 1>>] = g[<<i[1] + 1, i[2] - 1>>]
  BY Parts
<1>3. Cuts(i[1], i[2]) # {} => f[<<i[1], k - 1>>] = g[<<i[1], k - 1>>]
  BY Parts
<1>4. Cuts(i[1], i[2]) # {} => f[<<k + 1, i[2]>>] = g[<<k + 1, i[2]>>]
  BY Parts
<1> HIDE DEF k
<1>5. MeaningBody(f, i) = MeaningBody(g, i)
  <2>1. \A h : MeaningBody(h, i) = IF i[2] <= i[1] + 1 THEN locations[tokens[i[1]]]
      ELSE IF Cuts(i[1], i[2]) = {} THEN h[<<i[1] + 1, i[2] - 1>>]
      ELSE Apply(tokens[k], h[<<i[1], k - 1>>], h[<<k + 1, i[2]>>])
    BY DEF MeaningBody, k
  <2>2. i[2] <= i[1] + 1 \/ i[2] > i[1] + 1
    BY <1>1
  <2> QED  BY <1>2, <1>3, <1>4, <2>1, <2>2, Zenon
<1>6. FormedBody(f, i) = FormedBody(g, i)
  <2>1. \A h : FormedBody(h, i) =
      (\/ i[1] = i[2] /\ tokens[i[1]] \in Patterns
       \/ /\ i[2] > i[1] + 1 /\ tokens[i[1]] = LeftParen /\ tokens[i[2]] = RightParen
          /\ Cuts(i[1], i[2]) = {}
          /\ h[<<i[1] + 1, i[2] - 1>>]
       \/ /\ Cuts(i[1], i[2]) # {}
          /\ Symbol(tokens[k]) \in Recognized
          /\ h[<<i[1], k - 1>>]
          /\ h[<<k + 1, i[2]>>])
    BY DEF FormedBody, k
  <2> QED  BY <1>2, <1>3, <1>4, <2>1, Zenon
<1> QED  BY <1>5, <1>6

\* So there are functions that do as the recursions say.
LEMMA RecursionsExist ==
  ASSUME tokens \in Seq(Tokens)
  PROVE  /\ \A i \in Intervals : Meaning[i] = MeaningBody(Meaning, i)
         /\ \A i \in Intervals : WellFormed[i] = FormedBody(WellFormed, i)
<1>1. \A i \in Intervals : Size(i) \in Nat
  BY Parts
<1>2. \E f : f = [i \in Intervals |-> MeaningBody(f, i)]
  <2> DEFINE Upto(f, m) == /\ f = [i \in Intervals |-> f[i]]
                           /\ \A i \in Intervals : Size(i) < m => f[i] = MeaningBody(f, i)
             Bad == {m \in Nat : ~\E f : Upto(f, m)}
  <2>1. Bad = {}
    <3> SUFFICES ASSUME Bad # {} PROVE FALSE
      OBVIOUS
    <3>1. PICK m \in Bad : \A n \in Bad : m <= n
      <4>1. Bad \subseteq Nat
        OBVIOUS
      <4> HIDE DEF Bad
      <4> QED  BY <4>1, LeastNumber
    <3>2. m \in Nat /\ ~\E f : Upto(f, m)
      BY <3>1
    <3>3. m # 0
      <4> DEFINE f == [i \in Intervals |-> 0]
      <4>1. f = [i \in Intervals |-> f[i]]
        OBVIOUS
      <4>2. \A i \in Intervals : ~(Size(i) < 0)
        BY <1>1
      <4> HIDE DEF f
      <4>3. Upto(f, 0)
        BY <4>1, <4>2
      <4> QED  BY <3>2, <4>3
    <3>4. m - 1 \in Nat /\ m - 1 \notin Bad
      <4>1. m - 1 \in Nat /\ ~(m <= m - 1)
        BY <3>2, <3>3
      <4> HIDE DEF Bad
      <4> QED  BY <3>1, <4>1
    <3>5. PICK g : Upto(g, m - 1)
      BY <3>4
    <3> DEFINE f == [i \in Intervals |-> IF Size(i) < m - 1 THEN g[i] ELSE MeaningBody(g, i)]
    <3>6. \A i \in Intervals : f[i] = IF Size(i) < m - 1 THEN g[i] ELSE MeaningBody(g, i)
      OBVIOUS
    <3>7. f = [i \in Intervals |-> f[i]]
      OBVIOUS
    <3> HIDE DEF f
    <3>8. ASSUME NEW i \in Intervals, Size(i) < m PROVE f[i] = MeaningBody(f, i)
      <4>1. f[i] = MeaningBody(g, i)
        BY <3>5, <3>6
      <4>2. \A j \in Shorter(i) : f[j] = g[j]
        <5> SUFFICES ASSUME NEW j \in Shorter(i) PROVE f[j] = g[j]
          OBVIOUS
        <5>1. j \in Intervals /\ Size(j) < Size(i)
          BY DEF Shorter
        <5>2. Size(j) < m - 1
          <6>1. Size(j) \in Nat /\ Size(i) \in Nat
            BY <1>1, <5>1
          <6> QED  BY <3>2, <3>8, <5>1, <6>1
        <5> QED  BY <3>6, <5>1, <5>2
      <4> QED  BY <4>1, <4>2, BodiesLookDown
    <3>9. Upto(f, m)
      BY <3>7, <3>8
    <3> QED  BY <3>2, <3>9
  <2> DEFINE top == 2 * Len(tokens) + 1
  <2>2. top \in Nat /\ \A i \in Intervals : Size(i) < top
    BY DEF Size, Intervals
  <2>3. PICK f : Upto(f, top)
    <3> HIDE DEF top
    <3>1. top \notin Bad
      <4> HIDE DEF Bad
      <4> QED  BY <2>1
    <3> QED  BY <2>2, <3>1
  <2>4. f = [i \in Intervals |-> MeaningBody(f, i)]
    <3> HIDE DEF top
    <3> QED  BY <2>2, <2>3
  <2> QED  BY <2>4
<1>3. \E f : f = [i \in Intervals |-> FormedBody(f, i)]
  <2> DEFINE Upto(f, m) == /\ f = [i \in Intervals |-> f[i]]
                           /\ \A i \in Intervals : Size(i) < m => f[i] = FormedBody(f, i)
             Bad == {m \in Nat : ~\E f : Upto(f, m)}
  <2>1. Bad = {}
    <3> SUFFICES ASSUME Bad # {} PROVE FALSE
      OBVIOUS
    <3>1. PICK m \in Bad : \A n \in Bad : m <= n
      <4>1. Bad \subseteq Nat
        OBVIOUS
      <4> HIDE DEF Bad
      <4> QED  BY <4>1, LeastNumber
    <3>2. m \in Nat /\ ~\E f : Upto(f, m)
      BY <3>1
    <3>3. m # 0
      <4> DEFINE f == [i \in Intervals |-> 0]
      <4>1. f = [i \in Intervals |-> f[i]]
        OBVIOUS
      <4>2. \A i \in Intervals : ~(Size(i) < 0)
        BY <1>1
      <4> HIDE DEF f
      <4>3. Upto(f, 0)
        BY <4>1, <4>2
      <4> QED  BY <3>2, <4>3
    <3>4. m - 1 \in Nat /\ m - 1 \notin Bad
      <4>1. m - 1 \in Nat /\ ~(m <= m - 1)
        BY <3>2, <3>3
      <4> HIDE DEF Bad
      <4> QED  BY <3>1, <4>1
    <3>5. PICK g : Upto(g, m - 1)
      BY <3>4
    <3> DEFINE f == [i \in Intervals |-> IF Size(i) < m - 1 THEN g[i] ELSE FormedBody(g, i)]
    <3>6. \A i \in Intervals : f[i] = IF Size(i) < m - 1 THEN g[i] ELSE FormedBody(g, i)
      OBVIOUS
    <3>7. f = [i \in Intervals |-> f[i]]
      OBVIOUS
    <3> HIDE DEF f
    <3>8. ASSUME NEW i \in Intervals, Size(i) < m PROVE f[i] = FormedBody(f, i)
      <4>1. f[i] = FormedBody(g, i)
        BY <3>5, <3>6
      <4>2. \A j \in Shorter(i) : f[j] = g[j]
        <5> SUFFICES ASSUME NEW j \in Shorter(i) PROVE f[j] = g[j]
          OBVIOUS
        <5>1. j \in Intervals /\ Size(j) < Size(i)
          BY DEF Shorter
        <5>2. Size(j) < m - 1
          <6>1. Size(j) \in Nat /\ Size(i) \in Nat
            BY <1>1, <5>1
          <6> QED  BY <3>2, <3>8, <5>1, <6>1
        <5> QED  BY <3>6, <5>1, <5>2
      <4> QED  BY <4>1, <4>2, BodiesLookDown
    <3>9. Upto(f, m)
      BY <3>7, <3>8
    <3> QED  BY <3>2, <3>9
  <2> DEFINE top == 2 * Len(tokens) + 1
  <2>2. top \in Nat /\ \A i \in Intervals : Size(i) < top
    BY DEF Size, Intervals
  <2>3. PICK f : Upto(f, top)
    <3> HIDE DEF top
    <3>1. top \notin Bad
      <4> HIDE DEF Bad
      <4> QED  BY <2>1
    <3> QED  BY <2>2, <3>1
  <2>4. f = [i \in Intervals |-> FormedBody(f, i)]
    <3> HIDE DEF top
    <3> QED  BY <2>2, <2>3
  <2> QED  BY <2>4
<1>4. ASSUME NEW i \in Intervals PROVE Meaning[i] = MeaningBody(Meaning, i)
  <2>1. Meaning = CHOOSE f : f = [j \in Intervals |-> MeaningBody(f, j)]
    BY DEF Meaning, MeaningBody
  <2>2. Meaning = [j \in Intervals |-> MeaningBody(Meaning, j)]
    BY <1>2, <2>1, Zenon
  <2> QED  BY <2>2, Zenon
<1>5. ASSUME NEW i \in Intervals PROVE WellFormed[i] = FormedBody(WellFormed, i)
  <2>1. WellFormed = CHOOSE f : f = [j \in Intervals |-> FormedBody(f, j)]
    BY DEF WellFormed, FormedBody
  <2>2. WellFormed = [j \in Intervals |-> FormedBody(WellFormed, j)]
    BY <1>3, <2>1, Zenon
  <2> QED  BY <2>2, Zenon
<1> QED  BY <1>4, <1>5

------------------------------------------------------------------------------
(* What the grammar says of neighbouring tokens. *)

Opens(t) == t \in Patterns \cup {LeftParen}
Ends(t) == t \in Patterns \cup {RightParen}

Adjacent(lo, hi) ==
  /\ lo <= hi
  /\ Opens(tokens[lo])
  /\ Ends(tokens[hi])
  /\ \A k \in lo..hi : IsOperator(tokens[k]) => Symbol(tokens[k]) \in Recognized
  /\ \A k \in lo..(hi - 1) : Ends(tokens[k]) <=> ~Opens(tokens[k + 1])
  /\ \E k \in lo..hi : tokens[k] \in Patterns

LEMMA Sorts ==
  ASSUME NEW t
  PROVE  /\ t \in Patterns => Opens(t) /\ Ends(t) /\ ~IsOperator(t) /\ t # LeftParen /\ t # RightParen
         /\ t = LeftParen => Opens(t) /\ ~Ends(t) /\ ~IsOperator(t)
         /\ t = RightParen => ~Opens(t) /\ Ends(t) /\ ~IsOperator(t)
         /\ IsOperator(t) => ~Opens(t) /\ ~Ends(t) /\ t \notin Patterns /\ t # LeftParen /\ t # RightParen
         /\ t \in Patterns \/ t = LeftParen \/ t = RightParen \/ IsOperator(t)
BY ParenthesesAre DEF Opens, Ends, IsOperator, Parentheses

LEMMA FormedIsAdjacent ==
  ASSUME tokens \in Seq(Tokens), NEW i \in Intervals, WellFormed[i]
  PROVE  Adjacent(i[1], i[2])
<1> DEFINE Good(j) == WellFormed[j] => Adjacent(j[1], j[2])
           Bad == {m \in Nat : \E j \in Intervals : Size(j) = m /\ ~Good(j)}
<1>1. Bad = {}
  <2> SUFFICES ASSUME Bad # {} PROVE FALSE
    OBVIOUS
  <2>1. PICK m \in Bad : \A n \in Bad : m <= n
    <3>1. Bad \subseteq Nat
      OBVIOUS
    <3> HIDE DEF Bad
    <3> QED  BY <3>1, LeastNumber
  <2>2. PICK j \in Intervals : Size(j) = m /\ ~Good(j)
    BY <2>1
  <2>3. ASSUME NEW p \in Shorter(j) PROVE Good(p)
    <3> SUFFICES ASSUME ~Good(p) PROVE FALSE
      OBVIOUS
    <3>1. p \in Intervals /\ Size(p) \in Nat /\ ~(m <= Size(p))
      <4>1. p \in Intervals /\ Size(p) < Size(j)
        BY DEF Shorter
      <4>2. Size(p) \in Nat /\ Size(j) \in Nat
        BY <4>1, Parts
      <4>3. m = Size(j)
        BY <2>2
      <4> QED  BY <4>1, <4>2, <4>3
    <3>2. Size(p) \in Bad
      BY <3>1
    <3> HIDE DEF Bad, Good
    <3> QED  BY <2>1, <3>1, <3>2
  <2> DEFINE lo == j[1]
             hi == j[2]
             k == Max(Cuts(lo, hi))
  <2>4. lo \in 1..Len(tokens) /\ hi \in 1..Len(tokens) /\ Len(tokens) \in Nat
    BY DEF Intervals
  <2>5. WellFormed[j] /\ ~Adjacent(lo, hi)
    BY <2>2
  <2>6. \/ lo = hi /\ tokens[lo] \in Patterns
        \/ hi > lo + 1 /\ tokens[lo] = LeftParen /\ tokens[hi] = RightParen /\ WellFormed[<<lo + 1, hi - 1>>]
        \/ /\ Cuts(lo, hi) # {} /\ Symbol(tokens[k]) \in Recognized
           /\ WellFormed[<<lo, k - 1>>] /\ WellFormed[<<k + 1, hi>>]
    <3>1. WellFormed[j] = FormedBody(WellFormed, j)
      BY RecursionsExist
    <3>2. FormedBody(WellFormed, j)
      BY <2>5, <3>1, Zenon
    <3> QED  BY <3>2 DEF FormedBody
  <2>7. CASE lo = hi /\ tokens[lo] \in Patterns
    <3>1. ASSUME NEW n \in lo..hi PROVE n = lo
      BY <2>4, <2>7
    <3>2. lo..(hi - 1) = {}
      BY <2>4, <2>7
    <3>3. lo \in lo..hi /\ lo <= hi
      BY <2>4, <2>7
    <3>4. Opens(tokens[lo]) /\ Ends(tokens[lo]) /\ ~IsOperator(tokens[lo])
      BY <2>7, Sorts
    <3> HIDE DEF lo, hi
    <3> QED  BY <2>5, <2>7, <3>1, <3>2, <3>3, <3>4 DEF Adjacent
  <2>8. CASE hi > lo + 1 /\ tokens[lo] = LeftParen /\ tokens[hi] = RightParen /\ WellFormed[<<lo + 1, hi - 1>>]
    <3>1. Adjacent(lo + 1, hi - 1)
      <4>1. <<lo + 1, hi - 1>> \in Shorter(j)
        BY <2>8, Parts
      <4> DEFINE p == <<lo + 1, hi - 1>>
      <4>2. Good(p)
        BY <2>3, <4>1
      <4>3. p[1] = lo + 1 /\ p[2] = hi - 1
        OBVIOUS
      <4> QED  BY <2>8, <4>2, <4>3
    <3>2. /\ Opens(tokens[lo]) /\ ~Ends(tokens[lo]) /\ ~IsOperator(tokens[lo])
          /\ ~Opens(tokens[hi]) /\ Ends(tokens[hi]) /\ ~IsOperator(tokens[hi])
      BY <2>8, Sorts
    <3> HIDE DEF lo, hi
    <3>3. ASSUME NEW n \in lo..hi, IsOperator(tokens[n]) PROVE Symbol(tokens[n]) \in Recognized
      <4>1. n \in (lo + 1)..(hi - 1)
        BY <2>4, <3>2, <3>3
      <4> QED  BY <3>1, <3>3, <4>1 DEF Adjacent
    <3>4. ASSUME NEW n \in lo..(hi - 1) PROVE Ends(tokens[n]) <=> ~Opens(tokens[n + 1])
      <4>1. CASE n = lo
        BY <3>1, <3>2, <4>1 DEF Adjacent
      <4>2. CASE n = hi - 1
        <5>1. n + 1 = hi
          BY <2>4, <4>2
        <5> QED  BY <3>1, <3>2, <4>2, <5>1 DEF Adjacent
      <4>3. CASE n # lo /\ n # hi - 1
        <5>1. n \in (lo + 1)..(hi - 1 - 1)
          BY <2>4, <4>3
        <5> QED  BY <3>1, <5>1 DEF Adjacent
      <4> QED  BY <4>1, <4>2, <4>3
    <3>5. \E n \in lo..hi : tokens[n] \in Patterns
      <4>1. PICK n \in (lo + 1)..(hi - 1) : tokens[n] \in Patterns
        BY <3>1 DEF Adjacent
      <4>2. n \in lo..hi
        BY <2>4
      <4> QED  BY <4>1, <4>2
    <3>6. lo <= hi
      BY <2>4, <2>8
    <3> QED  BY <2>5, <3>2, <3>3, <3>4, <3>5, <3>6 DEF Adjacent
  <2>9. CASE /\ Cuts(lo, hi) # {} /\ Symbol(tokens[k]) \in Recognized
             /\ WellFormed[<<lo, k - 1>>] /\ WellFormed[<<k + 1, hi>>]
    <3>1. k \in (lo + 1)..(hi - 1) /\ IsOperator(tokens[k])
      BY <2>9, LastCut DEF Cuts
    <3>2. Adjacent(lo, k - 1)
      <4> DEFINE p == <<lo, k - 1>>
      <4>1. p \in Shorter(j)
        BY <2>9, Parts
      <4>2. Good(p) /\ p[1] = lo /\ p[2] = k - 1
        BY <2>3, <4>1
      <4> QED  BY <2>9, <4>2
    <3>3. Adjacent(k + 1, hi)
      <4> DEFINE p == <<k + 1, hi>>
      <4>1. p \in Shorter(j)
        BY <2>9, Parts
      <4>2. Good(p) /\ p[1] = k + 1 /\ p[2] = hi
        BY <2>3, <4>1
      <4> QED  BY <2>9, <4>2
    <3>4. ~Opens(tokens[k]) /\ ~Ends(tokens[k])
      BY <3>1, Sorts
    <3> HIDE DEF lo, hi, k
    <3>5. ASSUME NEW n \in lo..hi, IsOperator(tokens[n]) PROVE Symbol(tokens[n]) \in Recognized
      <4>1. n = k \/ n \in lo..(k - 1) \/ n \in (k + 1)..hi
        BY <2>4, <3>1
      <4> QED  BY <2>9, <3>2, <3>3, <3>5, <4>1 DEF Adjacent
    <3>6. ASSUME NEW n \in lo..(hi - 1) PROVE Ends(tokens[n]) <=> ~Opens(tokens[n + 1])
      <4>1. CASE n = k
        BY <3>3, <3>4, <4>1 DEF Adjacent
      <4>2. CASE n = k - 1
        <5>1. n + 1 = k
          BY <2>4, <3>1, <4>2
        <5> QED  BY <3>2, <3>4, <4>2, <5>1 DEF Adjacent
      <4>3. CASE n # k /\ n # k - 1
        <5>1. n \in lo..(k - 1 - 1) \/ n \in (k + 1)..(hi - 1)
          BY <2>4, <3>1, <4>3
        <5> QED  BY <3>2, <3>3, <5>1 DEF Adjacent
      <4> QED  BY <4>1, <4>2, <4>3
    <3>7. \E n \in lo..hi : tokens[n] \in Patterns
      <4>1. PICK n \in lo..(k - 1) : tokens[n] \in Patterns
        BY <3>2 DEF Adjacent
      <4>2. n \in lo..hi
        BY <2>4, <3>1
      <4> QED  BY <4>1, <4>2
    <3>8. lo <= hi /\ Opens(tokens[lo]) /\ Ends(tokens[hi])
      <4>1. lo <= hi
        BY <2>4, <3>1
      <4> QED  BY <3>2, <3>3, <4>1 DEF Adjacent
    <3> QED  BY <2>5, <3>5, <3>6, <3>7, <3>8 DEF Adjacent
  <2> QED  BY <2>6, <2>7, <2>8, <2>9
<1>2. Size(i) \in Nat /\ Size(i) \notin Bad
  <2>1. Size(i) \in Nat
    BY Parts
  <2> HIDE DEF Bad
  <2> QED  BY <1>1, <2>1
<1> QED  BY <1>2

------------------------------------------------------------------------------
(* The parts of an expression that the converter has read. *)

\* Stretches of tokens that close every parenthesis they open and no other.
Exprs ==
  {i \in Intervals :
     /\ i[1] <= i[2]
     /\ TokenDepth(i[2]) = TokenDepth(i[1] - 1)
     /\ \A k \in i[1]..i[2] : TokenDepth(k) >= TokenDepth(i[1] - 1)
     /\ Ends(tokens[i[2]])}

\* Those that are not cut into operands.
Terms == {i \in Exprs : Cuts(i[1], i[2]) = {}}

Whole == <<1, Len(tokens)>>

\* The tokens as a whole, whose operators have the numbers they need.
Neighbours ==
  /\ Adjacent(1, Len(tokens))
  /\ \A k \in 1..Len(tokens) : IsOperator(tokens[k]) => HasDistance(tokens[k])

LEMMA PatternIsTerm ==
  ASSUME tokens \in Seq(Tokens), NEW k \in 1..Len(tokens), tokens[k] \in Patterns
  PROVE  <<k, k>> \in Terms /\ Meaning[<<k, k>>] = locations[tokens[k]]
<1> DEFINE i == <<k, k>>
<1>1. i \in Intervals /\ i[1] = k /\ i[2] = k /\ Len(tokens) \in Nat
  BY DEF Intervals
<1>2. TokenDepth(k) = TokenDepth(k - 1) /\ TokenDepth(k) \in Int
  <2>1. k \in Nat \ {0} /\ k - 1 \in Nat
    BY <1>1
  <2>2. tokens[k] # LeftParen /\ tokens[k] # RightParen
    BY Sorts
  <2>3. TokenDepth(k - 1) \in Int
    BY <2>1, TokenDepthIs
  <2>4. TokenDepth(k) = TokenDepth(k - 1)
          + (IF tokens[k] = LeftParen THEN 1 ELSE IF tokens[k] = RightParen THEN -1 ELSE 0)
    BY <2>1, TokenDepthIs
  <2> QED  BY <2>2, <2>3, <2>4
<1>3. Ends(tokens[k])
  BY Sorts
<1>4. \A m \in k..k : m = k
  BY <1>1
<1>5. Cuts(k, k) = {}
  <2>1. (k + 1)..(k - 1) = {}
    BY <1>1
  <2> QED  BY <2>1 DEF Cuts
<1> HIDE DEF i
<1>6. i \in Terms
  BY <1>1, <1>2, <1>3, <1>4, <1>5 DEF Terms, Exprs
<1>7. Meaning[i] = locations[tokens[k]]
  <2>1. Meaning[i] = MeaningBody(Meaning, i)
    BY <1>1, RecursionsExist
  <2>2. i[2] <= i[1] + 1
    BY <1>1
  <2> QED  BY <1>1, <2>1, <2>2 DEF MeaningBody
<1> QED  BY <1>6, <1>7 DEF i

\* A pair of parentheses makes a term of what it encloses.
LEMMA EnclosedIsTerm ==
  ASSUME tokens \in Seq(Tokens), NEW lo \in 1..Len(tokens), NEW hi \in 1..Len(tokens),
         tokens[lo] = LeftParen, tokens[hi] = RightParen, <<lo + 1, hi - 1>> \in Exprs
  PROVE  <<lo, hi>> \in Terms /\ Meaning[<<lo, hi>>] = Meaning[<<lo + 1, hi - 1>>]
<1> DEFINE i == <<lo, hi>>
           j == <<lo + 1, hi - 1>>
<1>1. i \in Intervals /\ i[1] = lo /\ i[2] = hi /\ Len(tokens) \in Nat
  BY DEF Intervals
<1>2. /\ lo + 1 <= hi - 1 /\ TokenDepth(hi - 1) = TokenDepth(lo)
      /\ \A k \in (lo + 1)..(hi - 1) : TokenDepth(k) >= TokenDepth(lo)
  <2>1. j[1] = lo + 1 /\ j[2] = hi - 1 /\ lo + 1 - 1 = lo
    BY <1>1
  <2> HIDE DEF j
  <2>2. j \in Exprs
    BY DEF j
  <2> QED  BY <2>1, <2>2 DEF Exprs
<1>3. /\ lo \in Nat \ {0} /\ lo - 1 \in Nat /\ hi \in Nat \ {0} /\ hi - 1 \in Nat
  BY <1>1
<1>4. \A k \in Nat : TokenDepth(k) \in Int
  BY TokenDepthIs
<1>5. TokenDepth(lo) = TokenDepth(lo - 1) + 1
  <2>1. TokenDepth(lo) = TokenDepth(lo - 1)
          + (IF tokens[lo] = LeftParen THEN 1 ELSE IF tokens[lo] = RightParen THEN -1 ELSE 0)
    BY <1>3, TokenDepthIs
  <2> QED  BY <2>1
<1>6. TokenDepth(hi) = TokenDepth(hi - 1) - 1
  <2>1. TokenDepth(hi) = TokenDepth(hi - 1)
          + (IF tokens[hi] = LeftParen THEN 1 ELSE IF tokens[hi] = RightParen THEN -1 ELSE 0)
    BY <1>3, TokenDepthIs
  <2>2. TokenDepth(hi - 1) \in Int
    BY <1>3, <1>4
  <2> QED  BY <2>1, <2>2, ParenthesesAre
<1>7. TokenDepth(lo - 1) \in Int /\ TokenDepth(lo) \in Int /\ TokenDepth(hi) = TokenDepth(lo - 1)
  <2>1. TokenDepth(lo - 1) \in Int /\ TokenDepth(lo) \in Int
    BY <1>3, <1>4
  <2> QED  BY <1>2, <1>5, <1>6, <2>1
<1>8. ASSUME NEW k \in lo..hi PROVE TokenDepth(k) >= TokenDepth(lo - 1)
  <2>1. k = lo \/ k = hi \/ k \in (lo + 1)..(hi - 1)
    BY <1>3
  <2>2. CASE k \in (lo + 1)..(hi - 1)
    <3>1. TokenDepth(k) >= TokenDepth(lo) /\ TokenDepth(k) \in Int
      BY <1>2, <1>3, <1>4, <2>2
    <3> QED  BY <1>5, <1>7, <3>1
  <2> QED  BY <1>5, <1>7, <2>1, <2>2
<1>9. Cuts(lo, hi) = {}
  <2> SUFFICES ASSUME NEW k \in (lo + 1)..(hi - 1), TokenDepth(k) = TokenDepth(lo - 1) PROVE FALSE
    BY DEF Cuts
  <2> QED  BY <1>2, <1>5, <1>7
<1>10. Ends(tokens[hi])
  BY Sorts
<1>11. lo <= hi /\ hi > lo + 1
  BY <1>2, <1>3
<1> HIDE DEF i
<1>12. i \in Terms
  BY <1>1, <1>7, <1>8, <1>9, <1>10, <1>11 DEF Terms, Exprs
<1>13. Meaning[i] = Meaning[j]
  <2>1. Meaning[i] = MeaningBody(Meaning, i)
    BY <1>1, RecursionsExist
  <2>2. ~(i[2] <= i[1] + 1)
    BY <1>1, <1>3, <1>11
  <2> QED  BY <1>1, <1>9, <2>1, <2>2 DEF MeaningBody
<1> QED  BY <1>12, <1>13 DEF i

\* An operator between an expression and a term makes an expression of them,
\* which is cut last at this operator.
LEMMA JoinedIsExpr ==
  ASSUME tokens \in Seq(Tokens), Neighbours, NEW lo \in Nat, NEW k \in Nat, NEW hi \in Nat,
         IsOperator(tokens[k]), <<lo, k - 1>> \in Exprs, <<k + 1, hi>> \in Terms
  PROVE  /\ <<lo, hi>> \in Exprs
         /\ Meaning[<<lo, hi>>] = Apply(tokens[k], Meaning[<<lo, k - 1>>], Meaning[<<k + 1, hi>>])
<1> DEFINE i == <<lo, hi>>
           l == <<lo, k - 1>>
           r == <<k + 1, hi>>
           N == Len(tokens)
<1>1. l[1] = lo /\ l[2] = k - 1 /\ r[1] = k + 1 /\ r[2] = hi /\ i[1] = lo /\ i[2] = hi
  OBVIOUS
<1>2. l \in Exprs /\ r \in Terms /\ r \in Exprs
  BY DEF Terms
<1> HIDE DEF l, r
<1>3. N \in Nat /\ lo \in 1..N /\ k - 1 \in 1..N /\ k + 1 \in 1..N /\ hi \in 1..N /\ lo <= k - 1 /\ k + 1 <= hi
  <2>1. l \in Intervals /\ r \in Intervals /\ l[1] <= l[2] /\ r[1] <= r[2]
    BY <1>2 DEF Exprs
  <2>2. l[1] \in 1..N /\ l[2] \in 1..N /\ r[1] \in 1..N /\ r[2] \in 1..N
    BY <2>1 DEF Intervals
  <2> QED  BY <1>1, <2>1, <2>2
<1>4. /\ k \in Nat \ {0} /\ k - 1 \in Nat /\ lo - 1 \in Nat /\ k + 1 - 1 = k
      /\ k \in (lo + 1)..(hi - 1) /\ k \in 1..(N - 1)
  BY <1>3
<1>5. \A m \in Nat : TokenDepth(m) \in Int
  BY TokenDepthIs
<1>6. TokenDepth(k) = TokenDepth(k - 1)
  <2>1. TokenDepth(k) = TokenDepth(k - 1)
          + (IF tokens[k] = LeftParen THEN 1 ELSE IF tokens[k] = RightParen THEN -1 ELSE 0)
    BY <1>4, TokenDepthIs
  <2>2. tokens[k] # LeftParen /\ tokens[k] # RightParen
    BY Sorts
  <2>3. TokenDepth(k - 1) \in Int
    BY <1>4, <1>5
  <2> QED  BY <2>1, <2>2, <2>3
<1>7. TokenDepth(k - 1) = TokenDepth(lo - 1) /\ \A m \in lo..(k - 1) : TokenDepth(m) >= TokenDepth(lo - 1)
  BY <1>1, <1>2 DEF Exprs
<1>8. TokenDepth(hi) = TokenDepth(k) /\ (\A m \in (k + 1)..hi : TokenDepth(m) >= TokenDepth(k)) /\ Ends(tokens[hi])
  <2>1. /\ TokenDepth(r[2]) = TokenDepth(r[1] - 1) /\ Ends(tokens[r[2]])
        /\ \A m \in r[1]..r[2] : TokenDepth(m) >= TokenDepth(r[1] - 1)
    BY <1>2 DEF Exprs
  <2>2. r[2] = hi /\ r[1] = k + 1 /\ r[1] - 1 = k
    BY <1>1, <1>4
  <2> QED  BY <2>1, <2>2
<1>9. Cuts(k + 1, hi) = {}
  BY <1>1, <1>2 DEF Terms
<1>10. TokenDepth(k) = TokenDepth(lo - 1) /\ TokenDepth(k) \in Int
  BY <1>4, <1>5, <1>6, <1>7
<1>11. ASSUME NEW m \in lo..hi PROVE TokenDepth(m) >= TokenDepth(lo - 1)
  <2>1. m \in lo..(k - 1) \/ m = k \/ m \in (k + 1)..hi
    BY <1>3
  <2> QED  BY <1>7, <1>8, <1>10, <2>1
<1>12. i \in Intervals /\ lo <= hi
  BY <1>3 DEF Intervals
<1>13. i \in Exprs
  <2> HIDE DEF i
  <2> QED  BY <1>1, <1>8, <1>10, <1>11, <1>12 DEF Exprs
<1>14. k \in Cuts(lo, hi)
  BY <1>4, <1>10 DEF Cuts
<1>15. Max(Cuts(lo, hi)) = k
  <2> DEFINE m == Max(Cuts(lo, hi))
  <2>1. m \in Cuts(lo, hi) /\ m >= k /\ m \in (lo + 1)..(hi - 1)
    BY <1>1, <1>12, <1>14, LastCut
  <2>2. IsOperator(tokens[m]) /\ TokenDepth(m) = TokenDepth(lo - 1)
    BY <2>1 DEF Cuts
  <2> HIDE DEF m
  <2> SUFFICES ASSUME m # k PROVE FALSE
    BY DEF m
  <2>3. m \in (k + 1)..(hi - 1)
    BY <1>3, <2>1
  <2>4. CASE m = k + 1
    <3>1. ~Ends(tokens[k]) /\ ~Opens(tokens[k + 1])
      BY <2>2, <2>4, Sorts
    <3> QED  BY <1>4, <3>1 DEF Neighbours, Adjacent
  <2>5. CASE m # k + 1
    <3>1. m \in ((k + 1) + 1)..(hi - 1)
      BY <1>3, <2>3, <2>5
    <3>2. TokenDepth(m) = TokenDepth((k + 1) - 1)
      BY <1>4, <1>10, <2>2
    <3>3. m \in Cuts(k + 1, hi)
      BY <2>2, <3>1, <3>2 DEF Cuts
    <3> QED  BY <1>9, <3>3
  <2> QED  BY <2>4, <2>5
<1>16. Meaning[i] = Apply(tokens[k], Meaning[l], Meaning[r])
  <2>1. Meaning[i] = MeaningBody(Meaning, i)
    BY <1>12, RecursionsExist
  <2>2. ~(i[2] <= i[1] + 1) /\ Cuts(i[1], i[2]) # {} /\ Max(Cuts(i[1], i[2])) = k
    BY <1>1, <1>3, <1>14, <1>15
  <2>3. Meaning[i] = Apply(tokens[k], Meaning[<<i[1], k - 1>>], Meaning[<<k + 1, i[2]>>])
    <3> HIDE DEF i
    <3> QED  BY <2>1, <2>2, Zenon DEF MeaningBody
  <2> QED  BY <1>1, <2>3 DEF l, r
<1> QED  BY <1>13, <1>16 DEF l, r

------------------------------------------------------------------------------
(* Running a queue on a stack of lists. *)

Lists == {l \in Seq(Nat) : Ascending(l)}

Able(stack, t) == t \in Patterns \/ (Len(stack) >= 2 /\ HasDistance(t))

Evaluated(loc, stack, t) ==
  IF t \in Patterns THEN Append(stack, loc[t])
  ELSE LET n == Len(stack) IN
       Append(SubSeq(stack, 1, n - 2), Apply(t, stack[n - 1], stack[n]))

\* The queue turns the stack first into the stack last.
Runs(loc, queue, first, last) ==
  \E run : /\ run[0] = first /\ run[Len(queue)] = last
           /\ \A k \in 1..Len(queue) :
                Able(run[k - 1], queue[k]) /\ run[k] = Evaluated(loc, run[k - 1], queue[k])

LEMMA NothingRuns ==
  ASSUME NEW loc, NEW first
  PROVE  /\ Runs(loc, <<>>, first, first)
         /\ \A last : Runs(loc, <<>>, first, last) => last = first
<1>1. Runs(loc, <<>>, first, first)
  <2> DEFINE run == [k \in {0} |-> first]
  <2>1. run[0] = first /\ Len(<<>>) = 0 /\ 1..0 = {}
    OBVIOUS
  <2> HIDE DEF run
  <2> QED  BY <2>1 DEF Runs
<1>2. ASSUME NEW last, Runs(loc, <<>>, first, last) PROVE last = first
  BY <1>2 DEF Runs
<1> QED  BY <1>1, <1>2

LEMMA RunsLonger ==
  ASSUME NEW loc, NEW T, NEW queue \in Seq(T), NEW first, NEW last, NEW t \in T,
         Runs(loc, queue, first, last), Able(last, t)
  PROVE  Runs(loc, Append(queue, t), first, Evaluated(loc, last, t))
<1> DEFINE q == Append(queue, t)
           next == Evaluated(loc, last, t)
<1>1. /\ Len(queue) \in Nat /\ Len(q) = Len(queue) + 1 /\ q[Len(queue) + 1] = t
      /\ \A k \in 1..Len(queue) : q[k] = queue[k]
  BY AppendProperties, LenProperties
<1>2. PICK run : /\ run[0] = first /\ run[Len(queue)] = last
                 /\ \A k \in 1..Len(queue) :
                      Able(run[k - 1], queue[k]) /\ run[k] = Evaluated(loc, run[k - 1], queue[k])
  BY DEF Runs
<1> DEFINE r == [k \in 0..Len(q) |-> IF k = Len(q) THEN next ELSE run[k]]
<1> HIDE DEF q
<1>3. r[Len(q)] = next /\ \A k \in 0..Len(queue) : r[k] = run[k]
  BY <1>1
<1> HIDE DEF r, next
<1>4. r[0] = first
  BY <1>1, <1>2, <1>3
<1>5. ASSUME NEW k \in 1..Len(q) PROVE Able(r[k - 1], q[k]) /\ r[k] = Evaluated(loc, r[k - 1], q[k])
  <2>1. CASE k = Len(q)
    <3>1. k - 1 = Len(queue) /\ r[k - 1] = last /\ q[k] = t /\ r[k] = next
      BY <1>1, <1>2, <1>3, <2>1
    <3> QED  BY <3>1 DEF next
  <2>2. CASE k # Len(q)
    <3>1. k \in 1..Len(queue) /\ k - 1 \in 0..Len(queue) /\ k \in 0..Len(queue)
      BY <1>1, <2>2
    <3>2. r[k - 1] = run[k - 1] /\ r[k] = run[k] /\ q[k] = queue[k]
      BY <1>1, <1>3, <3>1
    <3> QED  BY <1>2, <3>1, <3>2
  <2> QED  BY <2>1, <2>2
<1>6. Runs(loc, q, first, next)
  BY <1>3, <1>4, <1>5 DEF Runs
<1> QED  BY <1>6 DEF q, next

LEMMA RunsOn ==
  ASSUME NEW loc, NEW T, NEW queue \in Seq(T), NEW first, NEW last,
         Runs(loc, queue, first, last), queue # <<>>
  PROVE  /\ Able(first, Head(queue))
         /\ Runs(loc, Tail(queue), Evaluated(loc, first, Head(queue)), last)
<1> DEFINE q == Tail(queue)
           next == Evaluated(loc, first, Head(queue))
<1>1. Len(queue) \in Nat \ {0} /\ Head(queue) = queue[1]
  BY EmptySeq
<1>2. Len(q) = Len(queue) - 1 /\ \A k \in 1..Len(q) : q[k] = queue[k + 1]
  BY HeadTailProperties
<1>3. PICK run : /\ run[0] = first /\ run[Len(queue)] = last
                 /\ \A k \in 1..Len(queue) :
                      Able(run[k - 1], queue[k]) /\ run[k] = Evaluated(loc, run[k - 1], queue[k])
  BY DEF Runs
<1> HIDE DEF q
<1>4. Able(first, Head(queue)) /\ run[1] = next
  <2>1. 1 \in 1..Len(queue) /\ 1 - 1 = 0
    BY <1>1
  <2>2. Able(run[1 - 1], queue[1]) /\ run[1] = Evaluated(loc, run[1 - 1], queue[1])
    BY <1>3, <2>1
  <2> QED  BY <1>1, <1>3, <2>1, <2>2
<1> DEFINE r == [k \in 0..Len(q) |-> run[k + 1]]
<1> HIDE DEF next
<1>5. r[0] = next /\ r[Len(q)] = last
  <2>1. 0 \in 0..Len(q) /\ Len(q) \in 0..Len(q) /\ Len(q) + 1 = Len(queue)
    BY <1>1, <1>2
  <2> QED  BY <1>3, <1>4, <2>1
<1>6. ASSUME NEW k \in 1..Len(q) PROVE Able(r[k - 1], q[k]) /\ r[k] = Evaluated(loc, r[k - 1], q[k])
  <2>1. k + 1 \in 1..Len(queue) /\ k + 1 - 1 = k /\ k - 1 \in 0..Len(q) /\ k \in 0..Len(q) /\ k - 1 + 1 = k
    BY <1>1, <1>2
  <2>2. r[k - 1] = run[k] /\ r[k] = run[k + 1] /\ q[k] = queue[k + 1]
    BY <1>2, <2>1
  <2>3. Able(run[k + 1 - 1], queue[k + 1]) /\ run[k + 1] = Evaluated(loc, run[k + 1 - 1], queue[k + 1])
    BY <1>3, <2>1
  <2> QED  BY <2>1, <2>2, <2>3
<1> HIDE DEF r
<1>7. Runs(loc, q, next, last)
  BY <1>5, <1>6 DEF Runs
<1> QED  BY <1>4, <1>7 DEF q, next

LEMMA OperatorEvaluated ==
  ASSUME NEW loc, NEW stack \in Seq(Lists), NEW t, t \notin Patterns, Able(stack, t),
         NEW e, e = Evaluated(loc, stack, t)
  PROVE  /\ e \in Seq(Lists) /\ Len(e) = Len(stack) - 1
         /\ e[Len(stack) - 1] = Apply(t, stack[Len(stack) - 1], stack[Len(stack)])
         /\ \A k \in 1..(Len(stack) - 2) : e[k] = stack[k]
<1> DEFINE n == Len(stack)
           front == SubSeq(stack, 1, n - 2)
           v == Apply(t, stack[n - 1], stack[n])
<1>1. n \in Nat
  BY LenProperties
<1>2. n >= 2 /\ e = Append(front, v)
  BY DEF Able, Evaluated
<1>3. n - 2 \in 0..n /\ n - 1 \in 1..n /\ n \in 1..n
  BY <1>1, <1>2
<1>4. v \in Lists
  <2>1. stack[n - 1] \in Lists /\ stack[n] \in Lists
    BY <1>3, ElementOfSeq
  <2>2. IsList(stack[n - 1]) /\ IsList(stack[n])
    BY <2>1 DEF Lists, IsList
  <2>3. IsList(v)
    BY <2>2, ApplyAscends
  <2> QED  BY <2>3 DEF Lists, IsList
<1>5. front \in Seq(Lists) /\ Len(front) = n - 2 /\ \A k \in 1..(n - 2) : front[k] = stack[k]
  BY <1>3, PrefixIs
<1> HIDE DEF front, v
<1>6. /\ e \in Seq(Lists) /\ Len(e) = Len(front) + 1 /\ e[Len(front) + 1] = v
      /\ \A k \in 1..Len(front) : e[k] = front[k]
  BY <1>2, <1>4, <1>5, AppendProperties
<1>7. Len(front) + 1 = n - 1
  BY <1>1, <1>5
<1>8. \A k \in 1..(n - 2) : e[k] = stack[k]
  BY <1>5, <1>6
<1>9. Len(e) = n - 1 /\ e[n - 1] = v
  BY <1>6, <1>7
<1> QED  BY <1>6, <1>8, <1>9 DEF v

------------------------------------------------------------------------------
(* What has been read, given the stack q of operators and the next token i. *)
(* Element j of the stack is token P[j]; C[j] operators are among the first *)
(* j; V is what the queue so far evaluates to.                              *)

\* An operator stands on a "(" or at the bottom, and on its left operand.
Placed(q, j, P, C, V) ==
  /\ P[j] \in 1..Len(tokens) /\ tokens[P[j]] = q[j]
  /\ q[j] = LeftParen => P[j] = P[j - 1] + 1 /\ C[j] = C[j - 1]
  /\ q[j] # LeftParen =>
       /\ IsOperator(q[j])
       /\ j > 1 => q[j - 1] = LeftParen
       /\ C[j] = C[j - 1] + 1
       /\ <<P[j - 1] + 1, P[j] - 1>> \in Exprs
       /\ V[C[j]] = Meaning[<<P[j - 1] + 1, P[j] - 1>>]

Below(q, P, C, V) ==
  /\ P \in [Nat -> Nat] /\ C \in [Nat -> Nat] /\ V \in Seq(Lists)
  /\ P[0] = 0 /\ C[0] = 0
  /\ \A j \in 0..Len(q) : \A m \in j..Len(q) : C[j] <= C[m]
  /\ \A j \in 1..Len(q) : Placed(q, j, P, C, V)

\* Nothing has been read since the top of the stack.
Fresh(q, i, P, C, V) == i = P[Len(q)] + 1 /\ Len(V) = C[Len(q)]

\* An operand has been read since, the right one if an operator is on top.
Filled(q, i, P, C, V) ==
  LET k == Len(q)
      read == <<P[k] + 1, i - 1>>
  IN  /\ Len(V) = C[k] + 1
      /\ V[C[k] + 1] = Meaning[read]
      /\ read \in Exprs
      /\ k > 0 /\ q[k] # LeftParen => read \in Terms

Parsed(q, i, P, C, V) ==
  Below(q, P, C, V) /\ (Fresh(q, i, P, C, V) \/ Filled(q, i, P, C, V))

\* A shorter stack on lists that agree where it looks.
LEMMA BelowLess ==
  ASSUME NEW q \in Seq(Tokens), NEW p \in Seq(Tokens), NEW P, NEW C, NEW V, Below(q, P, C, V),
         Len(p) <= Len(q), \A j \in 1..Len(p) : p[j] = q[j],
         NEW W \in Seq(Lists), \A m \in 1..C[Len(p)] : W[m] = V[m]
  PROVE  Below(p, P, C, W)
<1>1. Len(p) \in Nat /\ Len(q) \in Nat
  BY LenProperties
<1>4. \A j \in Nat : C[j] \in Nat
  BY DEF Below
<1>2. \A j \in 0..Len(p) : \A m \in j..Len(p) : C[j] <= C[m]
  <2>1. \A j \in 0..Len(p) : j \in 0..Len(q) /\ \A m \in j..Len(p) : m \in j..Len(q)
    BY <1>1
  <2> QED  BY <2>1 DEF Below
<1>3. ASSUME NEW j \in 1..Len(p) PROVE Placed(p, j, P, C, W)
  <2>1. j \in 1..Len(q) /\ p[j] = q[j] /\ Placed(q, j, P, C, V)
    <3>1. j \in 1..Len(q)
      BY <1>1
    <3> QED  BY <3>1 DEF Below
  <2>2. CASE q[j] = LeftParen
    BY <2>1, <2>2 DEF Placed
  <2>3. CASE q[j] # LeftParen
    <3>1. j > 1 => p[j - 1] = LeftParen
      <4> SUFFICES ASSUME j > 1 PROVE p[j - 1] = LeftParen
        OBVIOUS
      <4>1. j - 1 \in 1..Len(p)
        BY <1>1
      <4> QED  BY <2>1, <2>3, <4>1 DEF Placed
    <3>2. C[j] \in 1..C[Len(p)]
      <4>1. j - 1 \in Nat /\ j \in Nat /\ Len(p) \in j..Len(p) /\ j \in 0..Len(p)
        BY <1>1
      <4>2. C[j] = C[j - 1] + 1 /\ C[j] <= C[Len(p)]
        BY <1>2, <2>1, <2>3, <4>1 DEF Placed
      <4>3. C[j - 1] \in Nat /\ C[j] \in Nat /\ C[Len(p)] \in Nat
        BY <1>1, <1>4, <4>1
      <4> QED  BY <4>2, <4>3
    <3>3. W[C[j]] = V[C[j]]
      BY <3>2
    <3> QED  BY <2>1, <2>3, <3>1, <3>3 DEF Placed
  <2> QED  BY <2>2, <2>3
<1> QED  BY <1>2, <1>3 DEF Below

\* A new top.
LEMMA BelowMore ==
  ASSUME tokens \in Seq(Tokens), NEW q \in Seq(Tokens), NEW i \in 1..Len(tokens), NEW P, NEW C, NEW V,
         Below(q, P, C, V),
         \/ tokens[i] = LeftParen /\ Fresh(q, i, P, C, V)
         \/ /\ IsOperator(tokens[i]) /\ Filled(q, i, P, C, V)
            /\ q = <<>> \/ Last(q) = LeftParen
  PROVE  \E R, d : Below(Append(q, tokens[i]), R, d, V) /\ Fresh(Append(q, tokens[i]), i + 1, R, d, V)
<1> DEFINE t == tokens[i]
           n == Len(q)
           u == IF t = LeftParen THEN C[n] ELSE C[n] + 1
           R == [P EXCEPT ![n + 1] = i]
           d == [C EXCEPT ![n + 1] = u]
           p == Append(q, t)
<1>1. n \in Nat
  BY LenProperties
<1>2. t \in Tokens /\ i \in Nat /\ Len(tokens) \in Nat
  OBVIOUS
<1>3. P \in [Nat -> Nat] /\ C \in [Nat -> Nat] /\ V \in Seq(Lists) /\ P[0] = 0 /\ C[0] = 0
  BY DEF Below
<1>4. \A j \in Nat : C[j] \in Nat
  BY <1>3
<1> HIDE DEF t
<1>5. Len(p) = n + 1 /\ p[n + 1] = t /\ \A j \in 1..n : p[j] = q[j]
  BY <1>2, AppendProperties
<1>6. u \in Nat /\ u >= C[n]
  <2>1. C[n] \in Nat
    BY <1>1, <1>4
  <2> QED  BY <2>1
<1>7. /\ R \in [Nat -> Nat] /\ R[n + 1] = i
      /\ \A j \in Nat : j # n + 1 => R[j] = P[j]
  <2> HIDE DEF n, R
  <2>1. R = [P EXCEPT ![n + 1] = i]
    BY DEF R
  <2>2. n \in Nat /\ i \in Nat /\ P \in [Nat -> Nat]
    BY <1>1, <1>2, <1>3
  <2>3. R \in [Nat -> Nat]
    BY <2>1, <2>2
  <2>4. R[n + 1] = i
    <3>1. n + 1 \in Nat
      BY <2>2
    <3> QED  BY <2>1, <2>2, <3>1
  <2>5. \A j \in Nat : j # n + 1 => R[j] = P[j]
    BY <2>1, <2>2
  <2> QED  BY <2>3, <2>4, <2>5
<1> HIDE DEF u
<1>8. /\ d \in [Nat -> Nat] /\ d[n + 1] = u
      /\ \A j \in Nat : j # n + 1 => d[j] = C[j]
  <2> HIDE DEF n, d
  <2>1. d = [C EXCEPT ![n + 1] = u]
    BY DEF d
  <2>2. n \in Nat /\ u \in Nat /\ C \in [Nat -> Nat]
    BY <1>1, <1>3, <1>6
  <2>3. d \in [Nat -> Nat]
    BY <2>1, <2>2
  <2>4. d[n + 1] = u
    <3>1. n + 1 \in Nat
      BY <2>2
    <3> QED  BY <2>1, <2>2, <3>1
  <2>5. \A j \in Nat : j # n + 1 => d[j] = C[j]
    BY <2>1, <2>2
  <2> QED  BY <2>3, <2>4, <2>5
<1> HIDE DEF R, d, p
<1>9. R[0] = 0 /\ d[0] = 0 /\ R[n] = P[n] /\ d[n] = C[n]
  <2>1. 0 \in Nat /\ 0 # n + 1 /\ n # n + 1
    BY <1>1
  <2> QED  BY <1>1, <1>3, <1>7, <1>8, <2>1
<1>10. ASSUME NEW j \in 0..Len(p), NEW m \in j..Len(p) PROVE d[j] <= d[m]
  <2>0. j \in Nat /\ m \in Nat
    BY <1>1, <1>5
  <2>1. CASE m # n + 1
    <3>1. j \in 0..n /\ m \in j..n /\ j # n + 1
      BY <1>1, <1>5, <2>1
    <3>2. d[j] = C[j] /\ d[m] = C[m]
      BY <1>8, <2>0, <2>1, <3>1
    <3> QED  BY <3>1, <3>2 DEF Below
  <2>2. CASE m = n + 1 /\ j # n + 1
    <3>1. j \in 0..n /\ n \in j..n
      BY <1>1, <1>5, <2>2
    <3>2. C[j] <= C[n]
      BY <3>1 DEF Below
    <3>3. C[j] \in Nat /\ C[n] \in Nat
      BY <1>1, <1>4, <2>0
    <3>4. d[j] = C[j] /\ d[m] = u
      BY <1>8, <2>0, <2>2
    <3> QED  BY <1>6, <3>2, <3>3, <3>4
  <2>3. CASE m = n + 1 /\ j = n + 1
    BY <1>6, <1>8, <2>3
  <2> QED  BY <2>1, <2>2, <2>3
<1>11. ASSUME NEW j \in 1..Len(p) PROVE Placed(p, j, R, d, V)
  <2>1. CASE j # n + 1
    <3>1. j \in 1..n /\ j - 1 \in Nat /\ j - 1 # n + 1 /\ j \in Nat
      BY <1>1, <1>5, <2>1
    <3>2. R[j] = P[j] /\ R[j - 1] = P[j - 1] /\ d[j] = C[j] /\ d[j - 1] = C[j - 1] /\ p[j] = q[j]
      BY <1>5, <1>7, <1>8, <2>1, <3>1
    <3>3. j > 1 => p[j - 1] = q[j - 1]
      <4>1. j > 1 => j - 1 \in 1..n
        BY <3>1
      <4> QED  BY <1>5, <4>1
    <3>4. Placed(q, j, P, C, V)
      BY <3>1 DEF Below
    <3> QED  BY <3>2, <3>3, <3>4 DEF Placed
  <2>2. CASE j = n + 1
    <3>1. j - 1 = n
      BY <1>1, <2>2
    <3>2. R[j] = i /\ d[j] = u /\ R[j - 1] = P[n] /\ d[j - 1] = C[n] /\ p[j] = t
      BY <1>5, <1>7, <1>8, <1>9, <2>2, <3>1
    <3>3. CASE t = LeftParen
      <4>1. i = P[n] + 1 /\ u = C[n]
        BY <3>3, Sorts DEF t, Fresh, u
      <4> QED  BY <3>2, <3>3, <4>1 DEF Placed, t
    <3>4. CASE t # LeftParen
      <4>1. /\ IsOperator(t) /\ Filled(q, i, P, C, V) /\ u = C[n] + 1
            /\ q = <<>> \/ Last(q) = LeftParen
        BY <3>4 DEF t, u
      <4>2. j > 1 => p[j - 1] = LeftParen
        <5> SUFFICES ASSUME j > 1 PROVE p[j - 1] = LeftParen
          OBVIOUS
        <5>1. n \in 1..n /\ q # <<>>
          BY <1>1, <2>2
        <5>2. Last(q) = q[n]
          BY DEF Last
        <5> QED  BY <1>5, <3>1, <4>1, <5>1, <5>2
      <4>3. /\ <<P[n] + 1, i - 1>> \in Exprs
            /\ V[C[n] + 1] = Meaning[<<P[n] + 1, i - 1>>]
        BY <4>1 DEF Filled
      <4> QED  BY <3>2, <3>4, <4>1, <4>2, <4>3 DEF Placed, t
    <3> QED  BY <3>3, <3>4
  <2> QED  BY <2>1, <2>2
<1>12. Below(p, R, d, V)
  BY <1>3, <1>7, <1>8, <1>9, <1>10, <1>11 DEF Below
<1>13. Fresh(p, i + 1, R, d, V)
  <2>1. Len(V) = u
    <3>1. CASE t = LeftParen
      BY <3>1, Sorts DEF t, Fresh, u
    <3>2. CASE t # LeftParen
      BY <3>2 DEF t, Filled, u
    <3> QED  BY <3>1, <3>2
  <2> QED  BY <1>5, <1>7, <1>8, <2>1 DEF Fresh
<1> QED  BY <1>12, <1>13 DEF p, t

\* A term is read where nothing has been read since the top.
LEMMA TermRead ==
  ASSUME NEW q \in Seq(Tokens), NEW i \in Nat, NEW P, NEW C, NEW V,
         Below(q, P, C, V), Fresh(q, i, P, C, V), NEW v \in Lists,
         <<i, i>> \in Terms, Meaning[<<i, i>>] = v
  PROVE  Parsed(q, i + 1, P, C, Append(V, v))
<1> DEFINE n == Len(q)
           W == Append(V, v)
<1>1. n \in Nat /\ n <= n /\ \A j \in 1..n : q[j] = q[j]
  BY LenProperties
<1>2. V \in Seq(Lists) /\ C[n] \in Nat /\ Len(V) = C[n] /\ i = P[n] + 1
  BY <1>1 DEF Below, Fresh
<1>3. W \in Seq(Lists) /\ Len(W) = C[n] + 1 /\ W[C[n] + 1] = v /\ \A m \in 1..C[n] : W[m] = V[m]
  BY <1>2, AppendProperties
<1> HIDE DEF W
<1>4. Below(q, P, C, W)
  BY <1>1, <1>3, BelowLess
<1>5. Filled(q, i + 1, P, C, W)
  <2>1. i + 1 - 1 = i /\ P[n] + 1 = i
    BY <1>2
  <2>2. <<i, i>> \in Exprs
    BY DEF Terms
  <2> QED  BY <1>3, <2>1, <2>2 DEF Filled
<1> QED  BY <1>4, <1>5 DEF Parsed, W

\* The operator on top takes its operands.
LEMMA OperatorTakes ==
  ASSUME tokens \in Seq(Tokens), Neighbours,
         NEW q \in Seq(Tokens), q # <<>>, NEW i \in Nat \ {0}, NEW P, NEW C, NEW V,
         Below(q, P, C, V), Filled(q, i, P, C, V), Last(q) # LeftParen,
         NEW loc
  PROVE  /\ Able(V, Last(q))
         /\ Below(Front(q), P, C, Evaluated(loc, V, Last(q)))
         /\ Filled(Front(q), i, P, C, Evaluated(loc, V, Last(q)))
<1> DEFINE n == Len(q)
           t == Last(q)
           W == Evaluated(loc, V, t)
           p == Front(q)
<1>1. /\ n \in Nat \ {0} /\ t = q[n] /\ p \in Seq(Tokens) /\ Len(p) = n - 1
      /\ \A j \in 1..(n - 1) : p[j] = q[j]
  BY TopOf
<1>2. n \in 1..n /\ n - 1 \in Nat /\ n \in Nat
  BY <1>1
<1>3. C[n] \in Nat /\ C[n - 1] \in Nat /\ P[n] \in Nat /\ P[n - 1] \in Nat
  BY <1>2 DEF Below
<1>14. V \in Seq(Lists)
  BY DEF Below
<1>4. Placed(q, n, P, C, V)
  BY <1>2 DEF Below
<1> HIDE DEF t, p
<1>15. P[n] \in 1..Len(tokens)
  BY <1>4 DEF Placed
<1>5. /\ IsOperator(t) /\ tokens[P[n]] = t /\ (n > 1 => q[n - 1] = LeftParen) /\ C[n] = C[n - 1] + 1
      /\ <<P[n - 1] + 1, P[n] - 1>> \in Exprs
      /\ V[C[n]] = Meaning[<<P[n - 1] + 1, P[n] - 1>>]
  BY <1>1, <1>4 DEF Placed, t
<1>6. /\ Len(V) = C[n] + 1 /\ V[C[n] + 1] = Meaning[<<P[n] + 1, i - 1>>]
      /\ <<P[n] + 1, i - 1>> \in Terms
  BY <1>1 DEF Filled, t
<1> DEFINE read == <<P[n - 1] + 1, i - 1>>
<1>7. /\ read \in Exprs
      /\ Meaning[read] = Apply(t, V[C[n]], V[C[n] + 1])
  <2>1. P[n - 1] + 1 \in Nat /\ P[n] \in Nat /\ i - 1 \in Nat
    BY <1>3
  <2>2. IsOperator(tokens[P[n]])
    BY <1>5
  <2>3. /\ read \in Exprs
        /\ Meaning[read] = Apply(tokens[P[n]], Meaning[<<P[n - 1] + 1, P[n] - 1>>], Meaning[<<P[n] + 1, i - 1>>])
    BY <1>5, <1>6, <2>1, <2>2, JoinedIsExpr
  <2> QED  BY <1>5, <1>6, <2>3
<1> HIDE DEF read
<1>8. Len(V) = C[n - 1] + 2 /\ Len(V) >= 2
  <2> DEFINE now == C[n]
             before == C[n - 1]
             lists == Len(V)
  <2>1. before \in Nat /\ now = before + 1 /\ lists = now + 1
    BY <1>3, <1>5, <1>6
  <2> HIDE DEF now, before, lists
  <2>2. lists = before + 2 /\ lists >= 2
    BY <2>1
  <2> QED  BY <2>2 DEF before, lists
<1>9. Able(V, t) /\ t \notin Patterns
  <2>1. HasDistance(t)
    BY <1>4, <1>5, <1>15 DEF Neighbours
  <2> QED  BY <1>5, <1>8, <2>1, Sorts DEF Able
<1>10. /\ W \in Seq(Lists) /\ Len(W) = Len(V) - 1 /\ W[Len(V) - 1] = Apply(t, V[Len(V) - 1], V[Len(V)])
       /\ \A k \in 1..(Len(V) - 2) : W[k] = V[k]
  <2>1. W = Evaluated(loc, V, t)
    OBVIOUS
  <2> HIDE DEF W
  <2> QED  BY ONLY <1>9, <1>14, <2>1, OperatorEvaluated, SMTT(30)
<1> HIDE DEF W
<1>11. /\ Len(W) = C[n - 1] + 1 /\ W[C[n - 1] + 1] = Meaning[read]
       /\ \A k \in 1..C[n - 1] : W[k] = V[k]
  <2>1. Len(V) - 1 = C[n - 1] + 1 /\ Len(V) - 1 = C[n] /\ Len(V) = C[n] + 1 /\ Len(V) - 2 = C[n - 1]
    <3> DEFINE now == C[n]
               before == C[n - 1]
               lists == Len(V)
    <3>1. before \in Nat /\ now = before + 1 /\ lists = now + 1
      BY <1>3, <1>5, <1>6
    <3> HIDE DEF now, before, lists
    <3>2. lists - 1 = before + 1 /\ lists - 1 = now /\ lists = now + 1 /\ lists - 2 = before
      BY <3>1
    <3> QED  BY <3>2 DEF now, before, lists
  <2>2. W[C[n - 1] + 1] = Apply(t, V[C[n]], V[C[n] + 1])
    BY <1>10, <2>1
  <2>3. \A k \in 1..C[n - 1] : W[k] = V[k]
    BY <1>10, <2>1
  <2> QED  BY <1>7, <1>10, <2>1, <2>2, <2>3
<1>12. Below(p, P, C, W)
  <2>1. Len(p) <= Len(q) /\ \A j \in 1..Len(p) : p[j] = q[j]
    BY <1>1
  <2>2. p \in Seq(Tokens) /\ \A m \in 1..C[Len(p)] : W[m] = V[m]
    BY <1>1, <1>11
  <2> QED  BY <1>10, <2>1, <2>2, BelowLess
<1>13. Filled(p, i, P, C, W)
  <2>1. Len(p) > 0 => p[Len(p)] = LeftParen
    <3> SUFFICES ASSUME Len(p) > 0 PROVE p[Len(p)] = LeftParen
      OBVIOUS
    <3>1. n > 1 /\ n - 1 \in 1..(n - 1)
      BY <1>1
    <3> QED  BY <1>1, <1>5, <3>1
  <2> QED  BY <1>1, <1>7, <1>11, <2>1 DEF Filled, read
<1> QED  BY <1>9, <1>12, <1>13 DEF W, t, p

\* A ")" makes a term of what has been read since the "(" on top.
LEMMA TermEnclosed ==
  ASSUME tokens \in Seq(Tokens), NEW q \in Seq(Tokens), q # <<>>, NEW i \in 1..Len(tokens),
         NEW P, NEW C, NEW V, Below(q, P, C, V), Filled(q, i, P, C, V),
         Last(q) = LeftParen, tokens[i] = RightParen
  PROVE  Parsed(Front(q), i + 1, P, C, V)
<1> DEFINE n == Len(q)
           p == Front(q)
<1>1. /\ n \in Nat \ {0} /\ q[n] = LeftParen /\ p \in Seq(Tokens) /\ Len(p) = n - 1
      /\ \A j \in 1..(n - 1) : p[j] = q[j]
  BY TopOf
<1>2. n \in 1..n /\ n - 1 \in Nat /\ n \in Nat
  BY <1>1
<1>3. V \in Seq(Lists) /\ C[n] \in Nat /\ P[n] \in Nat /\ P[n - 1] \in Nat
  BY <1>2 DEF Below
<1>4. Placed(q, n, P, C, V)
  BY <1>2 DEF Below
<1>5. P[n] \in 1..Len(tokens) /\ tokens[P[n]] = LeftParen /\ P[n] = P[n - 1] + 1 /\ C[n] = C[n - 1]
  BY <1>1, <1>4 DEF Placed
<1>6. /\ Len(V) = C[n] + 1 /\ V[C[n] + 1] = Meaning[<<P[n] + 1, i - 1>>]
      /\ <<P[n] + 1, i - 1>> \in Exprs
  BY DEF Filled
<1>7. <<P[n], i>> \in Terms /\ Meaning[<<P[n], i>>] = Meaning[<<P[n] + 1, i - 1>>]
  BY <1>5, <1>6, EnclosedIsTerm
<1> HIDE DEF p
<1>8. Below(p, P, C, V)
  <2>1. Len(p) <= Len(q) /\ \A j \in 1..Len(p) : p[j] = q[j]
    BY <1>1
  <2> QED  BY <1>1, <1>3, <2>1, BelowLess
<1>9. Filled(p, i + 1, P, C, V)
  <2>1. i + 1 - 1 = i /\ P[n - 1] + 1 = P[n]
    BY <1>3, <1>5
  <2>2. <<P[n], i>> \in Exprs
    BY <1>7 DEF Terms
  <2> QED  BY <1>1, <1>5, <1>6, <1>7, <2>1, <2>2 DEF Filled
<1> QED  BY <1>8, <1>9 DEF Parsed, p

\* Whether an operand has been read shows in the next token.
LEMMA WhatIsRead ==
  ASSUME tokens \in Seq(Tokens), tokens # <<>>, Neighbours,
         NEW q \in Seq(Tokens), NEW i \in 1..(Len(tokens) + 1),
         NEW P, NEW C, NEW V, Parsed(q, i, P, C, V)
  PROVE  IF i <= Len(tokens) /\ Opens(tokens[i]) THEN Fresh(q, i, P, C, V)
                                                  ELSE Filled(q, i, P, C, V)
<1> DEFINE N == Len(tokens)
           n == Len(q)
<1>1. N \in Nat \ {0} /\ n \in Nat /\ i \in Nat
  BY EmptySeq, LenProperties
<1>2. ASSUME Filled(q, i, P, C, V), i <= N PROVE ~Opens(tokens[i])
  <2> DEFINE read == <<P[n] + 1, i - 1>>
  <2>1. read \in Exprs /\ read[2] = i - 1
    BY <1>2 DEF Filled
  <2> HIDE DEF read
  <2>2. Ends(tokens[i - 1]) /\ i - 1 \in 1..N
    BY <2>1 DEF Exprs, Intervals
  <2>3. i - 1 \in 1..(N - 1) /\ i - 1 + 1 = i
    BY <1>1, <1>2, <2>2
  <2> QED  BY <2>2, <2>3 DEF Neighbours, Adjacent
<1>3. ASSUME Fresh(q, i, P, C, V) PROVE i <= N /\ Opens(tokens[i])
  <2>1. i = P[n] + 1
    BY <1>3 DEF Fresh
  <2>2. CASE n = 0
    <3>1. i = 1
      BY <2>1, <2>2 DEF Parsed, Below
    <3> QED  BY <1>1, <3>1 DEF Neighbours, Adjacent
  <2>3. CASE n # 0
    <3>1. n \in 1..n
      BY <1>1, <2>3
    <3>2. Placed(q, n, P, C, V)
      BY <3>1 DEF Parsed, Below
    <3>3. P[n] \in 1..N /\ ~Ends(tokens[P[n]])
      BY <3>2, Sorts DEF Placed
    <3>4. P[n] # N
      BY <3>3 DEF Neighbours, Adjacent
    <3>5. P[n] \in 1..(N - 1) /\ i <= N
      BY <1>1, <2>1, <3>3, <3>4
    <3> QED  BY <2>1, <3>3, <3>5 DEF Neighbours, Adjacent
  <2> QED  BY <2>2, <2>3
<1> QED  BY <1>2, <1>3 DEF Parsed

------------------------------------------------------------------------------
(* A key tells which operator made it of which operands. *)

Weight(t) == IF t = LeftParen THEN 1 ELSE IF t = RightParen THEN -1 ELSE 0

\* d is the nesting depth along the key.
Nests(key, d) ==
  /\ d \in [0..Len(key) -> Int]
  /\ d[0] = 0
  /\ \A k \in 1..Len(key) : d[k] = d[k - 1] + Weight(key[k])

\* All of a key is inside its parentheses.
IsKey(key) ==
  /\ key \in Spellings
  /\ Len(key) > 0
  /\ \E d : /\ Nests(key, d) /\ d[Len(key)] = 0
            /\ \A k \in 1..(Len(key) - 1) : d[k] >= 1

\* u is q, which has m elements, and behind it r, which has n.
Joins(T, u, q, m, r, n) ==
  /\ u \in Seq(T) /\ Len(u) = m + n
  /\ \A k \in 1..m : u[k] = q[k]
  /\ \A k \in 1..n : u[m + k] = r[k]

LEMMA Joined ==
  ASSUME NEW T, NEW q \in Seq(T), NEW r \in Seq(T), NEW m \in Nat, Len(q) = m, NEW n \in Nat, Len(r) = n
  PROVE  Joins(T, q \o r, q, m, r, n)
<1> DEFINE u == q \o r
<1>1. /\ u \in Seq(T) /\ Len(u) = Len(q) + Len(r)
      /\ \A k \in 1..(Len(q) + Len(r)) : u[k] = IF k <= Len(q) THEN q[k] ELSE r[k - Len(q)]
  BY ConcatProperties
<1>2. \A k \in 1..(m + n) : u[k] = IF k <= m THEN q[k] ELSE r[k - m]
  BY <1>1
<1>3. ASSUME NEW k \in 1..m PROVE u[k] = q[k]
  <2>1. k \in 1..(m + n) /\ k <= m
    OBVIOUS
  <2> QED  BY <1>2, <2>1
<1>4. ASSUME NEW k \in 1..n PROVE u[m + k] = r[k]
  <2>1. m + k \in 1..(m + n) /\ ~(m + k <= m) /\ m + k - m = k
    OBVIOUS
  <2> QED  BY <1>2, <2>1
<1>5. Len(u) = m + n
  BY <1>1
<1> QED  BY <1>1, <1>3, <1>4, <1>5 DEF Joins

\* Where the parts of an inner expression are in its key.
Spelt(key, x, op, y) ==
  /\ key \in Spellings /\ Len(x) \in Nat /\ Len(y) \in Nat
  /\ Len(key) = Len(x) + Len(y) + 3
  /\ key[1] = LeftParen /\ key[Len(x) + 2] = op /\ key[Len(x) + Len(y) + 3] = RightParen
  /\ \A k \in 1..Len(x) : key[k + 1] = x[k]
  /\ \A k \in 1..Len(y) : key[Len(x) + 2 + k] = y[k]

LEMMA SpellAt ==
  ASSUME NEW x \in Spellings, NEW op \in Tokens, NEW y \in Spellings, NEW key, key = Spell(x, op, y)
  PROVE  Spelt(key, x, op, y)
<1> DEFINE T == Tokens \cup Parentheses
           p1 == <<LeftParen>>
           p2 == <<op>>
           p3 == <<RightParen>>
           q1 == p1 \o x
           q2 == q1 \o p2
           q3 == q2 \o y
<1>1. /\ p1 \in Seq(T) /\ Len(p1) = 1 /\ p1[1] = LeftParen
      /\ p2 \in Seq(T) /\ Len(p2) = 1 /\ p2[1] = op
      /\ p3 \in Seq(T) /\ Len(p3) = 1 /\ p3[1] = RightParen
  BY DEF Parentheses
<1>2. x \in Seq(T) /\ y \in Seq(T)
  BY DEF Spellings
<1>3. q1 = p1 \o x /\ q2 = q1 \o p2 /\ q3 = q2 \o y /\ key = q3 \o p3
  BY DEF Spell
<1> HIDE DEF T, p1, p2, p3, q1, q2, q3
<1>4. PICK m \in Nat : Len(x) = m
  BY <1>2, LenProperties
<1>5. PICK n \in Nat : Len(y) = n
  BY <1>2, LenProperties
<1>6. 1 \in Nat /\ 1 + m \in Nat /\ 1 + m + 1 \in Nat /\ 1 + m + 1 + n \in Nat
  OBVIOUS
<1>7. Joins(T, q1, p1, 1, x, m)
  BY <1>1, <1>2, <1>3, <1>4, <1>6, Joined
<1>8. Joins(T, q2, q1, 1 + m, p2, 1)
  <2>1. q1 \in Seq(T) /\ Len(q1) = 1 + m /\ 1 + m \in Nat
    BY <1>6, <1>7 DEF Joins
  <2>2. p2 \in Seq(T) /\ Len(p2) = 1 /\ q2 = q1 \o p2 /\ 1 \in Nat
    BY <1>1, <1>3
  <2> QED  BY ONLY <2>1, <2>2, Joined
<1>9. Joins(T, q3, q2, 1 + m + 1, y, n)
  <2>1. q2 \in Seq(T) /\ Len(q2) = 1 + m + 1 /\ 1 + m + 1 \in Nat
    BY <1>6, <1>8 DEF Joins
  <2>2. y \in Seq(T) /\ Len(y) = n /\ q3 = q2 \o y /\ n \in Nat
    BY <1>2, <1>3, <1>5
  <2> QED  BY ONLY <2>1, <2>2, Joined
<1>10. Joins(T, key, q3, 1 + m + 1 + n, p3, 1)
  <2>1. q3 \in Seq(T) /\ Len(q3) = 1 + m + 1 + n /\ 1 + m + 1 + n \in Nat
    BY <1>6, <1>9 DEF Joins
  <2>2. p3 \in Seq(T) /\ Len(p3) = 1 /\ key = q3 \o p3 /\ 1 \in Nat
    BY <1>1, <1>3
  <2> QED  BY ONLY <2>1, <2>2, Joined
<1>11. ASSUME NEW k \in 1..(1 + m) PROVE key[k] = q1[k]
  <2>1. k \in 1..(1 + m + 1) /\ k \in 1..(1 + m + 1 + n)
    OBVIOUS
  <2> QED  BY <1>8, <1>9, <1>10, <2>1 DEF Joins
<1>12. key[1] = LeftParen
  <2>1. 1 \in 1..(1 + m) /\ 1 \in 1..1
    OBVIOUS
  <2>2. q1[1] = p1[1]
    BY <1>7, <2>1 DEF Joins
  <2> QED  BY <1>1, <1>11, <2>1, <2>2
<1>13. key[m + 2] = op
  <2>1. 1 + m + 1 \in 1..(1 + m + 1) /\ 1 + m + 1 \in 1..(1 + m + 1 + n) /\ 1 \in 1..1 /\ m + 2 = 1 + m + 1
    OBVIOUS
  <2>2. key[1 + m + 1] = op
    BY <1>1, <1>8, <1>9, <1>10, <2>1 DEF Joins
  <2> QED  BY <2>1, <2>2
<1>14. key[m + n + 3] = RightParen
  <2>1. 1 \in 1..1 /\ m + n + 3 = 1 + m + 1 + n + 1
    OBVIOUS
  <2>2. key[1 + m + 1 + n + 1] = RightParen
    BY <1>1, <1>10, <2>1 DEF Joins
  <2> QED  BY <2>1, <2>2
<1>15. ASSUME NEW k \in 1..m PROVE key[k + 1] = x[k]
  <2>1. k + 1 \in 1..(1 + m) /\ k + 1 = 1 + k
    OBVIOUS
  <2> QED  BY <1>7, <1>11, <2>1 DEF Joins
<1>16. ASSUME NEW k \in 1..n PROVE key[m + 2 + k] = y[k]
  <2>1. 1 + m + 1 + k \in 1..(1 + m + 1 + n) /\ m + 2 + k = 1 + m + 1 + k
    OBVIOUS
  <2>2. key[1 + m + 1 + k] = y[k]
    BY <1>9, <1>10, <2>1 DEF Joins
  <2> QED  BY <2>1, <2>2
<1>17. key \in Spellings /\ Len(key) = m + n + 3
  <2>1. Len(key) = m + n + 3
    BY <1>10 DEF Joins
  <2>2. key \in Seq(T)
    BY <1>10 DEF Joins
  <2> QED  BY <2>1, <2>2 DEF Spellings, T
<1> QED  BY <1>4, <1>5, <1>12, <1>13, <1>14, <1>15, <1>16, <1>17 DEF Spelt

LEMMA WeightIs == \A t : Weight(t) \in Int
BY DEF Weight

\* No key begins another.
LEMMA KeysEnd ==
  ASSUME NEW x, IsKey(x), NEW y, IsKey(y), Len(x) <= Len(y), \A k \in 1..Len(x) : x[k] = y[k]
  PROVE  x = y
<1>1. x \in Spellings /\ y \in Spellings /\ Len(x) \in Nat \ {0} /\ Len(y) \in Nat \ {0}
  BY DEF IsKey, Spellings
<1>2. PICK d : Nests(x, d) /\ d[Len(x)] = 0
  BY DEF IsKey
<1>3. PICK e : Nests(y, e) /\ \A k \in 1..(Len(y) - 1) : e[k] >= 1
  BY DEF IsKey
<1> DEFINE Off == {k \in 0..Len(x) : d[k] # e[k]}
<1>4. Off = {}
  <2> SUFFICES ASSUME Off # {} PROVE FALSE
    OBVIOUS
  <2>1. PICK k \in Off : \A m \in Off : k <= m
    <3>1. Off \subseteq Nat
      BY <1>1
    <3> HIDE DEF Off
    <3> QED  BY <3>1, LeastNumber
  <2>2. k \in 0..Len(x) /\ d[k] # e[k]
    BY <2>1
  <2>3. k # 0
    BY <1>2, <1>3, <2>2 DEF Nests
  <2>4. k \in 1..Len(x) /\ k - 1 \in 0..Len(x) /\ k \in 1..Len(y) /\ ~(k <= k - 1)
    BY <1>1, <2>2, <2>3
  <2>5. d[k - 1] = e[k - 1]
    <3>1. k - 1 \notin Off
      <4> HIDE DEF Off
      <4> QED  BY <2>1, <2>4
    <3> QED  BY <2>4, <3>1
  <2>6. d[k] = d[k - 1] + Weight(x[k]) /\ e[k] = e[k - 1] + Weight(y[k])
    BY <1>2, <1>3, <2>4 DEF Nests
  <2> QED  BY <2>2, <2>4, <2>5, <2>6
<1>5. e[Len(x)] = 0
  BY <1>1, <1>2, <1>4
<1>6. Len(x) = Len(y)
  <2> SUFFICES ASSUME Len(x) # Len(y) PROVE FALSE
    OBVIOUS
  <2>1. Len(x) \in 1..(Len(y) - 1)
    BY <1>1
  <2> QED  BY <1>3, <1>5, <2>1
<1> QED  BY <1>1, <1>6, SeqEqual DEF Spellings

LEMMA SpellIsKey ==
  ASSUME NEW x, IsKey(x), NEW y, IsKey(y), NEW op \in Tokens, op \notin Parentheses
  PROVE  IsKey(Spell(x, op, y))
<1> DEFINE key == Spell(x, op, y)
           m == Len(x)
           n == Len(y)
<1>1. x \in Spellings /\ y \in Spellings
  BY DEF IsKey
<1>2. /\ key \in Spellings /\ m \in Nat /\ n \in Nat /\ Len(key) = m + n + 3
      /\ key[1] = LeftParen /\ key[m + 2] = op /\ key[m + n + 3] = RightParen
      /\ \A k \in 1..m : key[k + 1] = x[k]
      /\ \A k \in 1..n : key[m + 2 + k] = y[k]
  <2>1. Spelt(key, x, op, y)
    BY <1>1, SpellAt
  <2> HIDE DEF key
  <2> QED  BY <2>1 DEF Spelt
<1> HIDE DEF key
<1>3. PICK d : Nests(x, d) /\ d[m] = 0 /\ \A k \in 1..(m - 1) : d[k] >= 1
  BY DEF IsKey
<1>4. PICK e : Nests(y, e) /\ e[n] = 0 /\ \A k \in 1..(n - 1) : e[k] >= 1
  BY DEF IsKey
<1>5. /\ \A k \in 0..m : d[k] \in Int /\ d[k] >= 0
      /\ \A k \in 0..n : e[k] \in Int /\ e[k] >= 0
  <2>1. ASSUME NEW k \in 0..m PROVE d[k] \in Int /\ d[k] >= 0
    <3>1. d[k] \in Int
      BY <1>3 DEF Nests
    <3>2. k = 0 \/ k = m \/ k \in 1..(m - 1)
      BY <1>2
    <3>3. d[0] = 0
      BY <1>3 DEF Nests
    <3> QED  BY <1>3, <3>1, <3>2, <3>3
  <2>2. ASSUME NEW k \in 0..n PROVE e[k] \in Int /\ e[k] >= 0
    <3>1. e[k] \in Int
      BY <1>4 DEF Nests
    <3>2. k = 0 \/ k = n \/ k \in 1..(n - 1)
      BY <1>2
    <3>3. e[0] = 0
      BY <1>4 DEF Nests
    <3> QED  BY <1>4, <3>1, <3>2, <3>3
  <2> QED  BY <2>1, <2>2
<1> DEFINE f == [k \in 0..Len(key) |->
                   IF k = 0 \/ k = m + n + 3 THEN 0
                   ELSE IF k <= m + 1 THEN 1 + d[k - 1] ELSE 1 + e[k - (m + 2)]]
<1>6. /\ f[0] = 0 /\ f[m + n + 3] = 0
      /\ \A k \in 1..(m + 1) : f[k] = 1 + d[k - 1]
      /\ \A k \in (m + 2)..(m + n + 2) : f[k] = 1 + e[k - (m + 2)]
  BY <1>2
<1>7. \A k \in 1..(m + n + 2) : f[k] \in Int /\ f[k] >= 1
  <2> SUFFICES ASSUME NEW k \in 1..(m + n + 2) PROVE f[k] \in Int /\ f[k] >= 1
    OBVIOUS
  <2> HIDE DEF f
  <2>1. CASE k <= m + 1
    <3>1. k \in 1..(m + 1) /\ k - 1 \in 0..m
      BY <1>2, <2>1
    <3>2. f[k] = 1 + d[k - 1] /\ d[k - 1] \in Int /\ d[k - 1] >= 0
      BY <1>5, <1>6, <3>1
    <3> QED  BY <3>2
  <2>2. CASE ~(k <= m + 1)
    <3>1. k \in (m + 2)..(m + n + 2) /\ k - (m + 2) \in 0..n
      BY <1>2, <2>2
    <3>2. f[k] = 1 + e[k - (m + 2)] /\ e[k - (m + 2)] \in Int /\ e[k - (m + 2)] >= 0
      BY <1>5, <1>6, <3>1
    <3> QED  BY <3>2
  <2> QED  BY <2>1, <2>2
<1>8. f \in [0..Len(key) -> Int]
  <2>1. \A k \in 0..Len(key) : k = 0 \/ k = m + n + 3 \/ k \in 1..(m + n + 2)
    <3>1. m \in Nat /\ n \in Nat /\ Len(key) = m + n + 3
      BY <1>2
    <3> HIDE DEF m, n
    <3> QED  BY <3>1
  <2>2. \A k \in 0..Len(key) : f[k] \in Int
    <3> HIDE DEF f
    <3> QED  BY <1>6, <1>7, <2>1
  <2>3. f = [k \in 0..Len(key) |-> f[k]]
    OBVIOUS
  <2> HIDE DEF f
  <2> QED  BY <2>2, <2>3
<1> HIDE DEF f
<1>9. ASSUME NEW k \in 1..Len(key) PROVE f[k] = f[k - 1] + Weight(key[k])
  <2>1. CASE k = 1
    <3>1. 1 \in 1..(m + 1) /\ k - 1 = 0
      BY <1>2, <2>1
    <3>2. d[0] = 0 /\ Weight(key[1]) = 1
      BY <1>2, <1>3 DEF Nests, Weight
    <3>3. f[1] = 1 + d[0]
      BY <1>6, <3>1
    <3> QED  BY <1>6, <2>1, <3>1, <3>2, <3>3
  <2>2. CASE k \in 2..(m + 1)
    <3>1. /\ k - 1 \in 1..m /\ k \in 1..(m + 1) /\ k - 1 \in 1..(m + 1)
          /\ k - 1 + 1 = k /\ k - 1 - 1 \in 0..m /\ k - 1 \in 0..m
      BY <1>2, <2>2
    <3>2. key[k] = x[k - 1]
      BY <1>2, <3>1
    <3>3. d[k - 1] = d[k - 1 - 1] + Weight(x[k - 1])
      BY <1>3, <3>1 DEF Nests
    <3>4. f[k] = 1 + d[k - 1] /\ f[k - 1] = 1 + d[k - 1 - 1]
      BY <1>6, <3>1
    <3>5. d[k - 1] \in Int /\ d[k - 1 - 1] \in Int /\ Weight(x[k - 1]) \in Int
      BY <1>5, <3>1, WeightIs
    <3> QED  BY <3>2, <3>3, <3>4, <3>5
  <2>3. CASE k = m + 2
    <3>1. k - 1 \in 1..(m + 1) /\ k - 1 - 1 = m /\ k \in (m + 2)..(m + n + 2) /\ k - (m + 2) = 0
      BY <1>2, <2>3
    <3>2. f[k - 1] = 1 + d[m] /\ f[k] = 1 + e[0]
      BY <1>6, <3>1
    <3>3. e[0] = 0 /\ Weight(key[k]) = 0
      BY <1>2, <1>4, <2>3 DEF Nests, Weight, Parentheses
    <3> QED  BY <1>3, <3>2, <3>3
  <2>4. CASE k \in (m + 3)..(m + n + 2)
    <3> DEFINE j == k - (m + 2)
    <3>1. /\ j \in 1..n /\ m + 2 + j = k /\ k \in (m + 2)..(m + n + 2) /\ k - 1 \in (m + 2)..(m + n + 2)
          /\ k - 1 - (m + 2) = j - 1 /\ j \in 0..n /\ j - 1 \in 0..n
      <4>1. m \in Nat /\ n \in Nat
        BY <1>2
      <4> HIDE DEF m, n
      <4> QED  BY <2>4, <4>1
    <3>2. f[k] = 1 + e[j] /\ f[k - 1] = 1 + e[j - 1]
      BY <1>6, <3>1
    <3> HIDE DEF j
    <3>3. key[k] = y[j]
      BY <1>2, <3>1
    <3>4. e[j] = e[j - 1] + Weight(y[j])
      BY <1>4, <3>1 DEF Nests
    <3>5. e[j] \in Int /\ e[j - 1] \in Int /\ Weight(y[j]) \in Int
      BY <1>5, <3>1, WeightIs
    <3> QED  BY <3>2, <3>3, <3>4, <3>5
  <2>5. CASE k = m + n + 3
    <3>1. k - 1 \in (m + 2)..(m + n + 2) /\ k - 1 - (m + 2) = n
      <4>1. m \in Nat /\ n \in Nat
        BY <1>2
      <4> HIDE DEF m, n
      <4> QED  BY <2>5, <4>1
    <3>2. f[k - 1] = 1 + e[n] /\ f[k] = 0
      BY <1>6, <2>5, <3>1
    <3>3. Weight(key[k]) = -1
      BY <1>2, <2>5, ParenthesesAre DEF Weight
    <3> QED  BY <1>4, <3>2, <3>3
  <2>6. k = 1 \/ k \in 2..(m + 1) \/ k = m + 2 \/ k \in (m + 3)..(m + n + 2) \/ k = m + n + 3
    <3>1. m \in Nat /\ n \in Nat /\ k \in 1..(m + n + 3)
      BY <1>2
    <3> HIDE DEF m, n
    <3> QED  BY <3>1
  <2> QED  BY <2>1, <2>2, <2>3, <2>4, <2>5, <2>6
<1>10. Nests(key, f)
  BY <1>6, <1>8, <1>9 DEF Nests
<1>11. f[Len(key)] = 0 /\ Len(key) > 0 /\ Len(key) - 1 = m + n + 2
  BY <1>2, <1>6
<1>12. \A k \in 1..(Len(key) - 1) : f[k] >= 1
  BY <1>7, <1>11
<1>13. IsKey(key)
  BY <1>2, <1>10, <1>11, <1>12 DEF IsKey
<1> QED  BY <1>13 DEF key

LEMMA SpellUnique ==
  ASSUME NEW x, IsKey(x), NEW y, IsKey(y), NEW op \in Tokens,
         NEW u, IsKey(u), NEW v, IsKey(v), NEW other \in Tokens,
         Spell(x, op, y) = Spell(u, other, v)
  PROVE  x = u /\ op = other /\ y = v
<1> DEFINE key == Spell(x, op, y)
<1>1. /\ x \in Spellings /\ y \in Spellings /\ u \in Spellings /\ v \in Spellings
      /\ key = Spell(x, op, y) /\ key = Spell(u, other, v)
  BY DEF IsKey
<1> HIDE DEF key
<1>2. /\ Len(x) \in Nat /\ Len(y) \in Nat /\ Len(key) = Len(x) + Len(y) + 3 /\ key[Len(x) + 2] = op
      /\ \A k \in 1..Len(x) : key[k + 1] = x[k]
      /\ \A k \in 1..Len(y) : key[Len(x) + 2 + k] = y[k]
  <2>1. Spelt(key, x, op, y)
    BY <1>1, SpellAt
  <2> QED  BY <2>1 DEF Spelt
<1>3. /\ Len(u) \in Nat /\ Len(v) \in Nat /\ Len(key) = Len(u) + Len(v) + 3 /\ key[Len(u) + 2] = other
      /\ \A k \in 1..Len(u) : key[k + 1] = u[k]
      /\ \A k \in 1..Len(v) : key[Len(u) + 2 + k] = v[k]
  <2>1. Spelt(key, u, other, v)
    BY <1>1, SpellAt
  <2> QED  BY <2>1 DEF Spelt
<1>4. x = u
  <2>1. CASE Len(x) <= Len(u)
    <3>1. \A k \in 1..Len(x) : k \in 1..Len(u)
      BY <1>2, <1>3, <2>1
    <3>2. \A k \in 1..Len(x) : x[k] = u[k]
      BY <1>2, <1>3, <3>1
    <3> QED  BY <2>1, <3>2, KeysEnd
  <2>2. CASE Len(u) <= Len(x)
    <3>1. \A k \in 1..Len(u) : k \in 1..Len(x)
      BY <1>2, <1>3, <2>2
    <3>2. \A k \in 1..Len(u) : u[k] = x[k]
      BY <1>2, <1>3, <3>1
    <3> QED  BY <2>2, <3>2, KeysEnd
  <2> QED  BY <1>2, <1>3, <2>1, <2>2
<1>5. Len(y) = Len(v)
  BY <1>2, <1>3, <1>4
<1>6. \A k \in 1..Len(y) : y[k] = v[k]
  BY <1>2, <1>3, <1>4, <1>5
<1>7. y = v
  BY <1>1, <1>5, <1>6, SeqEqual DEF Spellings
<1> QED  BY <1>2, <1>3, <1>4, <1>7

Singles == {<<x>> : x \in Patterns}

\* LociOf, of given lists.
ListOf(loc, new, key) == IF key \in Singles THEN loc[key[1]] ELSE new[key]

Made(loc, new, key, x, op, y) ==
  /\ IsKey(x) /\ IsKey(y) /\ op \in Tokens /\ op \notin Parentheses
  /\ x \in Singles \cup DOMAIN new /\ y \in Singles \cup DOMAIN new
  /\ key = Spell(x, op, y)
  /\ new[key] = Apply(op, ListOf(loc, new, x), ListOf(loc, new, y))

\* Each list is what its key says.
Keyed(loc, new) == \A key \in DOMAIN new : \E x, op, y : Made(loc, new, key, x, op, y)

\* What adding the list of a key to new makes.
Added(loc, new, key, x, op, y) ==
  [z \in DOMAIN new \cup {key} |->
     IF z = key THEN Apply(op, ListOf(loc, new, x), ListOf(loc, new, y)) ELSE new[z]]

\* No list of a key in use is lost or changed.
LEMMA ListsStay ==
  ASSUME NEW loc, NEW new, Keyed(loc, new),
         NEW x, IsKey(x), NEW y, IsKey(y), NEW op \in Tokens, op \notin Parentheses,
         x \in Singles \cup DOMAIN new, y \in Singles \cup DOMAIN new,
         NEW key, key = Spell(x, op, y), NEW next, next = Added(loc, new, key, x, op, y)
  PROVE  /\ \A z \in Singles \cup DOMAIN new : ListOf(loc, next, z) = ListOf(loc, new, z)
         /\ ListOf(loc, next, key) = Apply(op, ListOf(loc, new, x), ListOf(loc, new, y))
         /\ Keyed(loc, next)
         /\ IsKey(key) /\ key \notin Singles /\ DOMAIN next = DOMAIN new \cup {key}
<1> DEFINE value == Apply(op, ListOf(loc, new, x), ListOf(loc, new, y))
<1>1. IsKey(key)
  BY SpellIsKey
<1>2. key \notin Singles
  <2>1. Spelt(key, x, op, y)
    BY SpellAt DEF IsKey
  <2>2. Len(key) > 1
    <3>1. Len(x) \in Nat /\ Len(y) \in Nat /\ Len(key) = Len(x) + Len(y) + 3
      BY <2>1 DEF Spelt
    <3> QED  BY <3>1
  <2>3. \A z \in Singles : Len(z) = 1
    BY DEF Singles
  <2>4. key \in Singles => Len(key) = 1
    BY <2>3
  <2>5. ~(1 > 1)
    OBVIOUS
  <2> HIDE DEF value
  <2> QED  BY ONLY <2>2, <2>4, <2>5
<1>3. /\ DOMAIN next = DOMAIN new \cup {key} /\ next[key] = value
      /\ \A z \in DOMAIN new : z # key => next[z] = new[z]
  BY DEF Added
<1>4. key \in DOMAIN new => new[key] = value
  <2> SUFFICES ASSUME key \in DOMAIN new PROVE new[key] = value
    OBVIOUS
  <2>1. PICK u, other, v : Made(loc, new, key, u, other, v)
    BY DEF Keyed
  <2>2. u = x /\ other = op /\ v = y
    <3>1. /\ IsKey(u) /\ IsKey(v) /\ other \in Tokens /\ Spell(u, other, v) = Spell(x, op, y)
      BY <2>1 DEF Made
    <3> QED  BY <3>1, SpellUnique
  <2> QED  BY <2>1, <2>2 DEF Made
<1>5. \A z \in DOMAIN new : next[z] = new[z]
  BY <1>3, <1>4
<1>6. \A z \in Singles \cup DOMAIN new : ListOf(loc, next, z) = ListOf(loc, new, z)
  BY <1>5 DEF ListOf
<1>7. ListOf(loc, next, key) = value
  BY <1>2, <1>3 DEF ListOf
<1>8. ASSUME NEW z \in DOMAIN next PROVE \E u, other, v : Made(loc, next, z, u, other, v)
  <2>1. CASE z = key
    <3>1. Made(loc, next, key, x, op, y)
      <4>1. x \in Singles \cup DOMAIN next /\ y \in Singles \cup DOMAIN next
        BY <1>3
      <4>2. next[key] = Apply(op, ListOf(loc, next, x), ListOf(loc, next, y))
        BY <1>3, <1>6
      <4> QED  BY <4>1, <4>2 DEF Made
    <3> QED  BY <2>1, <3>1
  <2>2. CASE z # key
    <3>1. z \in DOMAIN new
      BY <1>3, <2>2
    <3>2. PICK u, other, v : Made(loc, new, z, u, other, v)
      BY <3>1 DEF Keyed
    <3>3. Made(loc, next, z, u, other, v)
      <4>1. u \in Singles \cup DOMAIN new /\ v \in Singles \cup DOMAIN new
        BY <3>2 DEF Made
      <4>2. ListOf(loc, next, u) = ListOf(loc, new, u) /\ ListOf(loc, next, v) = ListOf(loc, new, v)
        BY <1>6, <4>1
      <4>3. next[z] = new[z] /\ u \in Singles \cup DOMAIN next /\ v \in Singles \cup DOMAIN next
        BY <1>3, <1>5, <3>1, <4>1
      <4> QED  BY <3>2, <4>2, <4>3 DEF Made
    <3> QED  BY <3>3
  <2> QED  BY <2>1, <2>2
<1>9. Keyed(loc, next)
  BY <1>8 DEF Keyed
<1> QED  BY <1>1, <1>2, <1>3, <1>6, <1>7, <1>9

\* The lists of the operands.
Values(loc, new, stack) == [j \in 1..Len(stack) |-> ListOf(loc, new, stack[j])]

LEMMA ValuesPush ==
  ASSUME NEW loc, NEW new, NEW stack \in Seq(Spellings), NEW t \in Tokens, t \in Patterns
  PROVE  Values(loc, new, Append(stack, <<t>>)) = Evaluated(loc, Values(loc, new, stack), t)
<1> DEFINE key == <<t>>
           n == Len(stack)
           V == Values(loc, new, stack)
           T == {ListOf(loc, new, z) : z \in Spellings \cup {key}} \cup {loc[t]}
           p == Append(stack, key)
           W == Append(V, loc[t])
<1>1. n \in Nat /\ \A j \in 1..n : stack[j] \in Spellings
  BY LenProperties, ElementOfSeq
<1>2. key \in Spellings /\ ListOf(loc, new, key) = loc[t]
  <2>1. key \in Spellings
    BY DEF Spellings
  <2>2. key \in Singles /\ key[1] = t
    BY DEF Singles
  <2> QED  BY <2>1, <2>2 DEF ListOf
<1>3. V = [j \in 1..n |-> ListOf(loc, new, stack[j])]
  BY DEF Values
<1>4. V \in Seq(T) /\ Len(V) = n
  <2>1. \A j \in 1..n : ListOf(loc, new, stack[j]) \in T
    BY <1>1
  <2> HIDE DEF T, n
  <2> QED  BY <1>1, <1>3, <2>1
<1> HIDE DEF key, V
<1>5. Len(p) = n + 1 /\ p[n + 1] = key /\ \A j \in 1..n : p[j] = stack[j]
  BY <1>2, AppendProperties
<1>6. loc[t] \in T
  OBVIOUS
<1> HIDE DEF T
<1>7. /\ W \in Seq(T) /\ Len(W) = n + 1 /\ W[n + 1] = loc[t]
      /\ \A j \in 1..n : W[j] = V[j]
  BY <1>4, <1>6, AppendProperties
<1>8. Values(loc, new, p) = [j \in 1..(n + 1) |-> ListOf(loc, new, p[j])]
  BY <1>5 DEF Values
<1>9. W = [j \in 1..(n + 1) |-> W[j]]
  BY <1>7
<1> HIDE DEF p, W
<1>10. ASSUME NEW j \in 1..(n + 1) PROVE ListOf(loc, new, p[j]) = W[j]
  <2>1. CASE j = n + 1
    BY <1>2, <1>5, <1>7, <2>1
  <2>2. CASE j # n + 1
    <3>1. j \in 1..n
      BY <1>1, <2>2
    <3>2. V[j] = ListOf(loc, new, stack[j])
      BY <1>3, <3>1
    <3> QED  BY <1>5, <1>7, <3>1, <3>2
  <2> QED  BY <2>1, <2>2
<1>11. Values(loc, new, p) = W
  BY <1>8, <1>9, <1>10
<1> QED  BY <1>11 DEF Evaluated, p, W, V, key

LEMMA ValuesApply ==
  ASSUME NEW loc, NEW new, NEW next, NEW stack \in Seq(Spellings), NEW t, t \notin Patterns,
         Len(stack) >= 2, NEW key \in Spellings,
         \A j \in 1..Len(stack) : ListOf(loc, next, stack[j]) = ListOf(loc, new, stack[j]),
         ListOf(loc, next, key)
           = Apply(t, ListOf(loc, new, stack[Len(stack) - 1]), ListOf(loc, new, stack[Len(stack)]))
  PROVE  Values(loc, next, Append(SubSeq(stack, 1, Len(stack) - 2), key))
           = Evaluated(loc, Values(loc, new, stack), t)
<1> DEFINE n == Len(stack)
           V == Values(loc, new, stack)
           T == {ListOf(loc, new, z) : z \in Spellings}
           v == Apply(t, V[n - 1], V[n])
           q == SubSeq(stack, 1, n - 2)
           p == Append(q, key)
           U == SubSeq(V, 1, n - 2)
           W == Append(U, v)
<1>1. n \in Nat /\ n - 2 \in 0..n /\ n - 1 \in 1..n /\ n \in 1..n
  <2>1. n \in Nat /\ n >= 2
    BY LenProperties
  <2> HIDE DEF n
  <2> QED  BY <2>1
<1>2. \A j \in 1..n : stack[j] \in Spellings
  BY ElementOfSeq
<1>3. V = [j \in 1..n |-> ListOf(loc, new, stack[j])]
  BY DEF Values
<1>4. V \in Seq(T) /\ Len(V) = n
  <2>1. \A j \in 1..n : ListOf(loc, new, stack[j]) \in T
    BY <1>2
  <2> HIDE DEF T, n
  <2> QED  BY <1>1, <1>3, <2>1
<1>5. q \in Seq(Spellings) /\ Len(q) = n - 2 /\ \A j \in 1..(n - 2) : q[j] = stack[j]
  BY <1>1, PrefixIs
<1>6. Evaluated(loc, V, t) = W
  <2>1. Evaluated(loc, V, t) = Append(SubSeq(V, 1, Len(V) - 2), Apply(t, V[Len(V) - 1], V[Len(V)]))
    BY DEF Evaluated
  <2> QED  BY <1>4, <2>1
<1> HIDE DEF T, V
<1>7. U \in Seq(T) /\ Len(U) = n - 2 /\ \A j \in 1..(n - 2) : U[j] = V[j]
  <2>1. n - 2 \in 0..Len(V)
    BY <1>1, <1>4
  <2> QED  BY <1>4, <2>1, PrefixIs
<1>8. ListOf(loc, next, key) = v
  <2>1. V[n - 1] = ListOf(loc, new, stack[n - 1]) /\ V[n] = ListOf(loc, new, stack[n])
    BY <1>1, <1>3
  <2> QED  BY <2>1
<1> HIDE DEF q, U, v
<1>9. /\ Len(p) = Len(q) + 1 /\ p[Len(q) + 1] = key /\ \A j \in 1..Len(q) : p[j] = q[j]
  BY <1>5, AppendProperties
<1>10. U \in Seq(T \cup {v}) /\ v \in T \cup {v}
  BY <1>7
<1>11. /\ W \in Seq(T \cup {v}) /\ Len(W) = Len(U) + 1 /\ W[Len(U) + 1] = v
       /\ \A j \in 1..Len(U) : W[j] = U[j]
  BY <1>10, AppendProperties
<1> HIDE DEF p, W
<1>12. n - 2 + 1 = n - 1
  BY <1>1
<1>13. Values(loc, next, p) = [j \in 1..(n - 1) |-> ListOf(loc, next, p[j])]
  BY <1>5, <1>9, <1>12 DEF Values
<1>14. W = [j \in 1..(n - 1) |-> W[j]]
  BY <1>7, <1>11, <1>12
<1>15. ASSUME NEW j \in 1..(n - 1) PROVE ListOf(loc, next, p[j]) = W[j]
  <2>1. CASE j = n - 1
    BY <1>5, <1>7, <1>8, <1>9, <1>11, <1>12, <2>1
  <2>2. CASE j # n - 1
    <3>1. j \in 1..(n - 2) /\ j \in 1..n
      BY <1>1, <2>2
    <3>2. V[j] = ListOf(loc, next, stack[j])
      BY <1>3, <3>1
    <3>3. p[j] = stack[j] /\ W[j] = V[j]
      BY <1>5, <1>7, <1>9, <1>11, <3>1
    <3> QED  BY <3>2, <3>3
  <2> QED  BY <2>1, <2>2
<1>16. Values(loc, next, p) = W
  BY <1>13, <1>14, <1>15
<1> QED  BY <1>6, <1>16 DEF p, q, V
------------------------------------------------------------------------------
(* The invariant of an expression of the grammar. *)

KeyInv ==
  /\ \A k \in 1..Len(operands) : IsKey(operands[k])
  /\ Keyed(locations, newLocations)

\* The queue evaluates to the operands read, and at last to the meaning.
Reading ==
  /\ phase \notin {"syntax_error", "undefined", "invalid_argument"}
  /\ phase = "convert" =>
       \E P, C, V : Parsed(ops, idx, P, C, V) /\ Runs(locations, rpn, <<>>, V)
  /\ phase \in {"evaluate", "done"} =>
       Runs(locations, rpn, Values(locations, newLocations, operands), <<Meaning[Whole]>>)
  /\ phase = "done" => rpn = <<>>

MeaningInv == EvalInv /\ MatchInv /\ (IsExpression => KeyInv /\ Reading)

LEMMA ExpressionIs ==
  ASSUME tokens \in Seq(Tokens), IsExpression
  PROVE  Neighbours /\ tokens # <<>> /\ TokensBalanced /\ Whole \in Intervals
<1>1. tokens # <<>> /\ TokensBalanced /\ WellFormed[<<1, Len(tokens)>>]
  BY DEF IsExpression
<1>2. Len(tokens) \in Nat \ {0}
  BY <1>1, EmptySeq
<1> DEFINE i == <<1, Len(tokens)>>
<1>3. i \in Intervals /\ i[1] = 1 /\ i[2] = Len(tokens)
  BY <1>2 DEF Intervals
<1> HIDE DEF i
<1>4. Adjacent(i[1], i[2])
  BY <1>1, <1>3, FormedIsAdjacent DEF i
<1> QED  BY <1>1, <1>3, <1>4 DEF Neighbours, Whole, IsExpression, i

LEMMA SameGrammar ==
  ASSUME tokens' = tokens, locations' = locations
  PROVE  /\ Meaning' = Meaning /\ Exprs' = Exprs /\ Terms' = Terms /\ Whole' = Whole
         /\ UNCHANGED <<raw_expression, cursor>> => (IsExpression' <=> IsExpression)
<1>1. Meaning' = Meaning
  BY DEF TokenDepth, Cuts, Meaning, Intervals
<1>2. Exprs' = Exprs
  BY DEF Exprs, Intervals, TokenDepth, Ends
<1>3. Terms' = Terms
  <2>1. \A i : Cuts(i[1], i[2])' = Cuts(i[1], i[2])
    BY DEF Cuts, TokenDepth, IsOperator, Parentheses
  <2> QED  BY <1>2, <2>1 DEF Terms
<1>4. WellFormed' = WellFormed
  BY DEF TokenDepth, Cuts, WellFormed, Intervals
<1>5. UNCHANGED <<raw_expression, cursor>> => (IsExpression' <=> IsExpression)
  BY <1>4, DepthSame DEF IsExpression, IsOperator
<1>6. Whole' = Whole
  BY DEF Whole
<1> QED  BY <1>1, <1>2, <1>3, <1>5, <1>6

LEMMA StillParsed ==
  ASSUME tokens' = tokens, locations' = locations, NEW P, NEW C, NEW V,
         Parsed(ops', idx', P, C, V)
  PROVE  Parsed(ops, idx, P, C, V)'
<1>1. Meaning' = Meaning /\ Exprs' = Exprs /\ Terms' = Terms
  BY SameGrammar
<1>2. Below(ops, P, C, V)'
  BY <1>1 DEF Parsed, Below, Placed, IsOperator, Parentheses
<1>3. Fresh(ops', idx', P, C, V) => Fresh(ops, idx, P, C, V)'
  BY DEF Fresh
<1>4. Filled(ops', idx', P, C, V) => Filled(ops, idx, P, C, V)'
  BY <1>1 DEF Filled
<1> QED  BY <1>2, <1>3, <1>4 DEF Parsed

------------------------------------------------------------------------------
(* Conversion of an expression of the grammar, step by step. *)

LEMMA StillReading ==
  ASSUME phase' = "convert", tokens' = tokens, locations' = locations, NEW P, NEW C, NEW V,
         Parsed(ops', idx', P, C, V), Runs(locations, rpn', <<>>, V)
  PROVE  Reading'
<1>1. Parsed(ops, idx, P, C, V)'
  BY StillParsed
<1>2. Runs(locations', rpn', <<>>, V)
  OBVIOUS
<1> QED  BY <1>1, <1>2 DEF Reading

LEMMA NothingRead ==
  ASSUME EvalInv, phase = "split", phase' = "convert", UNCHANGED <<tokens, locations, ops, idx, rpn>>
  PROVE  Reading'
<1>2. tokens \in Seq(Tokens) /\ idx = 1 /\ ops = <<>> /\ rpn = <<>>
  BY DEF EvalInv, EvalTypes, Yard
<1> DEFINE z == [n \in Nat |-> 0]
<1>5. z \in [Nat -> Nat] /\ z[0] = 0 /\ <<>> \in Seq(Lists) /\ Len(<<>>) = 0
  OBVIOUS
<1> HIDE DEF z
<1>6. Below(<<>>, z, z, <<>>)
  <2>1. \A j \in 0..0 : \A m \in j..0 : z[j] <= z[m]
    <3>1. \A j \in 0..0 : \A m \in j..0 : j = 0 /\ m = 0
      OBVIOUS
    <3> QED  BY <1>5, <3>1
  <2> QED  BY <1>5, <2>1 DEF Below
<1>7. Fresh(<<>>, 1, z, z, <<>>)
  BY <1>5 DEF Fresh
<1>8. Parsed(ops', idx', z, z, <<>>)
  BY <1>2, <1>6, <1>7 DEF Parsed
<1>9. Runs(locations, rpn', <<>>, <<>>)
  BY <1>2, NothingRuns
<1> QED  BY <1>8, <1>9, StillReading

\* A text that has not been split completely, or that has no tokens, is no
\* expression; one that has been is, if at all, from its first token on.
LEMMA TokenizeReads ==
  ASSUME EvalInv, MatchInv, Tokenize, IsExpression'
  PROVE  KeyInv' /\ Reading'
<1>1. TokenNext /\ UNCHANGED <<locations, idx, ops, rpn, operands, newLocations>>
  BY DEF Tokenize, yard, machine
<1>2. phase \in {"check", "split"}
  BY <1>1 DEF TokenNext, NoBrace, PassSymbol, OpenBracket, CloseBracket, MismatchedBracket, EndCheck, SkipBlank,
              SplitPattern, SplitParenthesis, SplitOperator, RunPastEnd, EndSplit, Scanning, Splitting
<1>3. operands = <<>> /\ newLocations = <<>>
  BY <1>2 DEF EvalInv, Known
<1>4. KeyInv'
  <2>1. operands' = <<>> /\ newLocations' = <<>>
    BY <1>1, <1>3
  <2>2. 1..Len(operands') = {} /\ DOMAIN newLocations' = {}
    BY <2>1
  <2> QED  BY <2>2 DEF KeyInv, Keyed
<1>5. tokens' # <<>> /\ cursor' > Len(raw_expression')
  BY DEF IsExpression
<1>6. CASE phase = "check"
  <2>1. tokens = <<>>
    BY <1>6 DEF MatchInv
  <2>2. tokens' = tokens
    BY <1>1, <1>6 DEF TokenNext, NoBrace, PassSymbol, OpenBracket, CloseBracket, MismatchedBracket, EndCheck,
                      SkipBlank, SplitPattern, SplitParenthesis, SplitOperator, RunPastEnd, EndSplit, Scanning,
                      Splitting
  <2>3. tokens' = <<>>
    BY <2>1, <2>2
  <2>4. FALSE
    BY <1>5, <2>3
  <2> QED  BY <2>4
<1>7. CASE phase = "split"
  <2>1. CASE EndSplit
    <3>1. Reading'
      BY <1>1, <1>7, <2>1, NothingRead DEF EndSplit
    <3> QED  BY <1>4, <3>1
  <2>2. CASE ~EndSplit
    <3>1. phase' = "split" \/ (phase' = "undefined" /\ UNCHANGED <<raw_expression, cursor>>
                                 /\ cursor <= Len(raw_expression))
      BY <1>1, <1>7, <2>2 DEF TokenNext, NoBrace, PassSymbol, OpenBracket, CloseBracket, MismatchedBracket, EndCheck,
                      SkipBlank, SplitPattern, SplitParenthesis, SplitOperator, RunPastEnd, Scanning, Splitting
    <3>2. cursor \in Nat /\ Len(raw_expression) \in Nat
      BY ExpressionTextsAssumption DEF EvalInv, TextTypes
    <3>3. phase' = "split"
      BY <1>5, <3>1, <3>2
    <3>4. Reading'
      BY <3>3 DEF Reading
    <3> QED  BY <1>4, <3>4
  <2> QED  BY <2>1, <2>2
<1> QED  BY <1>2, <1>4, <1>6, <1>7

LEMMA PatternRead == ASSUME EvalInv, IsExpression, Reading, PushPattern PROVE Reading'
<1>1. /\ rpn \in Seq(Tokens) /\ tokens \in Seq(Tokens) /\ ops \in Seq(Tokens) /\ Len(tokens) \in Nat
      /\ phase = "convert" /\ idx \in 1..Len(tokens) /\ token = tokens[idx] /\ token \in Tokens
      /\ token \in Patterns /\ rpn' = Append(rpn, token) /\ idx' = idx + 1
      /\ UNCHANGED <<ops, phase, tokens, locations>>
  BY DEF EvalInv, EvalTypes, query, token, PushPattern, Convert
<1> DEFINE t == tokens[idx]
           v == locations[t]
<1>2. PICK P, C, V : Parsed(ops, idx, P, C, V) /\ Runs(locations, rpn, <<>>, V)
  BY <1>1 DEF Reading
<1>3. Neighbours /\ tokens # <<>>
  BY <1>1, ExpressionIs
<1>4. idx \in Nat /\ idx \in 1..(Len(tokens) + 1)
  BY <1>1
<1>5. Fresh(ops, idx, P, C, V) /\ Below(ops, P, C, V)
  <2>1. Opens(tokens[idx])
    BY <1>1, Sorts
  <2>2. IF idx <= Len(tokens) /\ Opens(tokens[idx]) THEN Fresh(ops, idx, P, C, V)
                                                    ELSE Filled(ops, idx, P, C, V)
    BY <1>1, <1>2, <1>3, <1>4, WhatIsRead
  <2> QED  BY <1>1, <1>2, <2>1, <2>2 DEF Parsed
<1>6. <<idx, idx>> \in Terms /\ Meaning[<<idx, idx>>] = v
  BY <1>1, PatternIsTerm
<1>7. v \in Lists
  BY <1>1 DEF EvalInv, EvalTypes, IsList, Lists
<1> HIDE DEF v, t
<1>8. Parsed(ops, idx + 1, P, C, Append(V, v))
  BY <1>1, <1>4, <1>5, <1>6, <1>7, TermRead
<1>9. Runs(locations, rpn', <<>>, Append(V, v))
  <2>1. Able(V, t) /\ Evaluated(locations, V, t) = Append(V, v) /\ t \in Tokens /\ rpn' = Append(rpn, t)
    BY <1>1 DEF Able, Evaluated, v, t
  <2>2. Runs(locations, Append(rpn, t), <<>>, Evaluated(locations, V, t))
    BY <1>1, <1>2, <2>1, RunsLonger
  <2> QED  BY <2>1, <2>2
<1> QED  BY <1>1, <1>8, <1>9, StillReading

LEMMA TopRead ==
  ASSUME EvalInv, IsExpression, Reading, phase = "convert", ops # <<>>, Last(ops) # LeftParen,
         idx <= Len(tokens), ~Opens(tokens[idx]),
         rpn' = Append(rpn, Last(ops)), ops' = Front(ops), UNCHANGED <<idx, phase, query>>
  PROVE  Reading'
<1>1. /\ rpn \in Seq(Tokens) /\ tokens \in Seq(Tokens) /\ ops \in Seq(Tokens) /\ Len(tokens) \in Nat
      /\ idx \in 1..(Len(tokens) + 1) /\ UNCHANGED <<tokens, locations>>
  BY DEF EvalInv, EvalTypes, query
<1>2. PICK P, C, V : Parsed(ops, idx, P, C, V) /\ Runs(locations, rpn, <<>>, V)
  BY DEF Reading
<1>3. Neighbours /\ tokens # <<>>
  BY <1>1, ExpressionIs
<1>4. Filled(ops, idx, P, C, V) /\ Below(ops, P, C, V)
  <2>1. IF idx <= Len(tokens) /\ Opens(tokens[idx]) THEN Fresh(ops, idx, P, C, V)
                                                    ELSE Filled(ops, idx, P, C, V)
    BY <1>1, <1>2, <1>3, WhatIsRead
  <2> QED  BY <1>2, <2>1 DEF Parsed
<1> DEFINE t == Last(ops)
           W == Evaluated(locations, V, t)
<1>5. Able(V, t) /\ Below(Front(ops), P, C, W) /\ Filled(Front(ops), idx, P, C, W)
  <2>1. idx \in Nat \ {0}
    BY <1>1
  <2> QED  BY <1>1, <1>3, <1>4, <2>1, OperatorTakes
<1>6. t \in Tokens
  BY <1>1, TopOf
<1> HIDE DEF t
<1>7. Runs(locations, Append(rpn, t), <<>>, W)
  BY <1>1, <1>2, <1>5, <1>6, RunsLonger
<1> HIDE DEF W
<1>8. Parsed(ops', idx', P, C, W)
  BY <1>5 DEF Parsed
<1> QED  BY <1>1, <1>7, <1>8, StillReading DEF t

LEMMA TokenRead ==
  ASSUME EvalInv, IsExpression, Reading, phase = "convert", idx <= Len(tokens),
         tokens[idx] = LeftParen \/ (IsOperator(tokens[idx]) /\ (ops = <<>> \/ Last(ops) = LeftParen)),
         ops' = Append(ops, tokens[idx]), idx' = idx + 1, UNCHANGED <<rpn, phase, query>>
  PROVE  Reading'
<1>1. /\ rpn \in Seq(Tokens) /\ tokens \in Seq(Tokens) /\ ops \in Seq(Tokens) /\ Len(tokens) \in Nat
      /\ idx \in 1..(Len(tokens) + 1) /\ idx \in 1..Len(tokens) /\ UNCHANGED <<tokens, locations>>
  BY DEF EvalInv, EvalTypes, query
<1>2. PICK P, C, V : Parsed(ops, idx, P, C, V) /\ Runs(locations, rpn, <<>>, V)
  BY DEF Reading
<1>3. Neighbours /\ tokens # <<>>
  BY <1>1, ExpressionIs
<1>4. IF idx <= Len(tokens) /\ Opens(tokens[idx]) THEN Fresh(ops, idx, P, C, V)
                                                  ELSE Filled(ops, idx, P, C, V)
  BY <1>1, <1>2, <1>3, WhatIsRead
<1>5. \/ tokens[idx] = LeftParen /\ Fresh(ops, idx, P, C, V)
      \/ /\ IsOperator(tokens[idx]) /\ Filled(ops, idx, P, C, V)
         /\ ops = <<>> \/ Last(ops) = LeftParen
  BY <1>4, Sorts
<1>6. Below(ops, P, C, V)
  BY <1>2 DEF Parsed
<1>7. PICK R, d : /\ Below(Append(ops, tokens[idx]), R, d, V)
                  /\ Fresh(Append(ops, tokens[idx]), idx + 1, R, d, V)
  BY <1>1, <1>5, <1>6, BelowMore
<1>8. Parsed(ops', idx', R, d, V)
  BY <1>7 DEF Parsed
<1> QED  BY <1>1, <1>2, <1>8, StillReading

LEMMA EnclosedRead ==
  ASSUME EvalInv, IsExpression, Reading, phase = "convert", idx <= Len(tokens), tokens[idx] = RightParen,
         ops # <<>>, Last(ops) = LeftParen,
         ops' = Front(ops), idx' = idx + 1, UNCHANGED <<rpn, phase, query>>
  PROVE  Reading'
<1>1. /\ rpn \in Seq(Tokens) /\ tokens \in Seq(Tokens) /\ ops \in Seq(Tokens) /\ Len(tokens) \in Nat
      /\ idx \in 1..(Len(tokens) + 1) /\ idx \in 1..Len(tokens) /\ UNCHANGED <<tokens, locations>>
  BY DEF EvalInv, EvalTypes, query
<1>2. PICK P, C, V : Parsed(ops, idx, P, C, V) /\ Runs(locations, rpn, <<>>, V)
  BY DEF Reading
<1>3. Neighbours /\ tokens # <<>>
  BY <1>1, ExpressionIs
<1>4. IF idx <= Len(tokens) /\ Opens(tokens[idx]) THEN Fresh(ops, idx, P, C, V)
                                                  ELSE Filled(ops, idx, P, C, V)
  BY <1>1, <1>2, <1>3, WhatIsRead
<1>5. Filled(ops, idx, P, C, V) /\ Below(ops, P, C, V)
  BY <1>2, <1>4, Sorts DEF Parsed
<1>6. Parsed(Front(ops), idx + 1, P, C, V)
  BY <1>1, <1>5, TermEnclosed
<1> QED  BY <1>1, <1>2, <1>6, StillReading

\* All has been read: one list is left, that of the whole.
LEMMA OneListLeft ==
  ASSUME tokens \in Seq(Tokens), NEW P, NEW C, NEW V,
         Below(<<>>, P, C, V), Filled(<<>>, Len(tokens) + 1, P, C, V)
  PROVE  V = <<Meaning[Whole]>>
<1>1. V \in Seq(Lists) /\ P[0] = 0 /\ C[0] = 0 /\ Len(<<>>) = 0 /\ Len(tokens) \in Nat
  BY DEF Below
<1>2. Len(V) = 0 + 1 /\ V[0 + 1] = Meaning[<<0 + 1, Len(tokens) + 1 - 1>>]
  BY <1>1 DEF Filled
<1>3. Len(tokens) + 1 - 1 = Len(tokens) /\ 0 + 1 = 1
  BY <1>1
<1>4. Len(V) = 1 /\ V[1] = Meaning[Whole]
  BY <1>2, <1>3 DEF Whole
<1> QED  BY <1>1, <1>4

LEMMA AllRead ==
  ASSUME EvalInv, IsExpression, Reading, Drain
  PROVE  Reading'
<1>1. /\ ops \in Seq(Tokens) /\ rpn \in Seq(Tokens) /\ tokens \in Seq(Tokens) /\ Len(tokens) \in Nat
      /\ phase = "convert" /\ phase' = "evaluate" /\ idx = Len(tokens) + 1 /\ rpn' = rpn \o Reverse(ops)
      /\ UNCHANGED <<idx, operands, newLocations, tokens, locations>>
  BY DEF EvalInv, EvalTypes, machine, query, Drain
<1>2. PICK P, C, V : Parsed(ops, idx, P, C, V) /\ Runs(locations, rpn, <<>>, V)
  BY <1>1 DEF Reading
<1>3. Neighbours /\ tokens # <<>>
  BY <1>1, ExpressionIs
<1>4. Filled(ops, idx, P, C, V) /\ Below(ops, P, C, V)
  <2>1. IF idx <= Len(tokens) /\ Opens(tokens[idx]) THEN Fresh(ops, idx, P, C, V)
                                                    ELSE Filled(ops, idx, P, C, V)
    <3>1. idx \in 1..(Len(tokens) + 1)
      BY <1>1
    <3> QED  BY <1>1, <1>2, <1>3, <3>1, WhatIsRead
  <2>2. ~(idx <= Len(tokens))
    BY <1>1
  <2> QED  BY <1>2, <2>1, <2>2 DEF Parsed
<1>5. \A k \in 1..Len(ops) : ops[k] # LeftParen
  <2>1. idx - 1 = Len(tokens)
    BY <1>1
  <2>2. Opened(ops) = 0
    BY <1>1, <2>1 DEF EvalInv, Yard, IsExpression, TokensBalanced
  <2> QED  BY <1>1, <2>2, OpenedIs
<1>6. Len(ops) \in {0, 1}
  <2>1. Len(ops) \in Nat
    BY <1>1, LenProperties
  <2>2. ~(Len(ops) > 1)
    <3> SUFFICES ASSUME Len(ops) > 1 PROVE FALSE
      OBVIOUS
    <3>1. Len(ops) \in 1..Len(ops) /\ Len(ops) - 1 \in 1..Len(ops)
      BY <2>1
    <3>2. Placed(ops, Len(ops), P, C, V)
      BY <1>4, <3>1 DEF Below
    <3> QED  BY <1>5, <3>1, <3>2 DEF Placed
  <2>3. \A n \in Nat : ~(n > 1) => n = 0 \/ n = 1
    OBVIOUS
  <2>4. Len(ops) = 0 \/ Len(ops) = 1
    BY <2>1, <2>2, <2>3
  <2> QED  BY <2>4
<1>7. Runs(locations, rpn', <<>>, <<Meaning[Whole]>>)
  <2>1. CASE Len(ops) = 0
    <3>1. ops = <<>>
      BY <1>1, <2>1, EmptySeq
    <3>2. rpn' = rpn
      <4>1. Reverse(ops) = <<>>
        BY <3>1 DEF Reverse
      <4>2. rpn \o <<>> = rpn
        BY <1>1, ConcatEmptySeq
      <4> QED  BY <1>1, <4>1, <4>2
    <3>3. V = <<Meaning[Whole]>>
      BY <1>1, <1>4, <3>1, OneListLeft
    <3> QED  BY <1>2, <3>2, <3>3
  <2>2. CASE Len(ops) = 1
    <3> DEFINE t == Last(ops)
               W == Evaluated(locations, V, t)
    <3>1. /\ ops # <<>> /\ t = ops[1] /\ t \in Tokens /\ Front(ops) \in Seq(Tokens) /\ Len(Front(ops)) = 0
      <4>1. ops # <<>>
        BY <2>2
      <4>2. /\ Front(ops) \in Seq(Tokens) /\ Last(ops) \in Tokens
            /\ Len(Front(ops)) = Len(ops) - 1 /\ Last(ops) = ops[Len(ops)]
        BY <1>1, <4>1, TopOf
      <4>3. Len(Front(ops)) = 0
        BY <2>2, <4>2
      <4>4. Last(ops) = ops[1]
        BY <2>2, <4>2
      <4> QED  BY <4>1, <4>2, <4>3, <4>4
    <3>2. t # LeftParen
      BY <1>5, <2>2, <3>1
    <3>3. Front(ops) = <<>>
      BY <3>1, EmptySeq
    <3>4. Able(V, t) /\ Below(Front(ops), P, C, W) /\ Filled(Front(ops), idx, P, C, W)
      <4>1. idx \in Nat \ {0}
        BY <1>1
      <4> QED  BY <1>1, <1>3, <1>4, <3>1, <3>2, <4>1, OperatorTakes
    <3> HIDE DEF t
    <3>5. Runs(locations, Append(rpn, t), <<>>, W)
      BY <1>1, <1>2, <3>1, <3>4, RunsLonger
    <3> HIDE DEF W
    <3>6. W = <<Meaning[Whole]>>
      BY <1>1, <3>3, <3>4, OneListLeft
    <3>7. rpn' = Append(rpn, t)
      <4>1. Reverse(ops) = [k \in 1..1 |-> ops[(1 - k) + 1]]
        BY <2>2 DEF Reverse
      <4>2. Reverse(ops) = <<t>>
        <5>1. \A k \in 1..1 : ops[(1 - k) + 1] = t
          BY <3>1
        <5> QED  BY <4>1, <5>1
      <4>3. rpn \o <<t>> = Append(rpn, t)
        BY <1>1, <3>1
      <4> QED  BY <1>1, <4>2, <4>3
    <3> QED  BY <3>5, <3>6, <3>7
  <2> QED  BY <1>6, <2>1, <2>2
<1>8. Values(locations, newLocations, operands) = <<>>
  <2>1. operands = <<>>
    BY <1>1 DEF EvalInv, Known
  <2> QED  BY <2>1 DEF Values
<1>9. Whole' = Whole /\ Meaning' = Meaning
  BY <1>1, SameGrammar
<1>10. Runs(locations', rpn', Values(locations', newLocations', operands'), <<Meaning'[Whole']>>)
  BY <1>1, <1>7, <1>8, <1>9
<1> QED  BY <1>1, <1>10 DEF Reading

------------------------------------------------------------------------------
(* Evaluation of its queue, step by step. *)

LEMMA PatternKey ==
  ASSUME NEW t \in Tokens, t \notin Parentheses
  PROVE  IsKey(<<t>>)
<1> DEFINE z == [k \in 0..1 |-> 0]
<1>1. Len(<<t>>) = 1 /\ <<t>>[1] = t /\ <<t>> \in Spellings /\ Weight(t) = 0
  BY DEF Spellings, Weight, Parentheses
<1>2. z \in [0..1 -> Int] /\ z[0] = 0 /\ z[1] = 0
  OBVIOUS
<1> HIDE DEF z
<1>3. Nests(<<t>>, z)
  <2>1. \A k \in 1..1 : k = 1 /\ k - 1 = 0
    OBVIOUS
  <2> QED  BY <1>1, <1>2, <2>1 DEF Nests
<1> QED  BY <1>1, <1>2, <1>3 DEF IsKey

LEMMA OperandRead ==
  ASSUME MeaningInv, PushOperand, IsExpression
  PROVE  KeyInv' /\ Reading'
<1>1. /\ phase = "evaluate" /\ rpn # <<>> /\ rpn' = Tail(rpn) /\ Head(rpn) \in Patterns
      /\ operands' = Append(operands, <<Head(rpn)>>)
      /\ UNCHANGED <<newLocations, phase, tokens, locations>>
  BY DEF PushOperand, query
<1>2. /\ EvalInv /\ KeyInv /\ rpn \in Seq(Tokens) /\ operands \in Seq(Spellings) /\ Len(operands) \in Nat
  BY LenProperties DEF MeaningInv, EvalInv, EvalTypes
<1> DEFINE t == Head(rpn)
           key == <<t>>
<1>3. t \in Tokens /\ t \notin Parentheses
  BY <1>1, <1>2, QueueTail DEF IsExpression, Parentheses
<1>4. IsKey(key) /\ key \in Spellings
  <2>1. IsKey(key)
    BY <1>3, PatternKey
  <2> QED  BY <2>1 DEF IsKey
<1> HIDE DEF key
<1>5. /\ Len(operands') = Len(operands) + 1 /\ operands'[Len(operands) + 1] = key
      /\ \A k \in 1..Len(operands) : operands'[k] = operands[k]
  BY <1>1, <1>2, <1>4, AppendProperties DEF key
<1>6. KeyInv'
  <2>1. ASSUME NEW k \in 1..Len(operands') PROVE IsKey(operands'[k])
    <3>1. CASE k = Len(operands) + 1
      BY <1>4, <1>5, <3>1
    <3>2. CASE k # Len(operands) + 1
      <4>1. k \in 1..Len(operands)
        BY <1>2, <1>5, <3>2
      <4> QED  BY <1>2, <1>5, <4>1 DEF KeyInv
    <3> QED  BY <3>1, <3>2
  <2>2. Keyed(locations', newLocations')
    BY <1>1, <1>2 DEF KeyInv
  <2> QED  BY <2>1, <2>2 DEF KeyInv
<1>7. Reading'
  <2> DEFINE before == Values(locations, newLocations, operands)
  <2>1. Runs(locations, rpn, before, <<Meaning[Whole]>>)
    BY <1>1 DEF MeaningInv, Reading
  <2>2. Values(locations, newLocations, operands') = Evaluated(locations, before, t)
    BY <1>1, <1>2, <1>3, ValuesPush DEF t
  <2> HIDE DEF before
  <2>3. Runs(locations, rpn', Evaluated(locations, before, t), <<Meaning[Whole]>>)
    BY <1>1, <1>2, <2>1, RunsOn
  <2>4. Whole' = Whole /\ Meaning' = Meaning
    BY <1>1, SameGrammar
  <2>5. Runs(locations', rpn', Values(locations', newLocations', operands'), <<Meaning'[Whole']>>)
    BY <1>1, <2>2, <2>3, <2>4
  <2> QED  BY <1>1, <2>5 DEF Reading
<1> QED  BY <1>6, <1>7

LEMMA OperatorRead ==
  ASSUME MeaningInv, ApplyOperator, IsExpression
  PROVE  KeyInv' /\ Reading'
<1>1. /\ phase = "evaluate" /\ rpn # <<>> /\ rpn' = Tail(rpn) /\ Head(rpn) \notin Patterns
      /\ UNCHANGED <<phase, tokens, locations>>
  BY DEF ApplyOperator, query
<1>2. EvalInv /\ KeyInv /\ rpn \in Seq(Tokens) /\ operands \in Seq(Spellings)
  BY DEF MeaningInv, EvalInv, EvalTypes
<1> DEFINE t == Head(rpn)
           n == Len(operands)
           front == SubSeq(operands, 1, n - 2)
<1>3. PICK x, y, key : Applied(x, y, key)
  BY <1>2, AppliedIs
<1>4. t \in Tokens /\ t \notin Parentheses
  BY <1>1, <1>2, QueueTail DEF IsExpression, Parentheses
<1>5. n \in Nat /\ n >= 2 /\ n - 1 \in 1..n /\ n \in 1..n /\ n - 2 \in 0..n
  <2>1. n \in Nat
    BY <1>2, LenProperties
  <2>2. n >= 2
    BY <1>3 DEF Applied
  <2> HIDE DEF n
  <2> QED  BY <2>1, <2>2
<1>6. x = operands[n - 1] /\ y = operands[n] /\ key = Spell(x, t, y) /\ operands' = Append(front, key)
  BY <1>3 DEF Applied
<1>7. /\ IsKey(x) /\ IsKey(y)
      /\ x \in Singles \cup DOMAIN newLocations /\ y \in Singles \cup DOMAIN newLocations
  BY <1>2, <1>5, <1>6 DEF KeyInv, EvalInv, Known, Singles
<1>8. newLocations' = Added(locations, newLocations, key, x, t, y)
  <2>1. \A z : LociOf(z) = ListOf(locations, newLocations, z)
    BY DEF LociOf, ListOf, Singles
  <2>2. newLocations' = [z \in DOMAIN newLocations \cup {key} |->
                           IF z = key THEN Apply(t, LociOf(x), LociOf(y)) ELSE newLocations[z]]
    BY <1>3 DEF Applied
  <2>3. Apply(t, LociOf(x), LociOf(y))
          = Apply(t, ListOf(locations, newLocations, x), ListOf(locations, newLocations, y))
    BY <2>1
  <2> DEFINE value == Apply(t, LociOf(x), LociOf(y))
  <2> HIDE DEF value
  <2>4. newLocations' = [z \in DOMAIN newLocations \cup {key} |-> IF z = key THEN value ELSE newLocations[z]]
    BY <2>2 DEF value
  <2>5. value = Apply(t, ListOf(locations, newLocations, x), ListOf(locations, newLocations, y))
    BY <2>3 DEF value
  <2> QED  BY <2>4, <2>5 DEF Added
<1> DEFINE next == newLocations'
<1>9. /\ \A z \in Singles \cup DOMAIN newLocations :
           ListOf(locations, next, z) = ListOf(locations, newLocations, z)
      /\ ListOf(locations, next, key)
           = Apply(t, ListOf(locations, newLocations, x), ListOf(locations, newLocations, y))
      /\ Keyed(locations, next) /\ IsKey(key)
  <2> HIDE DEF next, t
  <2>1. Keyed(locations, newLocations) /\ next = Added(locations, newLocations, key, x, t, y)
    BY <1>2, <1>8 DEF KeyInv, next
  <2>2. /\ \A z \in Singles \cup DOMAIN newLocations :
             ListOf(locations, next, z) = ListOf(locations, newLocations, z)
        /\ ListOf(locations, next, key)
             = Apply(t, ListOf(locations, newLocations, x), ListOf(locations, newLocations, y))
        /\ Keyed(locations, next)
        /\ IsKey(key) /\ key \notin Singles /\ DOMAIN next = DOMAIN newLocations \cup {key}
    <3>1. t \in Tokens /\ t \notin Parentheses /\ key = Spell(x, t, y)
      BY <1>4, <1>6
    <3> QED  BY ONLY <1>7, <2>1, <3>1, ListsStay
  <2> QED  BY <2>2, Zenon
<1> HIDE DEF front
<1>10. /\ front \in Seq(Spellings) /\ Len(front) = n - 2
       /\ \A k \in 1..(n - 2) : front[k] = operands[k]
  BY <1>2, <1>5, PrefixIs DEF front
<1>11. key \in Spellings
  BY <1>9 DEF IsKey
<1>12. /\ Len(operands') = Len(front) + 1 /\ operands'[Len(front) + 1] = key
       /\ \A k \in 1..Len(front) : operands'[k] = front[k]
  BY <1>6, <1>10, <1>11, AppendProperties
<1>13. KeyInv'
  <2>1. ASSUME NEW k \in 1..Len(operands') PROVE IsKey(operands'[k])
    <3>1. CASE k = Len(front) + 1
      BY <1>9, <1>12, <3>1
    <3>2. CASE k # Len(front) + 1
      <4>1. k \in 1..(n - 2) /\ k \in 1..Len(front) /\ k \in 1..n
        BY <1>5, <1>10, <1>12, <3>2
      <4>2. operands'[k] = operands[k]
        BY <1>10, <1>12, <4>1
      <4> QED  BY <1>2, <4>1, <4>2 DEF KeyInv
    <3> QED  BY <3>1, <3>2
  <2>2. Keyed(locations', newLocations')
    BY <1>1, <1>9
  <2> QED  BY <2>1, <2>2 DEF KeyInv
<1>14. Reading'
  <2> DEFINE before == Values(locations, newLocations, operands)
  <2>1. Runs(locations, rpn, before, <<Meaning[Whole]>>)
    BY <1>1 DEF MeaningInv, Reading
  <2>2. Values(locations, next, operands') = Evaluated(locations, before, t)
    <3> HIDE DEF next, t
    <3>1. \A j \in 1..Len(operands) :
            ListOf(locations, next, operands[j]) = ListOf(locations, newLocations, operands[j])
      <4>1. \A j \in 1..Len(operands) : operands[j] \in Singles \cup DOMAIN newLocations
        BY <1>2 DEF EvalInv, Known, Singles
      <4> QED  BY <1>9, <4>1
    <3>2. ListOf(locations, next, key)
            = Apply(t, ListOf(locations, newLocations, operands[Len(operands) - 1]),
                       ListOf(locations, newLocations, operands[Len(operands)]))
      BY <1>6, <1>9
    <3>3. Len(operands) >= 2 /\ t \notin Patterns
      BY <1>1, <1>5 DEF t
    <3>4. operands' = Append(SubSeq(operands, 1, Len(operands) - 2), key)
      BY <1>6 DEF front
    <3> QED  BY <1>2, <1>11, <3>1, <3>2, <3>3, <3>4, ValuesApply
  <2> HIDE DEF before
  <2>3. Runs(locations, rpn', Evaluated(locations, before, t), <<Meaning[Whole]>>)
    BY <1>1, <1>2, <2>1, RunsOn
  <2>4. Whole' = Whole /\ Meaning' = Meaning
    BY <1>1, SameGrammar
  <2>5. Runs(locations', rpn', Values(locations', newLocations', operands'), <<Meaning'[Whole']>>)
    BY <1>1, <2>2, <2>3, <2>4
  <2> QED  BY <1>1, <2>5 DEF Reading
<1> QED  BY <1>13, <1>14

LEMMA MeaningKept == MeaningInv /\ [EvalNext]_eval_vars => MeaningInv'
<1> SUFFICES ASSUME MeaningInv, [EvalNext]_eval_vars PROVE MeaningInv'
  OBVIOUS
<1>1. EvalInv /\ EvalInv' /\ MatchInv /\ MatchInv'
  BY EvalKept, MatchKept DEF MeaningInv
<1>2. /\ tokens \in Seq(Tokens) /\ ops \in Seq(Tokens) /\ rpn \in Seq(Tokens) /\ operands \in Seq(Spellings)
      /\ Len(tokens) \in Nat /\ idx \in 1..(Len(tokens) + 1)
  BY <1>1 DEF EvalInv, EvalTypes
<1>7. SUFFICES ASSUME IsExpression' PROVE KeyInv' /\ Reading'
  BY <1>1 DEF MeaningInv
<1>9. CASE Tokenize
  BY <1>1, <1>7, <1>9, TokenizeReads
<1>22. SUFFICES ASSUME ~Tokenize PROVE KeyInv' /\ Reading'
  BY <1>9
<1>3. UNCHANGED <<tokens, locations, raw_expression, cursor>>
  BY <1>22 DEF EvalNext, PushPattern, RejectOperator, PopOperator, PushOperator, OpenParenthesis,
         CloseParenthesis, EmptyStack, Drain, PushOperand, ApplyOperator, Underflow, NumberMissing, ReturnLoci,
         Convert, query, written, eval_vars, token_vars
<1>4. IsExpression
  BY <1>3, <1>7, SameGrammar
<1>6. KeyInv /\ Reading
  BY <1>4 DEF MeaningInv
<1>5. UNCHANGED <<operands, newLocations>> => KeyInv'
  BY <1>3, <1>6 DEF KeyInv
<1>8. Neighbours /\ tokens # <<>> /\ TokensBalanced /\ Whole' = Whole /\ Meaning' = Meaning
  BY <1>2, <1>3, <1>4, ExpressionIs, SameGrammar
<1>10. CASE PushPattern
  BY <1>1, <1>4, <1>5, <1>6, <1>10, PatternRead DEF PushPattern, Convert, machine
<1>11. CASE RejectOperator
  <2>1. idx \in 1..Len(tokens) /\ IsOperator(tokens[idx]) /\ Symbol(tokens[idx]) \notin Recognized
        /\ UNCHANGED machine
    BY <1>2, <1>11 DEF RejectOperator, Convert, token
  <2> QED  BY <1>8, <2>1 DEF Neighbours, Adjacent
<1>12. CASE PopOperator
  <2>1. /\ phase = "convert" /\ ops # <<>> /\ Last(ops) # LeftParen /\ idx <= Len(tokens) /\ IsOperator(tokens[idx])
        /\ rpn' = Append(rpn, Last(ops)) /\ ops' = Front(ops)
        /\ UNCHANGED <<idx, phase, machine, query, written>>
    BY <1>12 DEF PopOperator, Convert, MustPop, IsOperator, Parentheses, token
  <2>2. ~Opens(tokens[idx])
    BY <2>1, Sorts
  <2> QED  BY <1>1, <1>4, <1>5, <1>6, <2>1, <2>2, TopRead DEF machine
<1>13. CASE PushOperator
  <2>1. /\ phase = "convert" /\ idx <= Len(tokens) /\ IsOperator(tokens[idx]) /\ ~MustPop
        /\ ops' = Append(ops, tokens[idx]) /\ idx' = idx + 1
        /\ UNCHANGED <<rpn, phase, machine, query, written>>
    BY <1>13 DEF PushOperator, Convert, token
  <2>2. ops = <<>> \/ Last(ops) = LeftParen
    <3> SUFFICES ASSUME ops # <<>> PROVE Last(ops) = LeftParen
      OBVIOUS
    <3>1. ~IsOperator(Last(ops))
      BY <2>1 DEF MustPop, TakesPrecedence, RightAssociative, Precedence
    <3>2. Last(ops) = ops[Len(ops)] /\ Len(ops) \in 1..Len(ops)
      <4>1. Len(ops) \in Nat \ {0} /\ Last(ops) = ops[Len(ops)]
        BY <1>2, TopOf
      <4> QED  BY <4>1
    <3> QED  BY <1>1, <3>1, <3>2 DEF EvalInv, Yard
  <2> QED  BY <1>1, <1>4, <1>5, <1>6, <2>1, <2>2, TokenRead DEF machine
<1>14. CASE OpenParenthesis
  <2>1. /\ phase = "convert" /\ idx <= Len(tokens) /\ tokens[idx] = LeftParen
        /\ ops' = Append(ops, tokens[idx]) /\ idx' = idx + 1
        /\ UNCHANGED <<rpn, phase, machine, query, written>>
    BY <1>14 DEF OpenParenthesis, Convert, token
  <2> QED  BY <1>1, <1>4, <1>5, <1>6, <2>1, TokenRead DEF machine
<1>15. CASE CloseParenthesis
  <2>1. phase = "convert" /\ idx <= Len(tokens) /\ tokens[idx] = RightParen /\ UNCHANGED <<machine, query>>
    BY <1>15 DEF CloseParenthesis, Convert, token
  <2>2. ops # <<>>
    BY <1>15 DEF CloseParenthesis
  <2>3. CASE Last(ops) # LeftParen
    <3>1. rpn' = Append(rpn, Last(ops)) /\ ops' = Front(ops) /\ UNCHANGED <<idx, phase>>
      BY <1>15, <2>3 DEF CloseParenthesis
    <3>2. ~Opens(tokens[idx])
      BY <2>1, Sorts
    <3> QED  BY <1>1, <1>4, <1>5, <1>6, <2>1, <2>2, <2>3, <3>1, <3>2, TopRead DEF machine
  <2>4. CASE Last(ops) = LeftParen
    <3>1. ops' = Front(ops) /\ idx' = idx + 1 /\ UNCHANGED <<rpn, phase>>
      BY <1>15, <2>4 DEF CloseParenthesis
    <3> QED  BY <1>1, <1>4, <1>5, <1>6, <2>1, <2>2, <2>4, <3>1, EnclosedRead DEF machine
  <2> QED  BY <2>3, <2>4
<1>16. CASE Drain
  BY <1>1, <1>4, <1>5, <1>6, <1>16, AllRead DEF Drain, machine
<1>17. CASE PushOperand
  BY <1>4, <1>17, OperandRead
<1>18. CASE ApplyOperator
  BY <1>4, <1>18, OperatorRead
<1>19. CASE Underflow \/ NumberMissing
  <2>1. /\ phase = "evaluate" /\ rpn # <<>> /\ Head(rpn) \notin Patterns
        /\ Len(operands) < 2 \/ ~HasDistance(Head(rpn))
    BY <1>19 DEF Underflow, NumberMissing
  <2> DEFINE before == Values(locations, newLocations, operands)
  <2>2. Runs(locations, rpn, before, <<Meaning[Whole]>>)
    BY <1>6, <2>1 DEF Reading
  <2>3. Len(operands) \in Nat
    BY <1>2, LenProperties
  <2>4. Len(before) = Len(operands)
    BY <2>3 DEF Values
  <2> HIDE DEF before
  <2>5. Able(before, Head(rpn))
    BY <1>2, <2>1, <2>2, RunsOn
  <2>6. Len(operands) >= 2 /\ HasDistance(Head(rpn))
    BY <2>1, <2>4, <2>5 DEF Able
  <2> QED  BY <2>1, <2>3, <2>6
<1>23. CASE EmptyStack
  <2>1. phase = "convert" /\ idx <= Len(tokens) /\ token = RightParen /\ ops = <<>>
    BY <1>23 DEF EmptyStack, Convert
  <2>2. TokenDepth(idx) >= 0
    BY <1>2, <1>8, <2>1 DEF TokensBalanced
  <2> QED  BY <1>1, <2>1, <2>2, ClosesOpen
<1>20. CASE ReturnLoci
  <2>1. phase = "evaluate" /\ phase' = "done" /\ rpn = <<>> /\ rpn' = rpn /\ UNCHANGED <<operands, newLocations>>
    BY <1>20 DEF ReturnLoci, machine
  <2>2. Reading'
    <3>1. Runs(locations, rpn, Values(locations, newLocations, operands), <<Meaning[Whole]>>)
      BY <1>6, <2>1 DEF Reading
    <3>2. Runs(locations', rpn', Values(locations', newLocations', operands'), <<Meaning'[Whole']>>)
      BY <1>3, <1>8, <2>1, <3>1
    <3> QED  BY <2>1, <3>2 DEF Reading
  <2> QED  BY <1>5, <2>1, <2>2
<1>21. CASE UNCHANGED eval_vars
  <2>1. UNCHANGED <<tokens, locations, idx, ops, rpn, operands, newLocations, phase>>
    BY <1>21 DEF eval_vars, token_vars
  <2>2. Reading'
    <3>1. Reading
      BY <1>6
    <3>2. ASSUME phase = "convert" PROVE Reading'
      <4>1. PICK P, C, V : Parsed(ops, idx, P, C, V) /\ Runs(locations, rpn, <<>>, V)
        BY <3>1, <3>2 DEF Reading
      <4>2. Parsed(ops', idx', P, C, V) /\ Runs(locations, rpn', <<>>, V)
        BY <2>1, <4>1
      <4> QED  BY <2>1, <3>2, <4>2, StillReading
    <3>3. ASSUME phase # "convert" PROVE Reading'
      <4>1. phase \in {"evaluate", "done"} =>
              Runs(locations', rpn', Values(locations', newLocations', operands'), <<Meaning'[Whole']>>)
        <5> SUFFICES ASSUME phase \in {"evaluate", "done"}
                     PROVE  Runs(locations', rpn', Values(locations', newLocations', operands'), <<Meaning'[Whole']>>)
          OBVIOUS
        <5>1. Runs(locations, rpn, Values(locations, newLocations, operands), <<Meaning[Whole]>>)
          BY <3>1 DEF Reading
        <5> QED  BY <1>8, <2>1, <5>1
      <4> QED  BY <2>1, <3>1, <3>3, <4>1 DEF Reading
    <3> QED  BY <3>2, <3>3
  <2> QED  BY <1>5, <2>1, <2>2
<1> QED  BY <1>10, <1>11, <1>12, <1>13, <1>14, <1>15, <1>16, <1>17, <1>18, <1>19, <1>20,
         <1>21, <1>22, <1>23 DEF EvalNext

\* An expression of the grammar is never rejected, never runs a stack empty,
\* and evaluate_expression returns its meaning, whatever its length and
\* whatever find has found.
THEOREM ExpressionsAreEvaluated == EvalSpec => []ExpressionGetsItsMeaning
<1>1. EvalInit => MeaningInv
  <2> SUFFICES ASSUME EvalInit PROVE MeaningInv
    OBVIOUS
  <2>1. EvalInv /\ MatchInv /\ phase = "check" /\ operands = <<>> /\ newLocations = <<>>
    BY EvalBegins, MatchBegins DEF EvalInit, TokenInit
  <2>2. KeyInv
    <3>1. 1..Len(operands) = {} /\ DOMAIN newLocations = {}
      BY <2>1
    <3> QED  BY <3>1 DEF KeyInv, Keyed
  <2>3. Reading
    BY <2>1 DEF Reading
  <2> QED  BY <2>1, <2>2, <2>3 DEF MeaningInv
<1>2. MeaningInv => ExpressionGetsItsMeaning
  <2> SUFFICES ASSUME MeaningInv, phase \in Outcomes, IsExpression
               PROVE  /\ phase = "done" /\ Len(operands) = 1
                      /\ LociOf(operands[1]) = Meaning[<<1, Len(tokens)>>]
    BY DEF ExpressionGetsItsMeaning
  <2>1. Reading /\ operands \in Seq(Spellings)
    BY DEF MeaningInv, EvalInv, EvalTypes
  <2>2. phase = "done" /\ rpn = <<>>
    BY <2>1 DEF Reading, Outcomes
  <2> DEFINE values == Values(locations, newLocations, operands)
  <2>3. Runs(locations, <<>>, values, <<Meaning[Whole]>>)
    BY <2>1, <2>2 DEF Reading
  <2>4. values = [j \in 1..Len(operands) |-> ListOf(locations, newLocations, operands[j])]
    BY DEF Values
  <2>5. Len(operands) \in Nat
    BY <2>1, LenProperties
  <2> HIDE DEF values
  <2>6. values = <<Meaning[Whole]>>
    BY <2>3, NothingRuns
  <2>7. Len(values) = Len(operands)
    BY <2>4, <2>5
  <2>8. Len(operands) = 1 /\ values[1] = Meaning[Whole]
    BY <2>6, <2>7
  <2>9. values[1] = ListOf(locations, newLocations, operands[1])
    BY <2>4, <2>8
  <2>10. ListOf(locations, newLocations, operands[1]) = LociOf(operands[1])
    BY DEF ListOf, LociOf, Singles
  <2> QED  BY <2>2, <2>8, <2>9, <2>10 DEF Whole
<1> QED  BY <1>1, <1>2, MeaningKept, PTL DEF EvalSpec
------------------------------------------------------------------------------
(* How the parts of a query fit together. *)

\* If nothing is kept the list is empty, if all is kept it is the same.
LEMMA KeptExtremes ==
  ASSUME NEW l \in Seq(Nat), NEW places, NEW f, Keeps(f, l, places)
  PROVE  /\ places = {} => f[Len(l)] = <<>>
         /\ places = 1..Len(l) => f[Len(l)] = l
<1> DEFINE N == Len(l)
           Good(n) == /\ places = {} => f[n] = <<>>
                      /\ places = 1..N => /\ Len(f[n]) = n
                                          /\ \A k \in 1..n : f[n][k] = l[k]
           Bad == {n \in 0..N : ~Good(n)}
<1>1. N \in Nat /\ \A n \in 1..N : l[n] \in Nat
  OBVIOUS
<1>2. Bad = {}
  <2> SUFFICES ASSUME Bad # {} PROVE FALSE
    OBVIOUS
  <2>1. PICK n \in Bad : \A m \in Bad : n <= m
    <3>1. Bad \subseteq Nat
      BY <1>1
    <3> HIDE DEF Bad
    <3> QED  BY <3>1, LeastNumber
  <2>2. n \in 0..N /\ ~Good(n)
    BY <2>1
  <2>3. n # 0
    <3>1. f[0] = <<>> /\ Len(<<>>) = 0 /\ 1..0 = {}
      BY DEF Keeps
    <3> QED  BY <2>2, <3>1
  <2>4. n \in 1..N /\ n - 1 \in 0..N /\ ~(n <= n - 1) /\ n - 1 + 1 = n
    BY <1>1, <2>2, <2>3
  <2>5. Good(n - 1)
    <3>1. n - 1 \notin Bad
      <4> HIDE DEF Bad
      <4> QED  BY <2>1, <2>4
    <3> QED  BY <2>4, <3>1
  <2>6. f[n] = IF n \in places THEN Append(f[n - 1], l[n]) ELSE f[n - 1]
    BY <2>4 DEF Keeps
  <2>7. ASSUME places = {} PROVE FALSE
    <3>1. places # 1..N
      BY <2>4, <2>7
    <3> QED  BY <2>2, <2>5, <2>6, <2>7, <3>1
  <2>8. ASSUME places = 1..N PROVE FALSE
    <3> DEFINE g == f[n - 1]
    <3>1. f[n] = Append(g, l[n]) /\ places # {}
      BY <2>4, <2>6, <2>8
    <3>2. g \in Seq(Nat) /\ l[n] \in Nat
      BY <1>1, <2>4 DEF Keeps
    <3>3. Len(g) = n - 1 /\ \A k \in 1..(n - 1) : g[k] = l[k]
      BY <2>5, <2>8
    <3> HIDE DEF g
    <3>4. Len(f[n]) = Len(g) + 1 /\ f[n][Len(g) + 1] = l[n] /\ \A k \in 1..Len(g) : f[n][k] = g[k]
      BY <3>1, <3>2, AppendProperties
    <3>5. ASSUME NEW k \in 1..n PROVE f[n][k] = l[k]
      <4>1. CASE k = n
        BY <2>4, <3>3, <3>4, <4>1
      <4>2. CASE k # n
        <5>1. k \in 1..(n - 1)
          BY <2>4, <4>2
        <5> QED  BY <3>3, <3>4, <5>1
      <4> QED  BY <4>1, <4>2
    <3>6. Len(f[n]) = n
      BY <2>4, <3>3, <3>4
    <3> QED  BY <2>2, <3>1, <3>5, <3>6
  <2> QED  BY <2>2, <2>7, <2>8
<1>3. Good(N)
  <2>1. N \in 0..N
    BY <1>1
  <2> QED  BY <1>2, <2>1
<1>4. ASSUME places = 1..N PROVE f[N] = l
  <2>1. f[N] \in Seq(Nat) /\ Len(f[N]) = N /\ \A k \in 1..N : f[N][k] = l[k]
    BY <1>1, <1>3, <1>4 DEF Keeps
  <2> DEFINE g == f[N]
  <2> HIDE DEF g
  <2>2. g = l
    BY <1>1, <2>1, SeqEqual DEF g
  <2> QED  BY <2>2 DEF g
<1> QED  BY <1>3, <1>4

\* Where ProximityFilter keeps the element.
KeptPlaces == {n \in 1..Len(a) : Promise!Keep(a[n])}

\* The list under construction is the one of Loci, so far.
ListSoFar == \A f : Keeps(f, a, KeptPlaces) => c = f[ait - 1]

\* nearv and notnearv return the lists the evaluator takes for them,
\* duplicates included.
THEOREM ScanReturnsTheList ==
  ScanSpec => [](at = "done" => c = IF negated THEN notnearv(a, b, distance) ELSE nearv(a, b, distance))
<1> DEFINE Result == IF negated THEN notnearv(a, b, distance) ELSE nearv(a, b, distance)
           Returned == at = "done" => c = Result
<1>1. ScanInit => ListSoFar
  BY DEF ScanInit, ListSoFar, Keeps
<1>2. ScanTypeOK /\ PassedOutOfReach /\ ListSoFar /\ [ScanNext]_scan_vars => ListSoFar'
  <2> SUFFICES ASSUME ScanTypeOK, PassedOutOfReach, ListSoFar, [ScanNext]_scan_vars
               PROVE  ListSoFar'
    OBVIOUS
  <2>1. <<a, b, distance, negated>>' = <<a, b, distance, negated>>
    BY DEF ScanNext, EmptyB, EnterLoop, Advance, Decide, ReturnList, scan_vars, scan_inputs
  <2>2. a' = a /\ KeptPlaces' = KeptPlaces
    BY <2>1 DEF KeptPlaces, Promise!Keep, Promise!HasNeighbour
  <2>3. a \in Seq(Nat) /\ Len(a) \in Nat /\ ait \in 1..(Len(a) + 1) /\ negated \in BOOLEAN
    BY ListElements DEF ScanTypeOK
  <2> SUFFICES ASSUME NEW f, Keeps(f, a, KeptPlaces) PROVE c' = f[ait' - 1]
    BY <2>2 DEF ListSoFar
  <2>4. c = f[ait - 1]
    BY DEF ListSoFar
  <2>5. CASE EmptyB
    <3>1. c' = (IF negated THEN a ELSE <<>>) /\ ait' - 1 = Len(a)
      BY <2>3, <2>5 DEF EmptyB
    <3>2. \A x : Promise!Keep(x) <=> negated
      BY <2>3, <2>5, EmptyBDecides DEF EmptyB
    <3>3. KeptPlaces = IF negated THEN 1..Len(a) ELSE {}
      BY <3>2 DEF KeptPlaces
    <3>4. /\ KeptPlaces = {} => f[Len(a)] = <<>>
          /\ KeptPlaces = 1..Len(a) => f[Len(a)] = a
      BY <2>3, KeptExtremes
    <3>5. CASE negated
      BY <3>1, <3>3, <3>4, <3>5
    <3>6. CASE ~negated
      BY <3>1, <3>3, <3>4, <3>6
    <3> QED  BY <3>5, <3>6
  <2>6. CASE EnterLoop \/ Advance \/ ReturnList \/ UNCHANGED scan_vars
    <3>1. c' = c /\ ait' = ait
      BY <2>6 DEF EnterLoop, Advance, ReturnList, scan_vars
    <3> QED  BY <2>4, <3>1
  <2>7. CASE Decide
    <3>1. ait' = ait + 1 /\ ait \in 1..Len(a) /\ ait + 1 - 1 = ait
      BY <2>3, <2>7 DEF Decide
    <3>2. c' = IF Promise!Keep(a[ait]) THEN Append(c, a[ait]) ELSE c
      BY <2>7, DecideKeeps
    <3>3. ait \in KeptPlaces <=> Promise!Keep(a[ait])
      BY <3>1 DEF KeptPlaces
    <3>4. f[ait] = IF ait \in KeptPlaces THEN Append(f[ait - 1], a[ait]) ELSE f[ait - 1]
      BY <3>1 DEF Keeps
    <3>5. c' = f[ait]
      BY <2>4, <3>2, <3>3, <3>4
    <3> QED  BY <3>1, <3>5
  <2> QED  BY <2>5, <2>6, <2>7 DEF ScanNext
<1>3. ScanTypeOK /\ FilterSoFar /\ ListSoFar => Returned
  <2> SUFFICES ASSUME ScanTypeOK, FilterSoFar, ListSoFar, at = "done" PROVE c = Result
    OBVIOUS
  <2>1. /\ a \in Seq(Nat) /\ b \in Seq(Nat) /\ distance \in Nat /\ ait - 1 = Len(a) /\ negated \in BOOLEAN
        /\ (\A k \in 1..Len(a) : a[k] \in Nat) /\ \A k \in 1..Len(b) : b[k] \in Nat
    BY ListElements, DistancesAssumption DEF ScanTypeOK, FilterSoFar
  <2>2. PICK f : Keeps(f, a, KeptPlaces) /\ KeptOf(a, KeptPlaces) = f[Len(a)]
    BY <2>1, KeptIs
  <2>3. c = KeptOf(a, KeptPlaces)
    BY <2>1, <2>2 DEF ListSoFar
  <2>4. ASSUME NEW n \in 1..Len(a)
        PROVE  HasNeighbour(a[n], b, distance) <=> Promise!HasNeighbour(a[n])
    <3>1. ASSUME NEW k \in 1..Len(b)
          PROVE  a[n] - b[k] \in -distance..distance <=> Promise!Within(a[n], b[k], distance)
      <4>1. a[n] \in Nat /\ b[k] \in Nat
        BY <2>1
      <4>2. distance \in Nat
        BY <2>1
      <4> QED  BY ONLY <4>1, <4>2 DEF Promise!Within, Promise!Abs
    <3> QED  BY <3>1 DEF HasNeighbour, Promise!HasNeighbour
  <2>5. CASE negated
    <3>1. KeptPlaces = {n \in 1..Len(a) : ~HasNeighbour(a[n], b, distance)}
      BY <2>4, <2>5 DEF KeptPlaces, Promise!Keep
    <3> QED  BY <2>3, <2>5, <3>1 DEF notnearv
  <2>6. CASE ~negated
    <3>1. KeptPlaces = {n \in 1..Len(a) : HasNeighbour(a[n], b, distance)}
      <4>1. \A n \in 1..Len(a) : Promise!HasNeighbour(a[n]) \in BOOLEAN
        BY DEF Promise!HasNeighbour
      <4> QED  BY <2>1, <2>4, <2>6, <4>1 DEF KeptPlaces, Promise!Keep
    <3> QED  BY <2>3, <2>6, <3>1 DEF nearv
  <2> QED  BY <2>1, <2>5, <2>6
<1> HIDE DEF Returned
<1>4. ScanSpec => []Returned
  BY <1>1, <1>2, <1>3, ScanTypeCorrect, ScanPassedAreOutOfReach, ScanResultCorrect, PTL DEF ScanSpec
<1> QED  BY <1>4 DEF Returned

\* find hands the evaluator lists such as LocationsAssumption asks for.
THEOREM FoundListsAscend ==
  Spec => [](\A x \in PatternSet : match_positions[x] \in Seq(Nat) /\ Ascending(match_positions[x]))
<1> DEFINE Found == \A x \in PatternSet : match_positions[x] \in Seq(Nat) /\ Ascending(match_positions[x])
<1>1. TypeInv /\ PositionsAreMatchesInOrder => Found
  <2> SUFFICES ASSUME TypeInv, PositionsAreMatchesInOrder, NEW x \in PatternSet
               PROVE  match_positions[x] \in Seq(Nat) /\ Ascending(match_positions[x])
    OBVIOUS
  <2>1. match_positions[x] \in Seq(Nat) /\ Len(match_positions[x]) \in Nat
    BY LenProperties DEF TypeInv
  <2>2. ASSUME NEW j \in 1..(Len(match_positions[x]) - 1)
        PROVE  match_positions[x][j] <= match_positions[x][j + 1]
    <3>1. j \in 1..Len(match_positions[x]) /\ j + 1 \in 1..Len(match_positions[x]) /\ j < j + 1
      BY <2>1
    <3> QED  BY <3>1 DEF PositionsAreMatchesInOrder
  <2> QED  BY <2>1, <2>2 DEF Ascending
<1> HIDE DEF Found
<1>2. Spec => []Found
  BY <1>1, SearchInv, PositionsAreRight, PTL
<1> QED  BY <1>2 DEF Found
------------------------------------------------------------------------------
(* Text with tags. *)

Marked == Characters \cup Range(Open) \cup Range(Close)
TwoTags == {Open, Close}

TagsOf(t, tag) == {k \in 1..(Len(t) - Len(tag) + 1) : SubSeq(t, k, k + Len(tag) - 1) = tag}

\* No tag of t is on both sides of position p.
Between(t, p) ==
  \A tag \in TwoTags : \A k \in TagsOf(t, tag) : ~(k <= p /\ p < k + Len(tag) - 1)

VisibleIn(t) ==
  {m \in 1..Len(t) : \A tag \in TwoTags : \A k \in TagsOf(t, tag) : m \notin k..(k + Len(tag) - 1)}

LEMMA TagIs ==
  ASSUME NEW tag \in TwoTags
  PROVE  /\ tag \in Seq(Marked) /\ Len(tag) \in Nat /\ Len(tag) >= 2
         /\ tag[1] = TagBegin /\ tag[Len(tag)] = TagEnd /\ TagBegin # TagEnd
         /\ \A k \in 1..Len(tag) : (tag[k] = TagBegin <=> k = 1) /\ (tag[k] = TagEnd <=> k = Len(tag))
<1>0. \A x \in TwoTags : /\ x \in Seq(Range(x)) /\ x # <<>>
                         /\ \A k \in 1..Len(x) : (x[k] = TagBegin <=> k = 1) /\ (x[k] = TagEnd <=> k = Len(x))
  BY TagsAssumption DEF TwoTags
<1>1. \A x \in TwoTags : Len(x) \in Nat \ {0}
  BY <1>0, EmptySeq, LenProperties
<1>2. ASSUME NEW x \in TwoTags PROVE x \in Seq(Marked)
  <2>1. Range(x) \subseteq Marked
    BY DEF Marked, TwoTags
  <2> QED  BY <1>0, <2>1, SeqMonotonic
<1>3. \A x \in TwoTags : x[1] = TagBegin /\ x[Len(x)] = TagEnd
  BY <1>0, <1>1
<1>4. TagBegin # TagEnd
  <2> SUFFICES ASSUME TagBegin = TagEnd PROVE FALSE
    OBVIOUS
  <2>1. ASSUME NEW x \in TwoTags PROVE Len(x) = 1
    <3>1. 1 \in 1..Len(x) /\ x[1] = TagEnd
      BY <1>1, <1>3
    <3> QED  BY <1>0, <3>1
  <2>2. Open \in Seq(Marked) /\ Close \in Seq(Marked) /\ Len(Open) = 1 /\ Len(Close) = 1
        /\ Open[1] = Close[1]
    BY <1>2, <1>3, <2>1 DEF TwoTags
  <2>3. Open = Close
    BY <2>2, SeqEqual
  <2> QED  BY <2>3, TagsAssumption
<1>5. Len(tag) >= 2
  BY <1>1, <1>3, <1>4
<1> QED  BY <1>0, <1>1, <1>2, <1>3, <1>4, <1>5

LEMMA TagsOfIs ==
  ASSUME NEW S, NEW t \in Seq(S), NEW tag \in TwoTags, NEW k
  PROVE  k \in TagsOf(t, tag) <=>
           /\ k \in Nat \ {0} /\ k + Len(tag) - 1 <= Len(t)
           /\ \A m \in 1..Len(tag) : t[k + m - 1] = tag[m]
<1>0. Len(t) \in Nat /\ Len(tag) \in Nat /\ Len(tag) >= 2 /\ tag \in Seq(Marked)
  BY TagIs, LenProperties
<1>1. ASSUME k \in 1..(Len(t) - Len(tag) + 1)
      PROVE  SubSeq(t, k, k + Len(tag) - 1) = tag <=> \A m \in 1..Len(tag) : t[k + m - 1] = tag[m]
  <2> DEFINE e == k + Len(tag) - 1
             q == SubSeq(t, k, e)
  <2>1. k \in 1..Len(t) /\ e \in 1..Len(t) /\ e - k + 1 = Len(tag) /\ k <= e
    BY <1>0, <1>1
  <2>2. q \in Seq(S) /\ Len(q) = Len(tag) /\ \A m \in 1..Len(tag) : q[m] = t[k + m - 1]
    BY <1>0, <2>1, SubSeqProperties
  <2> HIDE DEF q
  <2>3. ASSUME \A m \in 1..Len(tag) : q[m] = tag[m] PROVE q = tag
    <3>1. q \in [1..Len(tag) -> S] /\ tag \in [1..Len(tag) -> Marked]
      BY <1>0, <2>2, LenProperties
    <3> QED  BY <2>3, <3>1
  <2>4. q = tag <=> \A m \in 1..Len(tag) : t[k + m - 1] = tag[m]
    BY <2>2, <2>3
  <2> QED  BY <2>4 DEF q
<1>2. k \in 1..(Len(t) - Len(tag) + 1) <=> k \in Nat \ {0} /\ k + Len(tag) - 1 <= Len(t)
  BY <1>0
<1> QED  BY <1>1, <1>2 DEF TagsOf

\* Two tags have no position in common.
LEMMA TagsApart ==
  ASSUME NEW S, NEW t \in Seq(S), NEW x \in TwoTags, NEW y \in TwoTags,
         NEW j \in TagsOf(t, x), NEW k \in TagsOf(t, y)
  PROVE  /\ j < k => j + Len(x) <= k
         /\ j = k => x = y
         /\ j \in Nat \ {0} /\ k \in Nat \ {0}
<1>1. /\ j \in Nat \ {0} /\ j + Len(x) - 1 <= Len(t) /\ k \in Nat \ {0}
      /\ \A m \in 1..Len(x) : t[j + m - 1] = x[m]
      /\ \A m \in 1..Len(y) : t[k + m - 1] = y[m]
  BY TagsOfIs
<1>2. /\ Len(x) \in Nat /\ Len(x) >= 2 /\ Len(y) \in Nat /\ Len(y) >= 2
      /\ \A m \in 1..Len(x) : (x[m] = TagBegin <=> m = 1) /\ (x[m] = TagEnd <=> m = Len(x))
      /\ \A m \in 1..Len(y) : (y[m] = TagBegin <=> m = 1) /\ (y[m] = TagEnd <=> m = Len(y))
      /\ x \in Seq(Marked) /\ y \in Seq(Marked)
  BY TagIs
<1>3. ASSUME j < k PROVE j + Len(x) <= k
  <2> SUFFICES ASSUME k < j + Len(x) PROVE FALSE
    BY <1>1, <1>2
  <2>1. k - j + 1 \in 1..Len(x) /\ k - j + 1 # 1 /\ j + (k - j + 1) - 1 = k /\ k + 1 - 1 = k /\ 1 \in 1..Len(y)
    BY <1>1, <1>2, <1>3
  <2>2. t[k] = x[k - j + 1] /\ t[k] = y[1]
    BY <1>1, <2>1
  <2> QED  BY <1>2, <2>1, <2>2
<1>4. ASSUME j = k PROVE x = y
  <2>1. ASSUME NEW m \in 1..Len(x), m \in 1..Len(y) PROVE x[m] = y[m]
    BY <1>1, <1>4, <2>1
  <2>2. Len(x) = Len(y)
    <3>1. CASE Len(x) <= Len(y)
      <4>1. Len(x) \in 1..Len(x) /\ Len(x) \in 1..Len(y)
        BY <1>2, <3>1
      <4> QED  BY <1>2, <2>1, <4>1
    <3>2. CASE Len(y) <= Len(x)
      <4>1. Len(y) \in 1..Len(x) /\ Len(y) \in 1..Len(y)
        BY <1>2, <3>2
      <4> QED  BY <1>2, <2>1, <4>1
    <3> QED  BY <1>2, <3>1, <3>2
  <2>3. x \in [1..Len(x) -> Marked] /\ y \in [1..Len(x) -> Marked]
    BY <1>2, <2>2, LenProperties
  <2> QED  BY <2>1, <2>2, <2>3
<1> QED  BY <1>1, <1>3, <1>4
------------------------------------------------------------------------------
(* What inserting a tag does. *)

\* Where position k of a text is after n characters were inserted behind p.
Shifted(p, n, k) == IF k <= p THEN k ELSE k + n

LEMMA InsertIs ==
  ASSUME NEW t \in Seq(Marked), NEW p \in 0..Len(t), NEW tag \in TwoTags
  PROVE  LET u == Insert(t, p, tag)
             n == Len(tag)
         IN  /\ u \in Seq(Marked) /\ Len(u) = Len(t) + n
             /\ \A k \in 1..p : u[k] = t[k]
             /\ \A k \in 1..n : u[p + k] = tag[k]
             /\ \A k \in (p + 1)..Len(t) : u[k + n] = t[k]
             /\ \A k \in 1..Len(t) : u[Shifted(p, n, k)] = t[k] /\ Shifted(p, n, k) \in 1..Len(u)
<1> DEFINE n == Len(tag)
           x == SubSeq(t, 1, p)
           y == SubSeq(t, p + 1, Len(t))
<1>0. Len(t) \in Nat /\ p \in Nat /\ p <= Len(t) /\ n \in Nat /\ tag \in Seq(Marked)
  BY TagIs, LenProperties
<1>1. /\ x \in Seq(Marked) /\ Len(x) = p
      /\ \A k \in 1..p : x[k] = t[k]
  <2>1. \A k \in 1..p : t[k] \in Marked
    BY <1>0, ElementOfSeq
  <2>2. x \in Seq(Marked) /\ Len(x) = (IF 1 <= p THEN p - 1 + 1 ELSE 0)
        /\ \A k \in 1..(p - 1 + 1) : x[k] = t[1 + k - 1]
    BY <1>0, <2>1, SubSeqProperties
  <2> HIDE DEF x
  <2> QED  BY <1>0, <2>2
<1>2. /\ y \in Seq(Marked) /\ Len(y) = Len(t) - p
      /\ \A k \in 1..(Len(t) - p) : y[k] = t[p + k]
  <2>1. \A k \in (p + 1)..Len(t) : t[k] \in Marked
    BY <1>0, ElementOfSeq
  <2>2. y \in Seq(Marked) /\ Len(y) = (IF p + 1 <= Len(t) THEN Len(t) - (p + 1) + 1 ELSE 0)
        /\ \A k \in 1..(Len(t) - (p + 1) + 1) : y[k] = t[(p + 1) + k - 1]
    BY <1>0, <2>1, SubSeqProperties
  <2> HIDE DEF y
  <2>3. \A k \in 1..(Len(t) - p) : k \in 1..(Len(t) - (p + 1) + 1) /\ (p + 1) + k - 1 = p + k
    BY <1>0
  <2> QED  BY <1>0, <2>2, <2>3
<1> DEFINE u == x \o tag \o y
<1> HIDE DEF x, y
<1>3. /\ x \o tag \in Seq(Marked) /\ Len(x \o tag) = p + n
      /\ \A k \in 1..(p + n) : (x \o tag)[k] = IF k <= p THEN x[k] ELSE tag[k - p]
  BY <1>0, <1>1, ConcatProperties
<1>4. /\ u \in Seq(Marked) /\ Len(u) = Len(t) + n
      /\ \A k \in 1..(Len(t) + n) : u[k] = IF k <= p + n THEN (x \o tag)[k] ELSE y[k - (p + n)]
  <2> DEFINE v == x \o tag
  <2>1. v \in Seq(Marked) /\ Len(v) = p + n /\ Len(v) + Len(y) = Len(t) + n
    BY <1>0, <1>2, <1>3
  <2>0. y \in Seq(Marked)
    BY <1>2
  <2> HIDE DEF v
  <2>2. /\ v \o y \in Seq(Marked) /\ Len(v \o y) = Len(v) + Len(y)
        /\ \A k \in 1..(Len(v) + Len(y)) : (v \o y)[k] = IF k <= Len(v) THEN v[k] ELSE y[k - Len(v)]
    BY ONLY <2>0, <2>1, ConcatProperties
  <2>3. u = v \o y
    BY DEF v
  <2> QED  BY <2>1, <2>2, <2>3 DEF v
<1> HIDE DEF u
<1>5. ASSUME NEW k \in 1..p PROVE u[k] = t[k]
  <2>1. k \in 1..(Len(t) + n) /\ k \in 1..(p + n) /\ k <= p + n /\ k <= p
    BY <1>0
  <2> QED  BY <1>1, <1>3, <1>4, <2>1
<1>6. ASSUME NEW k \in 1..n PROVE u[p + k] = tag[k]
  <2>1. p + k \in 1..(Len(t) + n) /\ p + k \in 1..(p + n) /\ p + k <= p + n /\ ~(p + k <= p) /\ p + k - p = k
    BY <1>0
  <2> QED  BY <1>3, <1>4, <2>1
<1>7. ASSUME NEW k \in (p + 1)..Len(t) PROVE u[k + n] = t[k]
  <2>1. /\ k + n \in 1..(Len(t) + n) /\ ~(k + n <= p + n)
        /\ k + n - (p + n) = k - p /\ k - p \in 1..(Len(t) - p) /\ p + (k - p) = k
    BY <1>0
  <2>2. u[k + n] = y[k + n - (p + n)]
    BY <1>4, <2>1
  <2>3. y[k - p] = t[p + (k - p)]
    BY <1>2, <2>1
  <2> QED  BY <2>1, <2>2, <2>3
<1>8. ASSUME NEW k \in 1..Len(t)
      PROVE  u[Shifted(p, n, k)] = t[k] /\ Shifted(p, n, k) \in 1..(Len(t) + n)
  <2>1. k \in 1..p \/ k \in (p + 1)..Len(t)
    BY <1>0
  <2>2. CASE k \in 1..p
    <3>1. Shifted(p, n, k) = k /\ k \in 1..(Len(t) + n)
      BY <1>0, <2>2 DEF Shifted
    <3> QED  BY <1>5, <2>2, <3>1
  <2>3. CASE k \in (p + 1)..Len(t)
    <3>1. Shifted(p, n, k) = k + n /\ k + n \in 1..(Len(t) + n)
      BY <1>0, <2>3 DEF Shifted
    <3> QED  BY <1>7, <2>3, <3>1
  <2> QED  BY <2>1, <2>2, <2>3
<1>9. Insert(t, p, tag) = u
  BY DEF Insert, u, x, y
<1> QED  BY <1>4, <1>5, <1>6, <1>7, <1>8, <1>9

\* The tags of a text stay, each as it was, and there is one more.
LEMMA InsertedTags ==
  ASSUME NEW t \in Seq(Marked), NEW p \in 0..Len(t), Between(t, p), NEW tag \in TwoTags
  PROVE  LET u == Insert(t, p, tag)
             n == Len(tag)
         IN  /\ p + 1 \in TagsOf(u, tag)
             /\ \A x \in TwoTags : \A k \in TagsOf(t, x) : Shifted(p, n, k) \in TagsOf(u, x)
             /\ \A x \in TwoTags : \A j \in TagsOf(u, x) :
                  \/ j = p + 1 /\ x = tag
                  \/ \E k \in TagsOf(t, x) : j = Shifted(p, n, k)
<1> DEFINE u == Insert(t, p, tag)
           n == Len(tag)
<1>0. /\ t \in Seq(Marked) /\ Len(t) \in Nat /\ p \in Nat /\ p <= Len(t) /\ n \in Nat /\ n >= 2
      /\ tag \in Seq(Marked)
  BY TagIs, LenProperties
<1>1. /\ u \in Seq(Marked) /\ Len(u) = Len(t) + n
      /\ \A k \in 1..p : u[k] = t[k]
      /\ \A k \in 1..n : u[p + k] = tag[k]
      /\ \A k \in (p + 1)..Len(t) : u[k + n] = t[k]
  BY <1>0, InsertIs
<1> HIDE DEF u
<1>2. p + 1 \in TagsOf(u, tag)
  <2>1. \A k \in 1..n : (p + 1) + k - 1 = p + k
    BY <1>0
  <2>2. p + 1 \in Nat \ {0} /\ (p + 1) + n - 1 <= Len(u)
    BY <1>0, <1>1
  <2>3. \A k \in 1..n : u[(p + 1) + k - 1] = tag[k]
    BY <1>1, <2>1
  <2> DEFINE j == p + 1
  <2>4. j \in Nat \ {0} /\ j + Len(tag) - 1 <= Len(u) /\ \A k \in 1..Len(tag) : u[j + k - 1] = tag[k]
    BY <2>2, <2>3
  <2> HIDE DEF j
  <2>5. j \in TagsOf(u, tag)
    BY <1>1, <2>4, TagsOfIs
  <2> QED  BY <2>5 DEF j
<1>3. ASSUME NEW x \in TwoTags, NEW k \in TagsOf(t, x) PROVE Shifted(p, n, k) \in TagsOf(u, x)
  <2>1. /\ k \in Nat \ {0} /\ k + Len(x) - 1 <= Len(t)
        /\ \A m \in 1..Len(x) : t[k + m - 1] = x[m]
    BY <1>0, TagsOfIs
  <2>2. Len(x) \in Nat /\ Len(x) >= 2
    BY TagIs
  <2>3. CASE k <= p
    <3>1. k + Len(x) - 1 <= p
      BY <1>0, <2>1, <2>2, <2>3 DEF Between
    <3>2. ASSUME NEW m \in 1..Len(x) PROVE u[k + m - 1] = x[m]
      <4>1. k + m - 1 \in 1..p
        BY <1>0, <2>1, <2>2, <3>1
      <4> QED  BY <1>1, <2>1, <4>1
    <3>3. k + Len(x) - 1 <= Len(u)
      BY <1>0, <1>1, <2>1, <2>2
    <3>4. k \in TagsOf(u, x)
      BY <1>1, <2>1, <3>2, <3>3, TagsOfIs
    <3> QED  BY <2>3, <3>4 DEF Shifted
  <2>4. CASE ~(k <= p)
    <3>2. ASSUME NEW m \in 1..Len(x) PROVE u[(k + n) + m - 1] = x[m]
      <4>1. k + m - 1 \in (p + 1)..Len(t) /\ (k + n) + m - 1 = (k + m - 1) + n
        BY <1>0, <2>1, <2>2, <2>4
      <4> QED  BY <1>1, <2>1, <4>1
    <3>3. k + n \in Nat \ {0} /\ (k + n) + Len(x) - 1 <= Len(u)
      BY <1>0, <1>1, <2>1, <2>2
    <3>4. k + n \in TagsOf(u, x)
      BY <1>1, <3>2, <3>3, TagsOfIs
    <3> QED  BY <2>4, <3>4 DEF Shifted
  <2> QED  BY <2>3, <2>4
\* A tag of u is not in part the one inserted: no tag has "<" further on.
<1>4. ASSUME NEW x \in TwoTags, NEW j \in TagsOf(u, x)
      PROVE  \/ j = p + 1 /\ x = tag
             \/ \E k \in TagsOf(t, x) : j = Shifted(p, n, k)
  <2>1. /\ j \in Nat \ {0} /\ j + Len(x) - 1 <= Len(u)
        /\ \A m \in 1..Len(x) : u[j + m - 1] = x[m]
        /\ Len(x) \in Nat /\ Len(x) >= 2 /\ x[1] = TagBegin
        /\ \A m \in 1..Len(x) : x[m] = TagBegin => m = 1
    <3>0. u \in Seq(Marked) /\ x \in TwoTags /\ j \in TagsOf(u, x)
      BY <1>1
    <3>1. /\ j \in Nat \ {0} /\ j + Len(x) - 1 <= Len(u)
          /\ \A m \in 1..Len(x) : u[j + m - 1] = x[m]
      BY ONLY <3>0, TagsOfIs
    <3>2. /\ Len(x) \in Nat /\ Len(x) >= 2 /\ x[1] = TagBegin
          /\ \A m \in 1..Len(x) : x[m] = TagBegin => m = 1
      BY TagIs
    <3> QED  BY <3>1, <3>2
  <2>2. u[p + 1] = TagBegin /\ \A m \in 1..n : tag[m] = TagBegin => m = 1
    <3>1. 1 \in 1..n /\ u[p + 1] = tag[1]
      BY <1>0, <1>1
    <3> QED  BY <3>1, TagIs
  <2>3. u[j] = TagBegin
    <3>1. 1 \in 1..Len(x) /\ j + 1 - 1 = j
      BY <2>1
    <3> QED  BY <2>1, <3>1
  <2>4. CASE j <= p
    <3>1. j + Len(x) - 1 <= p
      <4> SUFFICES ASSUME p < j + Len(x) - 1 PROVE FALSE
        BY <1>0, <2>1
      <4> DEFINE m == p + 1 - j + 1
      <4>1. m \in 1..Len(x) /\ m # 1 /\ j + m - 1 = p + 1
        BY <1>0, <2>1, <2>4
      <4> HIDE DEF m
      <4> QED  BY <2>1, <2>2, <4>1
    <3>2. \A m \in 1..Len(x) : t[j + m - 1] = x[m]
      <4> SUFFICES ASSUME NEW m \in 1..Len(x) PROVE t[j + m - 1] = x[m]
        OBVIOUS
      <4>1. j + m - 1 \in 1..p
        BY <1>0, <2>1, <3>1
      <4> QED  BY <1>1, <2>1, <4>1
    <3>3. j + Len(x) - 1 <= Len(t)
      BY <1>0, <2>1, <3>1
    <3>4. j \in TagsOf(t, x)
      BY <1>0, <2>1, <3>2, <3>3, TagsOfIs
    <3>5. Shifted(p, n, j) = j
      BY <2>4 DEF Shifted
    <3> QED  BY <3>4, <3>5
  <2>5. CASE p < j /\ j <= p + n
    <3>1. j - p \in 1..n /\ p + (j - p) = j
      BY <1>0, <2>1, <2>5
    <3>2. j - p = 1
      BY <1>1, <2>2, <2>3, <3>1
    <3>3. j = p + 1
      BY <1>0, <2>1, <3>2
    <3>4. x = tag
      BY <1>1, <1>2, <3>3, TagsApart
    <3> QED  BY <3>3, <3>4
  <2>6. CASE p + n < j
    <3> DEFINE k == j - n
    <3>0. j \in Nat /\ Len(x) \in Nat /\ j + Len(x) - 1 <= Len(t) + n
      BY <1>1, <2>1
    <3>1. k \in Nat \ {0} /\ k + Len(x) - 1 <= Len(t) /\ ~(k <= p) /\ k + n = j
      BY ONLY <1>0, <2>6, <3>0
    <3>2. \A m \in 1..Len(x) : t[k + m - 1] = x[m]
      <4> SUFFICES ASSUME NEW m \in 1..Len(x) PROVE t[k + m - 1] = x[m]
        OBVIOUS
      <4>0. m \in 1..Len(x)
        OBVIOUS
      <4>1. k + m - 1 \in (p + 1)..Len(t) /\ (k + m - 1) + n = j + m - 1
        BY ONLY <1>0, <3>0, <3>1, <4>0
      <4>2. u[(k + m - 1) + n] = t[k + m - 1]
        BY <1>1, <4>1
      <4> QED  BY <2>1, <4>1, <4>2
    <3> HIDE DEF k
    <3>3. k \in TagsOf(t, x)
      BY <1>0, <3>1, <3>2, TagsOfIs
    <3>4. Shifted(p, n, k) = j
      BY <3>1 DEF Shifted
    <3> QED  BY <3>3, <3>4
  <2> QED  BY <1>0, <2>1, <2>4, <2>5, <2>6
<1> QED  BY <1>2, <1>3, <1>4 DEF u
------------------------------------------------------------------------------
(* Counting tags. *)

CountBefore(t, tag, k) == Cardinality({j \in TagsOf(t, tag) : j < k})

RedIn(t, k) == CountBefore(t, Open, k) > CountBefore(t, Close, k)

\* No tag is closed before it is opened, and all are closed.
AllClosed(t) ==
  /\ \A k \in 1..(Len(t) + 1) : CountBefore(t, Close, k) <= CountBefore(t, Open, k)
  /\ CountBefore(t, Close, Len(t) + 1) = CountBefore(t, Open, Len(t) + 1)

LEMMA SameSize ==
  ASSUME NEW S, IsFiniteSet(S), NEW T, NEW f \in [S -> T],
         \A x, y \in S : f[x] = f[y] => x = y,
         \A z \in T : \E x \in S : f[x] = z
  PROVE  IsFiniteSet(T) /\ Cardinality(T) = Cardinality(S)
<1>1. f \in Injection(S, T) /\ f \in Surjection(S, T)
  BY DEF Injection, Surjection, IsInjective
<1> QED  BY <1>1, FS_Surjection

LEMMA TagsAreFinite ==
  ASSUME NEW S, NEW t \in Seq(S), NEW tag \in TwoTags
  PROVE  /\ IsFiniteSet(TagsOf(t, tag)) /\ TagsOf(t, tag) \subseteq 1..Len(t)
         /\ \A k : IsFiniteSet({j \in TagsOf(t, tag) : j < k}) /\ CountBefore(t, tag, k) \in Nat
<1>1. Len(t) \in Nat /\ Len(tag) \in Nat /\ Len(tag) >= 2
  BY TagIs, LenProperties
<1>2. TagsOf(t, tag) \subseteq 1..Len(t)
  BY <1>1 DEF TagsOf
<1>3. IsFiniteSet(TagsOf(t, tag))
  <2>1. IsFiniteSet(1..Len(t))
    BY <1>1, FS_Interval
  <2> QED  BY <1>2, <2>1, FS_Subset
<1>4. ASSUME NEW k PROVE IsFiniteSet({j \in TagsOf(t, tag) : j < k}) /\ CountBefore(t, tag, k) \in Nat
  <2>1. {j \in TagsOf(t, tag) : j < k} \in SUBSET TagsOf(t, tag)
    OBVIOUS
  <2>2. IsFiniteSet({j \in TagsOf(t, tag) : j < k})
    BY <1>3, <2>1, FS_Subset
  <2> QED  BY <2>2, FS_CardinalityType DEF CountBefore
<1> QED  BY <1>2, <1>3, <1>4

\* Where position k of the text with the tag was before.
Was(p, n, k) == IF k <= p + 1 THEN k ELSE IF k <= p + n + 1 THEN p + 1 ELSE k - n

LEMMA WasShifted ==
  ASSUME NEW p \in Nat, NEW n \in Nat, n >= 2, NEW k \in Nat, k >= 1
  PROVE  /\ Shifted(p, n, k) \in Nat /\ Shifted(p, n, k) >= 1
         /\ Was(p, n, Shifted(p, n, k)) = k
         /\ p + 1 < Shifted(p, n, k) <=> p < k
         /\ k <= Shifted(p, n, k)
BY DEF Was, Shifted

LEMMA WasBefore ==
  ASSUME NEW q \in Nat, NEW n \in Nat, n >= 2, NEW m \in Nat, q <= m,
         NEW k \in Nat, k >= 1, k <= m + n + 1
  PROVE  /\ Was(q, n, k) \in 1..(m + 1)
         /\ q + 1 < k => q + 1 <= Was(q, n, k)
         /\ k = m + n + 1 => Was(q, n, k) = m + 1 /\ q + 1 < k
BY DEF Was

LEMMA InsertedCount ==
  ASSUME NEW t \in Seq(Marked), NEW p \in 0..Len(t), Between(t, p), NEW tag \in TwoTags,
         NEW x \in TwoTags, NEW k \in Nat
  PROVE  CountBefore(Insert(t, p, tag), x, k)
           = CountBefore(t, x, Was(p, Len(tag), k)) + (IF x = tag /\ p + 1 < k THEN 1 ELSE 0)
<1> DEFINE u == Insert(t, p, tag)
           n == Len(tag)
           o == Was(p, n, k)
           old == {i \in TagsOf(t, x) : i < o}
           moved == {Shifted(p, n, i) : i \in old}
           new == {j \in TagsOf(u, x) : j < k}
<1>0. /\ t \in Seq(Marked) /\ Len(t) \in Nat /\ p \in Nat /\ p <= Len(t) /\ n \in Nat /\ n >= 2
  BY TagIs, LenProperties
<1>1. /\ u \in Seq(Marked)
      /\ p + 1 \in TagsOf(u, tag)
      /\ \A i \in TagsOf(t, x) : Shifted(p, n, i) \in TagsOf(u, x)
      /\ \A j \in TagsOf(u, x) : \/ j = p + 1 /\ x = tag
                                 \/ \E i \in TagsOf(t, x) : j = Shifted(p, n, i)
  BY <1>0, InsertedTags, InsertIs
<1>2. TagsOf(t, x) \subseteq Nat \ {0}
  BY <1>0, TagsApart
<1>3. ASSUME NEW i \in Nat
      PROVE  (i < o <=> Shifted(p, n, i) < k) /\ Shifted(p, n, i) # p + 1 /\ Shifted(p, n, i) \in Nat
  BY <1>0 DEF Was, Shifted
<1>4. IsFiniteSet(old) /\ CountBefore(t, x, o) = Cardinality(old) /\ Cardinality(old) \in Nat
  BY <1>0, TagsAreFinite DEF CountBefore
<1>5. IsFiniteSet(moved) /\ Cardinality(moved) = Cardinality(old)
  <2> DEFINE f == [i \in old |-> Shifted(p, n, i)]
  <2>1. f \in [old -> moved]
    OBVIOUS
  <2>2. \A i, j \in old : f[i] = f[j] => i = j
    BY <1>0, <1>2 DEF Shifted
  <2>3. \A z \in moved : \E i \in old : f[i] = z
    OBVIOUS
  <2> HIDE DEF old, moved, f
  <2> QED  BY <1>4, <2>1, <2>2, <2>3, SameSize
<1>6. p + 1 \notin moved
  BY <1>2, <1>3
<1>7. CASE x = tag /\ p + 1 < k
  <2>1. new = moved \cup {p + 1}
    <3> HIDE DEF u, o
    <3>1. ASSUME NEW j \in new PROVE j \in moved \cup {p + 1}
      <4>1. j = p + 1 \/ \E i \in TagsOf(t, x) : j = Shifted(p, n, i)
        BY <1>1, <3>1
      <4> QED  BY <1>2, <1>3, <3>1, <4>1
    <3>2. ASSUME NEW j \in moved PROVE j \in new
      BY <1>1, <1>2, <1>3, <3>2
    <3>3. p + 1 \in new
      BY <1>1, <1>7
    <3> QED  BY <3>1, <3>2, <3>3
  <2>2. Cardinality(new) = Cardinality(old) + 1
    <3> HIDE DEF old, moved, new
    <3> QED  BY <1>5, <1>6, <2>1, FS_AddElement
  <2> QED  BY <1>4, <1>7, <2>2 DEF CountBefore
<1>8. CASE ~(x = tag /\ p + 1 < k)
  <2>1. new = moved
    <3> HIDE DEF u, o
    <3>1. ASSUME NEW j \in new PROVE j \in moved
      <4>1. \E i \in TagsOf(t, x) : j = Shifted(p, n, i)
        BY <1>1, <1>8, <3>1
      <4> QED  BY <1>2, <1>3, <3>1, <4>1
    <3>2. ASSUME NEW j \in moved PROVE j \in new
      BY <1>1, <1>2, <1>3, <3>2
    <3> QED  BY <3>1, <3>2
  <2>2. Cardinality(new) = Cardinality(old) + 0
    <3> HIDE DEF old, moved, new
    <3> QED  BY <1>4, <1>5, <2>1
  <2> QED  BY <1>4, <1>8, <2>2 DEF CountBefore
<1> QED  BY <1>7, <1>8

\* A word put in tags: what is between them is red, and what was red stays so.
LEMMA PairInserted ==
  ASSUME NEW t \in Seq(Marked), AllClosed(t),
         NEW p \in 0..Len(t), Between(t, p),
         NEW opened, opened = Insert(t, p, Open),
         NEW q \in (p + Len(Open))..Len(opened), Between(opened, q),
         NEW u, u = Insert(opened, q, Close)
  PROVE  /\ opened \in Seq(Marked) /\ u \in Seq(Marked) /\ AllClosed(u)
         /\ \A k \in 1..Len(t) :
              LET j == Shifted(p, Len(Open), k)
                  m == Shifted(q, Len(Close), j)
              IN  /\ RedIn(t, k) => RedIn(u, m)
                  /\ p < k /\ j <= q => RedIn(u, m)
<1> DEFINE la == Len(Open)
           lc == Len(Close)
<1>0. /\ Open \in TwoTags /\ Close \in TwoTags /\ Open # Close
      /\ la \in Nat /\ la >= 2 /\ lc \in Nat /\ lc >= 2
  BY TagIs, TagsAssumption DEF TwoTags
<1>1. opened \in Seq(Marked) /\ t \in Seq(Marked) /\ Len(t) \in Nat /\ Len(opened) = Len(t) + la
  BY <1>0, InsertIs, LenProperties
<1>2. q \in 0..Len(opened) /\ p \in Nat /\ q \in Nat /\ p <= Len(t) /\ p + la <= q /\ q <= Len(t) + la
  BY <1>0, <1>1
<1>3. u \in Seq(Marked) /\ Len(u) = Len(t) + la + lc
  BY <1>0, <1>1, <1>2, InsertIs
<1> DEFINE old(k) == Was(p, la, Was(q, lc, k))
<1>4. ASSUME NEW k \in Nat
      PROVE  /\ CountBefore(u, Open, k) = CountBefore(t, Open, old(k)) + (IF p + 1 < Was(q, lc, k) THEN 1 ELSE 0)
             /\ CountBefore(u, Close, k) = CountBefore(t, Close, old(k)) + (IF q + 1 < k THEN 1 ELSE 0)
  <2>1. Was(q, lc, k) \in Nat
    BY <1>0, <1>2 DEF Was
  <2>0. k \in Nat /\ Between(opened, q) /\ u = Insert(opened, q, Close)
    OBVIOUS
  <2>2. /\ CountBefore(u, Open, k) = CountBefore(opened, Open, Was(q, lc, k)) + 0
        /\ CountBefore(u, Close, k) = CountBefore(opened, Close, Was(q, lc, k)) + (IF q + 1 < k THEN 1 ELSE 0)
    <3>1. CountBefore(u, Open, k) = CountBefore(opened, Open, Was(q, lc, k)) + 0
      BY ONLY <1>0, <1>1, <1>2, <2>0, InsertedCount
    <3>2. CountBefore(u, Close, k) = CountBefore(opened, Close, Was(q, lc, k)) + (IF q + 1 < k THEN 1 ELSE 0)
      BY ONLY <1>0, <1>1, <1>2, <2>0, InsertedCount
    <3> QED  BY <3>1, <3>2
  <2> DEFINE v == Was(q, lc, k)
  <2>3. v \in Nat
    BY <2>1
  <2> HIDE DEF v
  <2>4. /\ CountBefore(opened, Open, v) = CountBefore(t, Open, Was(p, la, v)) + (IF p + 1 < v THEN 1 ELSE 0)
        /\ CountBefore(opened, Close, v) = CountBefore(t, Close, Was(p, la, v)) + 0
    BY <1>0, <1>1, <2>3, InsertedCount
  <2>5. CountBefore(t, Open, Was(p, la, v)) \in Nat /\ CountBefore(t, Close, Was(p, la, v)) \in Nat
    BY <1>0, <1>1, TagsAreFinite
  <2>6. /\ CountBefore(u, Open, k) = CountBefore(t, Open, Was(p, la, v)) + (IF p + 1 < v THEN 1 ELSE 0)
        /\ CountBefore(u, Close, k) = CountBefore(t, Close, Was(p, la, v)) + (IF q + 1 < k THEN 1 ELSE 0)
    <3>1. CountBefore(u, Open, k) = CountBefore(opened, Open, v) + 0
          /\ CountBefore(u, Close, k) = CountBefore(opened, Close, v) + (IF q + 1 < k THEN 1 ELSE 0)
      BY <2>2 DEF v
    <3> QED  BY <2>4, <2>5, <3>1
  <2> QED  BY <2>6 DEF v
<1>5. \A k : CountBefore(t, Open, k) \in Nat /\ CountBefore(t, Close, k) \in Nat
  BY <1>0, <1>1, TagsAreFinite
<1>6. ASSUME NEW k \in 1..(Len(u) + 1)
      PROVE  /\ old(k) \in 1..(Len(t) + 1) /\ k \in Nat
             /\ q + 1 < k => p + 1 < Was(q, lc, k)
             /\ k = Len(u) + 1 => old(k) = Len(t) + 1 /\ q + 1 < k
  <2> DEFINE v == Was(q, lc, k)
  <2>1. k \in Nat /\ k <= Len(t) + la + lc + 1 /\ 1 <= k
    BY <1>0, <1>1, <1>3
  <2>2. /\ v \in Nat /\ 1 <= v /\ v <= Len(t) + la + 1
        /\ q + 1 < k => p + 1 < v
        /\ k = Len(u) + 1 => v = Len(t) + la + 1 /\ q + 1 < k
    <3> DEFINE m == Len(t) + la
    <3>1. m \in Nat /\ q <= m /\ k <= m + lc + 1 /\ Len(u) = m + lc /\ p + 1 < q + 1
      BY <1>0, <1>1, <1>2, <1>3, <2>1
    <3> HIDE DEF m
    <3>2. /\ v \in 1..(m + 1)
          /\ q + 1 < k => q + 1 <= v
          /\ k = m + lc + 1 => v = m + 1 /\ q + 1 < k
      BY <1>0, <1>2, <2>1, <3>1, WasBefore
    <3> HIDE DEF v
    <3>3. q + 1 < k => p + 1 < v
      BY <1>2, <3>1, <3>2
    <3> QED  BY <3>1, <3>2, <3>3 DEF m
  <2> HIDE DEF v
  <2>3. /\ Was(p, la, v) \in 1..(Len(t) + 1)
        /\ v = Len(t) + la + 1 => Was(p, la, v) = Len(t) + 1
    <3>1. /\ v \in Nat /\ v >= 1 /\ v <= Len(t) + la + 1
          /\ p \in Nat /\ p <= Len(t) /\ Len(t) \in Nat /\ la \in Nat /\ la >= 2
      BY <1>0, <1>1, <1>2, <2>2
    <3> HIDE DEF la
    <3>2. /\ Was(p, la, v) \in 1..(Len(t) + 1)
          /\ v = Len(t) + la + 1 => Was(p, la, v) = Len(t) + 1
      BY ONLY <3>1 DEF Was
    <3> QED  BY <3>2
  <2> QED  BY <2>1, <2>2, <2>3 DEF v
<1>7. AllClosed(u)
  <2>1. ASSUME NEW k \in 1..(Len(u) + 1) PROVE CountBefore(u, Close, k) <= CountBefore(u, Open, k)
    <3>1. CountBefore(t, Close, old(k)) <= CountBefore(t, Open, old(k))
      BY <1>6 DEF AllClosed
    <3> HIDE DEF old
    <3>2. k \in Nat /\ (q + 1 < k => p + 1 < Was(q, lc, k))
      BY <1>6
    <3>3. /\ CountBefore(u, Open, k) = CountBefore(t, Open, old(k)) + (IF p + 1 < Was(q, lc, k) THEN 1 ELSE 0)
          /\ CountBefore(u, Close, k) = CountBefore(t, Close, old(k)) + (IF q + 1 < k THEN 1 ELSE 0)
      BY <1>4, <3>2
    <3> QED  BY <1>5, <3>1, <3>2, <3>3
  <2>2. CountBefore(u, Close, Len(u) + 1) = CountBefore(u, Open, Len(u) + 1)
    <3>0. Len(u) + 1 \in 1..(Len(u) + 1)
      BY <1>0, <1>1, <1>3
    <3>1. CountBefore(t, Close, old(Len(u) + 1)) = CountBefore(t, Open, old(Len(u) + 1))
      BY <1>6, <3>0 DEF AllClosed
    <3> DEFINE k == Len(u) + 1
    <3>2. k \in 1..(Len(u) + 1) /\ k = Len(u) + 1 /\ CountBefore(t, Close, old(k)) = CountBefore(t, Open, old(k))
      BY <3>0, <3>1
    <3> HIDE DEF old, k
    <3>3. CountBefore(u, Close, k) = CountBefore(u, Open, k)
      <4>1. k \in Nat /\ q + 1 < k /\ p + 1 < Was(q, lc, k)
        BY <1>6, <3>2
      <4>2. /\ CountBefore(u, Open, k) = CountBefore(t, Open, old(k)) + 1
            /\ CountBefore(u, Close, k) = CountBefore(t, Close, old(k)) + 1
        BY <1>4, <4>1
      <4> QED  BY ONLY <3>2, <4>2
    <3> QED  BY <3>3 DEF k
  <2> QED  BY <2>1, <2>2 DEF AllClosed
<1>8. ASSUME NEW k \in 1..Len(t)
      PROVE  LET j == Shifted(p, la, k)
                 m == Shifted(q, lc, j)
             IN  /\ RedIn(t, k) => RedIn(u, m)
                 /\ p < k /\ j <= q => RedIn(u, m)
  <2> DEFINE j == Shifted(p, la, k)
             m == Shifted(q, lc, j)
  <2>1. /\ m \in Nat /\ k \in 1..(Len(t) + 1)
        /\ old(m) = k
        /\ p + 1 < Was(q, lc, m) <=> p < k
        /\ q + 1 < m <=> q < j
        /\ q < j => p < k
    <3>1. k \in Nat /\ k >= 1 /\ k \in 1..(Len(t) + 1)
      BY <1>1
    <3>2. j \in Nat /\ j >= 1 /\ Was(p, la, j) = k /\ (p + 1 < j <=> p < k) /\ k <= j
      BY <1>0, <1>2, <3>1, WasShifted
    <3> HIDE DEF j
    <3>3. m \in Nat /\ Was(q, lc, m) = j /\ (q + 1 < m <=> q < j)
      BY <1>0, <1>2, <3>2, WasShifted
    <3> HIDE DEF m
    <3>4. old(m) = k
      BY <3>2, <3>3
    <3>5. q < j => p < k
      BY <1>0, <1>2, <3>1, <3>2
    <3> QED  BY <3>1, <3>2, <3>3, <3>4, <3>5
  <2>2. old(m) = k
    BY <2>1
  <2>3. CountBefore(t, Close, k) <= CountBefore(t, Open, k)
    BY <2>1 DEF AllClosed
  <2> HIDE DEF old, m, j
  <2>4. /\ CountBefore(u, Open, m) = CountBefore(t, Open, k) + (IF p < k THEN 1 ELSE 0)
        /\ CountBefore(u, Close, m) = CountBefore(t, Close, k) + (IF q < j THEN 1 ELSE 0)
    BY <1>4, <2>1, <2>2
  <2>5. j \in Nat
    BY <1>0, <1>1, <1>2 DEF j, Shifted
  <2>6. /\ RedIn(t, k) => RedIn(u, m)
        /\ p < k /\ j <= q => RedIn(u, m)
    BY <1>2, <1>5, <2>1, <2>3, <2>4, <2>5 DEF RedIn
  <2> QED  BY <2>6 DEF m, j
<1> QED  BY <1>1, <1>3, <1>7, <1>8
------------------------------------------------------------------------------
(* What is read between the tags. *)

\* v is where the characters of raw stand in t: outside of tags, in order.
Reads(t, raw, v) ==
  /\ v \in [1..Len(raw) -> VisibleIn(t)]
  /\ \A m, n \in 1..Len(raw) : m < n => v[m] < v[n]
  /\ \A k \in VisibleIn(t) : \E n \in 1..Len(raw) : v[n] = k
  /\ \A n \in 1..Len(raw) : t[v[n]] = raw[n]

LEMMA InsertedVisible ==
  ASSUME NEW t \in Seq(Marked), NEW p \in 0..Len(t), Between(t, p), NEW tag \in TwoTags
  PROVE  LET u == Insert(t, p, tag)
             n == Len(tag)
         IN  /\ \A k \in VisibleIn(t) : Shifted(p, n, k) \in VisibleIn(u)
             /\ \A j \in VisibleIn(u) : \E k \in VisibleIn(t) : j = Shifted(p, n, k)
<1> DEFINE u == Insert(t, p, tag)
           n == Len(tag)
<1>0. /\ t \in Seq(Marked) /\ Len(t) \in Nat /\ p \in Nat /\ p <= Len(t) /\ n \in Nat /\ n >= 2
  BY TagIs, LenProperties
<1>1. /\ u \in Seq(Marked) /\ Len(u) = Len(t) + n
      /\ p + 1 \in TagsOf(u, tag)
      /\ \A x \in TwoTags : \A i \in TagsOf(t, x) : Shifted(p, n, i) \in TagsOf(u, x)
      /\ \A x \in TwoTags : \A j \in TagsOf(u, x) :
           \/ j = p + 1 /\ x = tag
           \/ \E i \in TagsOf(t, x) : j = Shifted(p, n, i)
  BY <1>0, InsertedTags, InsertIs
<1>2. ASSUME NEW x \in TwoTags, NEW i \in TagsOf(t, x)
      PROVE  /\ i \in Nat \ {0} /\ Len(x) \in Nat /\ Len(x) >= 2
             /\ i <= p => i + Len(x) - 1 <= p
  <2>1. i \in Nat \ {0} /\ Len(x) \in Nat /\ Len(x) >= 2
    BY <1>0, TagsApart, TagIs
  <2> QED  BY <1>0, <2>1 DEF Between
\* A position is in a tag exactly if the shifted one is.
<1>3. ASSUME NEW k \in Nat, NEW x \in TwoTags, NEW i \in TagsOf(t, x)
      PROVE  k \in i..(i + Len(x) - 1)
               <=> Shifted(p, n, k) \in Shifted(p, n, i)..(Shifted(p, n, i) + Len(x) - 1)
  BY <1>0, <1>2 DEF Shifted
<1>4. ASSUME NEW k \in VisibleIn(t) PROVE Shifted(p, n, k) \in VisibleIn(u)
  <2>1. k \in 1..Len(t) /\ k \in Nat /\ \A x \in TwoTags : \A i \in TagsOf(t, x) : k \notin i..(i + Len(x) - 1)
    BY DEF VisibleIn
  <2>2. Shifted(p, n, k) \in 1..Len(u)
    BY <1>0, <1>1, <2>1 DEF Shifted
  <2>3. ASSUME NEW x \in TwoTags, NEW j \in TagsOf(u, x) PROVE Shifted(p, n, k) \notin j..(j + Len(x) - 1)
    <3>1. CASE j = p + 1 /\ x = tag
      BY <1>0, <2>1, <3>1 DEF Shifted
    <3>2. CASE \E i \in TagsOf(t, x) : j = Shifted(p, n, i)
      BY <1>3, <2>1, <3>2
    <3> QED  BY <1>1, <3>1, <3>2
  <2> QED  BY <2>2, <2>3 DEF VisibleIn
<1>5. ASSUME NEW j \in VisibleIn(u) PROVE \E k \in VisibleIn(t) : j = Shifted(p, n, k)
  <2>1. j \in 1..Len(u) /\ \A x \in TwoTags : \A i \in TagsOf(u, x) : j \notin i..(i + Len(x) - 1)
    BY DEF VisibleIn
  <2>2. j \notin (p + 1)..((p + 1) + n - 1)
    BY <1>1, <2>1
  <2> DEFINE k == IF j <= p THEN j ELSE j - n
  <2>3. k \in 1..Len(t) /\ k \in Nat /\ j = Shifted(p, n, k)
    BY <1>0, <1>1, <2>1, <2>2 DEF Shifted
  <2> HIDE DEF k
  <2>4. ASSUME NEW x \in TwoTags, NEW i \in TagsOf(t, x) PROVE k \notin i..(i + Len(x) - 1)
    BY <1>1, <1>3, <2>1, <2>3
  <2> QED  BY <2>3, <2>4 DEF VisibleIn
<1> QED  BY <1>4, <1>5

LEMMA InsertedReads ==
  ASSUME NEW t \in Seq(Marked), NEW p \in 0..Len(t), Between(t, p), NEW tag \in TwoTags,
         NEW raw, NEW v, Reads(t, raw, v)
  PROVE  Reads(Insert(t, p, tag), raw, [m \in 1..Len(raw) |-> Shifted(p, Len(tag), v[m])])
<1> DEFINE u == Insert(t, p, tag)
           n == Len(tag)
           z == [m \in 1..Len(raw) |-> Shifted(p, n, v[m])]
<1>0. /\ t \in Seq(Marked) /\ Len(t) \in Nat /\ p \in Nat /\ n \in Nat
      /\ VisibleIn(t) \subseteq 1..Len(t)
  BY TagIs, LenProperties DEF VisibleIn
<1>1. /\ \A k \in VisibleIn(t) : Shifted(p, n, k) \in VisibleIn(u)
      /\ \A j \in VisibleIn(u) : \E k \in VisibleIn(t) : j = Shifted(p, n, k)
  BY InsertedVisible
<1>2. \A k \in 1..Len(t) : u[Shifted(p, n, k)] = t[k]
  BY <1>0, InsertIs
<1> HIDE DEF u, n
<1>3. z \in [1..Len(raw) -> VisibleIn(u)]
  BY <1>1 DEF Reads
<1>4. ASSUME NEW i \in 1..Len(raw), NEW j \in 1..Len(raw), i < j PROVE z[i] < z[j]
  <2>1. v[i] \in Nat /\ v[j] \in Nat /\ v[i] < v[j]
    BY <1>0, <1>4 DEF Reads
  <2>2. Shifted(p, n, v[i]) < Shifted(p, n, v[j])
    BY <1>0, <2>1 DEF Shifted
  <2> QED  BY <2>2
<1>5. ASSUME NEW j \in VisibleIn(u) PROVE \E m \in 1..Len(raw) : z[m] = j
  BY <1>1 DEF Reads
<1>6. \A m \in 1..Len(raw) : u[z[m]] = raw[m]
  BY <1>0, <1>2 DEF Reads
<1>7. Reads(u, raw, z)
  <2> HIDE DEF z
  <2> QED  BY <1>3, <1>4, <1>5, <1>6 DEF Reads
<1> QED  BY <1>7 DEF u, n
------------------------------------------------------------------------------
(* Words in a text with tags. *)

\* str stands in t behind position i.
StandsIn(t, str, i) == i \in 0..(Len(t) - Len(str)) /\ \A m \in 1..Len(str) : t[i + m] = str[m]

LEMMA NextInIs ==
  ASSUME NEW S, NEW t \in Seq(S), NEW T, NEW str \in Seq(T), NEW pos \in Nat
  PROVE  LET found == Next_in(t, str, pos)
         IN  \/ found = None /\ \A i \in Nat : StandsIn(t, str, i) => i < pos
             \/ /\ found \in Nat /\ found >= pos /\ StandsIn(t, str, found)
                /\ \A i \in Nat : StandsIn(t, str, i) => i < pos \/ found <= i
<1> DEFINE hits == {i \in pos..(Len(t) - Len(str)) : SubSeq(t, i + 1, i + Len(str)) = str}
<1>0. Len(t) \in Nat /\ Len(str) \in Nat
  BY LenProperties
<1>1. ASSUME NEW i \in 0..(Len(t) - Len(str))
      PROVE  SubSeq(t, i + 1, i + Len(str)) = str <=> \A m \in 1..Len(str) : t[i + m] = str[m]
  <2> DEFINE head == i + 1
             tail == i + Len(str)
             q == SubSeq(t, head, tail)
  <2>1. \A j \in head..tail : t[j] \in S
    <3>1. \A j \in head..tail : j \in 1..Len(t)
      BY <1>0
    <3> QED  BY <1>0, <3>1, ElementOfSeq
  <2>2. head \in Int /\ tail \in Int /\ tail - head + 1 = Len(str) /\ \A m \in Int : head + m - 1 = i + m
    BY <1>0
  <2> HIDE DEF head, tail
  <2>3. /\ q \in Seq(S)
        /\ Len(q) = (IF head <= tail THEN tail - head + 1 ELSE 0)
        /\ \A m \in 1..(tail - head + 1) : q[m] = t[head + m - 1]
    <3>1. head \in Int /\ tail \in Int
      BY <2>2
    <3> QED  BY ONLY <2>1, <3>1, SubSeqProperties
  <2> HIDE DEF q
  <2>4. Len(q) = Len(str) /\ \A m \in 1..Len(str) : q[m] = t[i + m]
    BY <1>0, <2>2, <2>3
  <2>5. ASSUME \A m \in 1..Len(str) : q[m] = str[m] PROVE q = str
    <3>1. q \in [1..Len(str) -> S] /\ str \in [1..Len(str) -> T]
      BY <2>3, <2>4, LenProperties
    <3> QED  BY <2>5, <3>1
  <2>6. q = str <=> \A m \in 1..Len(str) : t[i + m] = str[m]
    BY <2>4, <2>5
  <2> QED  BY <2>6 DEF q, head, tail
<1>2. ASSUME NEW i \in Nat PROVE i \in hits <=> pos <= i /\ StandsIn(t, str, i)
  <2>1. i \in hits <=> /\ pos <= i /\ i \in 0..(Len(t) - Len(str))
                       /\ SubSeq(t, i + 1, i + Len(str)) = str
    BY <1>0
  <2>2. CASE i \in 0..(Len(t) - Len(str))
    BY <1>1, <2>1, <2>2 DEF StandsIn
  <2>3. CASE i \notin 0..(Len(t) - Len(str))
    BY <2>1, <2>3 DEF StandsIn
  <2> QED  BY <2>2, <2>3
<1>3. hits \subseteq Nat
  BY <1>0
<1>4. Next_in(t, str, pos) = IF hits = {} THEN None ELSE Min(hits)
  BY DEF Next_in
<1>5. ASSUME hits # {} PROVE Min(hits) \in hits /\ \A i \in hits : Min(hits) <= i
  <2> HIDE DEF hits
  <2>1. \E i \in hits : \A j \in hits : i <= j
    BY <1>3, <1>5, LeastNumber
  <2> QED  BY <2>1 DEF Min
<1> DEFINE least == Min(hits)
<1> HIDE DEF hits
<1>6. CASE hits = {}
  BY <1>2, <1>4, <1>6
<1>7. CASE hits # {}
  <2>1. least \in hits /\ least \in Nat /\ \A i \in hits : least <= i
    BY <1>3, <1>5, <1>7
  <2> HIDE DEF least
  <2>2. pos <= least /\ StandsIn(t, str, least)
        /\ \A i \in Nat : StandsIn(t, str, i) => i < pos \/ least <= i
    BY <1>2, <2>1
  <2>3. Next_in(t, str, pos) = least
    BY <1>4, <1>7 DEF least
  <2> QED  BY <2>1, <2>2, <2>3
<1> QED  BY <1>6, <1>7

\* Where str stands in t it has no position in common with a tag.
Apart(t, str) ==
  \A i : StandsIn(t, str, i) =>
    \A tag \in TwoTags : \A k \in TagsOf(t, tag) : i + Len(str) < k \/ k + Len(tag) - 1 <= i

LEMMA SafeWordIsApart ==
  ASSUME NEW S, NEW t \in Seq(S), NEW T, NEW str \in Seq(T), Len(str) > 0,
         ~InMarkup(str), {TagBegin, TagEnd} \cap Range(str) = {}
  PROVE  Apart(t, str)
<1> SUFFICES ASSUME NEW i, StandsIn(t, str, i), NEW tag \in TwoTags, NEW k \in TagsOf(t, tag),
                    ~(i + Len(str) < k), ~(k + Len(tag) - 1 <= i)
             PROVE  FALSE
  BY DEF Apart
<1> DEFINE n == Len(str)
           e == k + Len(tag) - 1
<1>0. /\ Len(t) \in Nat /\ n \in Nat /\ n > 0 /\ Len(tag) \in Nat /\ Len(tag) >= 2
      /\ tag \in Seq(Marked) /\ tag[1] = TagBegin /\ tag[Len(tag)] = TagEnd
  BY TagIs, LenProperties
<1>1. k \in Nat \ {0} /\ e <= Len(t) /\ \A m \in 1..Len(tag) : t[k + m - 1] = tag[m]
  BY TagsOfIs
<1>2. i \in Nat /\ \A m \in 1..n : t[i + m] = str[m]
  BY <1>0 DEF StandsIn
<1>3. \A m \in 1..n : str[m] # TagBegin /\ str[m] # TagEnd
  <2>1. \A m \in 1..n : str[m] \in Range(str)
    BY <1>0 DEF Range
  <2> QED  BY <2>1
<1>4. t[k] = TagBegin /\ t[e] = TagEnd /\ e \in Nat
  <2>1. 1 \in 1..Len(tag) /\ k + 1 - 1 = k /\ Len(tag) \in 1..Len(tag)
    BY <1>0, <1>1
  <2> QED  BY <1>0, <1>1, <2>1
<1>5. ~(k \in (i + 1)..(i + n)) /\ ~(e \in (i + 1)..(i + n))
  <2>1. ASSUME NEW j \in (i + 1)..(i + n) PROVE t[j] # TagBegin /\ t[j] # TagEnd
    <3>1. j - i \in 1..n /\ i + (j - i) = j
      BY <1>0, <1>2
    <3> QED  BY <1>2, <1>3, <3>1
  <2> QED  BY <1>4, <2>1
<1>6. k <= i /\ i + n < e
  BY <1>0, <1>1, <1>2, <1>4, <1>5
\* The word would be found in the tag.
<1>7. StandsIn(tag, str, i - k + 1) /\ i - k + 1 \in Nat
  <2>1. i - k + 1 \in 0..(Len(tag) - n) /\ i - k + 1 \in Nat
    BY <1>0, <1>1, <1>2, <1>6
  <2>2. ASSUME NEW m \in 1..n PROVE tag[(i - k + 1) + m] = str[m]
    <3>1. (i - k + 1) + m \in 1..Len(tag) /\ k + ((i - k + 1) + m) - 1 = i + m
      BY <1>0, <1>1, <1>2, <1>6
    <3> QED  BY <1>1, <1>2, <3>1
  <2> QED  BY <2>1, <2>2 DEF StandsIn
<1>8. Next_in(tag, str, 0) # None
  <2> DEFINE j == i - k + 1
  <2>1. j \in Nat /\ StandsIn(tag, str, j) /\ ~(j < 0)
    BY <1>7
  <2> HIDE DEF j
  <2> QED  BY <1>0, <2>1, NextInIs DEF None
<1> QED  BY <1>8 DEF InMarkup, TwoTags

LEMMA NoTags ==
  ASSUME NEW t, \A tag \in TwoTags : TagsOf(t, tag) = {}
  PROVE  /\ AllClosed(t) /\ VisibleIn(t) = 1..Len(t)
         /\ \A str : Apart(t, str)
<1>1. VisibleIn(t) = 1..Len(t) /\ \A str : Apart(t, str)
  BY DEF VisibleIn, Apart
<1>2. \A k : CountBefore(t, Open, k) = 0 /\ CountBefore(t, Close, k) = 0
  <2>1. \A k : /\ {j \in TagsOf(t, Open) : j < k} = {}
               /\ {j \in TagsOf(t, Close) : j < k} = {}
    BY DEF TwoTags
  <2> QED  BY <2>1, FS_EmptySet DEF CountBefore
<1>3. AllClosed(t)
  BY <1>2 DEF AllClosed
<1> QED  BY <1>1, <1>3

\* Behind a tag just inserted, and further on as long as no tag is divided.
LEMMA InsertedBetween ==
  ASSUME NEW t \in Seq(Marked), NEW p \in 0..Len(t), Between(t, p), NEW tag \in TwoTags
  PROVE  Between(Insert(t, p, tag), p + Len(tag))
<1> DEFINE u == Insert(t, p, tag)
           n == Len(tag)
<1>0. /\ t \in Seq(Marked) /\ Len(t) \in Nat /\ p \in Nat /\ n \in Nat /\ n >= 2
  BY TagIs, LenProperties
<1>1. \A x \in TwoTags : \A j \in TagsOf(u, x) : \/ j = p + 1 /\ x = tag
                                                 \/ \E i \in TagsOf(t, x) : j = Shifted(p, n, i)
  BY InsertedTags
<1> SUFFICES ASSUME NEW x \in TwoTags, NEW j \in TagsOf(u, x), j <= p + n, p + n < j + Len(x) - 1
             PROVE  FALSE
  BY DEF Between
<1> HIDE DEF u
<1>2. CASE j = p + 1 /\ x = tag
  BY <1>0, <1>2
<1>3. CASE \E i \in TagsOf(t, x) : j = Shifted(p, n, i)
  <2>1. PICK i \in TagsOf(t, x) : j = Shifted(p, n, i)
    BY <1>3
  <2>2. i \in Nat \ {0} /\ Len(x) \in Nat /\ Len(x) >= 2
    BY <1>0, TagsApart, TagIs
  <2>3. i <= p => i + Len(x) - 1 <= p
    BY <1>0, <2>2 DEF Between
  <2>4. j <= p + n /\ p + n < j + Len(x) - 1
    OBVIOUS
  <2> QED  BY ONLY <1>0, <2>1, <2>2, <2>3, <2>4 DEF Shifted
<1> QED  BY <1>1, <1>2, <1>3

LEMMA BetweenGoesOn ==
  ASSUME NEW l \in Seq(Marked), NEW t \in Seq(Marked), NEW o \in Nat, Len(t) = Len(l) + o,
         NEW start \in Nat, Between(t, start + o),
         \A m \in (start + 1)..Len(l) : t[m + o] = l[m],
         NEW e \in start..Len(l), Between(l, e)
  PROVE  Between(t, e + o)
<1> SUFFICES ASSUME NEW tag \in TwoTags, NEW k \in TagsOf(t, tag), k <= e + o, e + o < k + Len(tag) - 1
             PROVE  FALSE
  BY DEF Between
<1>0. Len(l) \in Nat /\ Len(tag) \in Nat /\ Len(tag) >= 2 /\ e \in Nat
  BY TagIs, LenProperties
<1>1. k \in Nat \ {0} /\ k + Len(tag) - 1 <= Len(t) /\ \A m \in 1..Len(tag) : t[k + m - 1] = tag[m]
  <2>1. t \in Seq(Marked) /\ tag \in TwoTags /\ k \in TagsOf(t, tag)
    OBVIOUS
  <2> QED  BY ONLY <2>1, TagsOfIs
<1>2. start + o < k
  <2>1. ~(k <= start + o /\ start + o < k + Len(tag) - 1)
    BY DEF Between
  <2>2. start + o <= e + o
    BY <1>0
  <2> QED  BY <1>0, <1>1, <2>1, <2>2
<1> DEFINE i == k - o
<1>3. i \in Nat \ {0} /\ i + Len(tag) - 1 <= Len(l) /\ i <= e /\ e < i + Len(tag) - 1
  BY <1>0, <1>1, <1>2
<1>4. ASSUME NEW m \in 1..Len(tag) PROVE l[i + m - 1] = tag[m]
  <2>1. i + m - 1 \in (start + 1)..Len(l) /\ (i + m - 1) + o = k + m - 1
    BY <1>0, <1>1, <1>2, <1>3
  <2>2. t[(i + m - 1) + o] = l[i + m - 1]
    BY <2>1
  <2> QED  BY <1>1, <2>1, <2>2
<1> HIDE DEF i
<1>5. i \in TagsOf(l, tag)
  BY <1>3, <1>4, TagsOfIs
<1> QED  BY <1>3, <1>5 DEF Between

LEMMA BetweenAtWord ==
  ASSUME NEW t \in Seq(Marked), NEW str, Len(str) \in Nat, Apart(t, str), NEW i, StandsIn(t, str, i)
  PROVE  Between(t, i) /\ Between(t, i + Len(str)) /\ i \in Nat /\ i + Len(str) <= Len(t)
<1>0. Len(t) \in Nat /\ i \in Nat /\ i + Len(str) <= Len(t)
  BY LenProperties DEF StandsIn
<1>1. ASSUME NEW tag \in TwoTags, NEW k \in TagsOf(t, tag)
      PROVE  ~(k <= i /\ i < k + Len(tag) - 1) /\ ~(k <= i + Len(str) /\ i + Len(str) < k + Len(tag) - 1)
  <2>1. k \in Nat /\ Len(tag) \in Nat /\ Len(tag) >= 2
    BY TagIs, TagsOfIs
  <2>2. i + Len(str) < k \/ k + Len(tag) - 1 <= i
    BY DEF Apart
  <2> QED  BY <1>0, <2>1, <2>2
<1> QED  BY <1>0, <1>1 DEF Between

LEMMA BetweenAtEnd ==
  ASSUME NEW t \in Seq(Marked)
  PROVE  Between(t, Len(t))
<1>1. ASSUME NEW tag \in TwoTags, NEW k \in TagsOf(t, tag) PROVE ~(Len(t) < k + Len(tag) - 1)
  <2>1. k \in Nat /\ Len(tag) \in Nat /\ k + Len(tag) - 1 <= Len(t) /\ Len(t) \in Nat
    BY TagIs, TagsOfIs, LenProperties
  <2> QED  BY <2>1
<1> QED  BY <1>1 DEF Between
------------------------------------------------------------------------------
(* What highlighting the words of a text keeps true. *)

HighlightedAt(l, x, i) ==
  LET after == i + Len(w_trimmed(x))
  IN  /\ i = 0 \/ WildcardInFront(x) \/ l[i] \in Separators
      /\ after = Len(l) \/ WildcardBehind(x) \/ l[after + 1] \in Separators

\* The word of x stands in l behind i, is to be highlighted, and no occurrence
\* before it overlaps it.
Shines(l, x, i) ==
  /\ StandsIn(l, w_trimmed(x), i) /\ HighlightedAt(l, x, i)
  /\ \A j \in Nat : StandsIn(l, w_trimmed(x), j) /\ j < i => j + Len(w_trimmed(x)) <= i

\* y and v are where raw is read in the copy l and in the text t.  There is no
\* less between two characters in t than in l, behind e they are o apart, and
\* what shines before e is red.
SideBySide(l, t, x, e, o, raw, y, v) ==
  /\ Reads(l, raw, y) /\ Reads(t, raw, v)
  /\ \A n \in 1..Len(raw) : n + 1 \in 1..Len(raw) => y[n + 1] - y[n] <= v[n + 1] - v[n]
  /\ \A n \in 1..Len(raw) : e < y[n] => v[n] = y[n] + o
  /\ \A i : Shines(l, x, i) /\ i < e =>
       \A n \in 1..Len(raw) : y[n] \in (i + 1)..(i + Len(w_trimmed(x))) => RedIn(t, v[n])

\* The words of x in l are highlighted in t up to position e, where the offset
\* is o.
Kept(l, t, x, e, o, raw) ==
  /\ l \in Seq(Marked) /\ t \in Seq(Marked) /\ AllClosed(t) /\ Apart(l, w_trimmed(x))
  /\ o \in Nat /\ Len(t) = Len(l) + o /\ e \in 0..Len(l)
  /\ Between(t, e + o)
  /\ \A m \in (e + 1)..Len(l) : t[m + o] = l[m]
  /\ \E y, v : SideBySide(l, t, x, e, o, raw, y, v)

LEMMA ReadsIn ==
  ASSUME NEW S, NEW t \in Seq(S), NEW raw, NEW v, Reads(t, raw, v), NEW n \in 1..Len(raw)
  PROVE  v[n] \in VisibleIn(t) /\ v[n] \in 1..Len(t) /\ v[n] \in Nat
<1>1. v[n] \in VisibleIn(t)
  BY DEF Reads
<1>2. v[n] \in 1..Len(t)
  BY <1>1 DEF VisibleIn
<1>3. Len(t) \in Nat
  BY LenProperties
<1> QED  BY <1>1, <1>2, <1>3

LEMMA ShiftedTwice ==
  ASSUME NEW p \in Nat, NEW la \in Nat, NEW q \in Nat, NEW lc \in Nat,
         NEW j \in Nat, NEW k \in Nat, j < k
  PROVE  LET f == Shifted(q, lc, Shifted(p, la, j))
             g == Shifted(q, lc, Shifted(p, la, k))
         IN  f \in Nat /\ g \in Nat /\ k - j <= g - f
<1>1. Shifted(p, la, j) \in Nat /\ Shifted(p, la, k) \in Nat
      /\ k - j <= Shifted(p, la, k) - Shifted(p, la, j)
  BY DEF Shifted
<1> DEFINE a1 == Shifted(p, la, j)
           a2 == Shifted(p, la, k)
<1>2. a1 \in Nat /\ a2 \in Nat /\ k - j <= a2 - a1 /\ a1 < a2
  BY <1>1
<1> HIDE DEF a1, a2
<1>3. Shifted(q, lc, a1) \in Nat /\ Shifted(q, lc, a2) \in Nat
      /\ a2 - a1 <= Shifted(q, lc, a2) - Shifted(q, lc, a1)
  BY <1>2 DEF Shifted
<1>4. k - j <= Shifted(q, lc, a2) - Shifted(q, lc, a1)
  BY <1>2, <1>3
<1> QED  BY <1>3, <1>4 DEF a1, a2

LEMMA KeptStarts ==
  ASSUME NEW l \in Seq(Marked), AllClosed(l), NEW x, Apart(l, w_trimmed(x)),
         NEW raw, NEW y, Reads(l, raw, y)
  PROVE  Kept(l, l, x, 0, 0, raw)
<1>0. l \in Seq(Marked) /\ Len(l) \in Nat
  BY LenProperties
<1>1. Between(l, 0)
  <2>1. \A tag \in TwoTags : \A k \in TagsOf(l, tag) : k \in Nat \ {0}
    BY <1>0, TagsApart
  <2> QED  BY <2>1 DEF Between
<1>2. \A n \in 1..Len(raw) : y[n] \in Nat
  BY <1>0, ReadsIn
<1>3. SideBySide(l, l, x, 0, 0, raw, y, y)
  <2>1. \A n \in 1..Len(raw) : n + 1 \in 1..Len(raw) => y[n + 1] - y[n] <= y[n + 1] - y[n]
    BY <1>2
  <2>2. \A n \in 1..Len(raw) : y[n] = y[n] + 0
    BY <1>2
  <2>3. \A i : Shines(l, x, i) => ~(i < 0)
    BY <1>0 DEF Shines, StandsIn
  <2> QED  BY <2>1, <2>2, <2>3 DEF SideBySide
<1>4. \A m \in 1..Len(l) : l[m + 0] = l[m]
  BY <1>0
<1>5. 0 \in 0..Len(l) /\ Len(l) = Len(l) + 0 /\ 0 + 0 = 0 /\ 0 + 1 = 1
  BY <1>0
<1>6. \E u, v : SideBySide(l, l, x, 0, 0, raw, u, v)
  BY <1>3
<1> QED  BY <1>1, <1>4, <1>5, <1>6 DEF Kept

LEMMA KeptMoves ==
  ASSUME NEW l, NEW t, NEW x, NEW start, NEW o, NEW raw, Kept(l, t, x, start, o, raw),
         NEW e \in start..Len(l), Between(l, e),
         \A i \in start..(e - 1) : ~Shines(l, x, i)
  PROVE  Kept(l, t, x, e, o, raw)
<1>0. /\ l \in Seq(Marked) /\ t \in Seq(Marked) /\ Len(l) \in Nat /\ o \in Nat /\ Len(t) = Len(l) + o
      /\ start \in Nat /\ e \in 0..Len(l) /\ start <= e
      /\ Between(t, start + o) /\ \A m \in (start + 1)..Len(l) : t[m + o] = l[m]
  BY LenProperties DEF Kept
<1>1. Between(t, e + o)
  BY <1>0, BetweenGoesOn
<1>2. PICK y, v : SideBySide(l, t, x, start, o, raw, y, v)
  BY DEF Kept
<1>3. \A n \in 1..Len(raw) : e < y[n] => v[n] = y[n] + o
  <2>1. \A n \in 1..Len(raw) : y[n] \in Nat
    BY <1>0, <1>2, ReadsIn DEF SideBySide
  <2>2. \A n \in 1..Len(raw) : start < y[n] => v[n] = y[n] + o
    BY <1>2 DEF SideBySide
  <2> QED  BY <1>0, <2>1, <2>2
<1>4. ASSUME NEW i, Shines(l, x, i), i < e PROVE i < start
  <2>1. i \in Nat
    BY <1>0, <1>4 DEF Shines, StandsIn
  <2> QED  BY <1>0, <1>4, <2>1
<1>5. SideBySide(l, t, x, e, o, raw, y, v)
  BY <1>2, <1>3, <1>4 DEF SideBySide
<1>6. \A m \in (e + 1)..Len(l) : t[m + o] = l[m]
  BY <1>0
<1> QED  BY <1>0, <1>1, <1>5, <1>6 DEF Kept

\* A word that is not to be highlighted is passed.
LEMMA KeptPassing ==
  ASSUME NEW l, NEW t, NEW x, NEW i, NEW o, NEW raw, Kept(l, t, x, i, o, raw),
         Len(w_trimmed(x)) \in Nat, StandsIn(l, w_trimmed(x), i), ~HighlightedAt(l, x, i)
  PROVE  Kept(l, t, x, i + Len(w_trimmed(x)), o, raw)
<1> DEFINE e == i + Len(w_trimmed(x))
<1>1. i \in Nat /\ e \in i..Len(l) /\ Between(l, e)
  BY BetweenAtWord DEF Kept
<1>2. ASSUME NEW j \in i..(e - 1), Shines(l, x, j) PROVE FALSE
  <2>1. i # j /\ i < j
    BY <1>1, <1>2 DEF Shines
  <2>2. e <= j
    BY <1>1, <1>2, <2>1 DEF Shines
  <2> QED  BY <1>1, <2>2
<1> HIDE DEF e
<1>3. Kept(l, t, x, e, o, raw)
  BY <1>1, <1>2, KeptMoves
<1> QED  BY <1>3 DEF e

\* A word is put in tags.
LEMMA KeptHighlighting ==
  ASSUME NEW l, NEW t, NEW x, NEW i, NEW o, NEW raw, Kept(l, t, x, i, o, raw),
         Len(w_trimmed(x)) \in Nat, StandsIn(l, w_trimmed(x), i)
  PROVE  LET opened == Insert(t, i + o, Open)
             u == Insert(opened, i + Len(w_trimmed(x)) + o + Len(Open), Close)
         IN  Kept(l, u, x, i + Len(w_trimmed(x)), o + Len(Open) + Len(Close), raw)
<1> DEFINE n == Len(w_trimmed(x))
           la == Len(Open)
           lc == Len(Close)
           p == i + o
           q == i + n + o + la
           opened == Insert(t, p, Open)
           u == Insert(opened, q, Close)
           e == i + n
           r == o + la + lc
<1>0. /\ l \in Seq(Marked) /\ t \in Seq(Marked) /\ Len(l) \in Nat /\ o \in Nat /\ Len(t) = Len(l) + o
      /\ AllClosed(t) /\ Between(t, p) /\ \A m \in (i + 1)..Len(l) : t[m + o] = l[m]
      /\ n \in Nat /\ Len(t) \in Nat
  BY LenProperties DEF Kept
<1>1. i \in Nat /\ e <= Len(l) /\ Between(l, e)
  BY <1>0, BetweenAtWord DEF Kept
<1>2. /\ Open \in TwoTags /\ Close \in TwoTags /\ la \in Nat /\ la >= 2 /\ lc \in Nat /\ lc >= 2
  BY TagIs DEF TwoTags
<1>3. p \in 0..Len(t) /\ p \in Nat /\ q \in Nat /\ e \in Nat /\ r \in Nat /\ e \in i..Len(l)
  BY <1>0, <1>1, <1>2
<1> HIDE DEF n, la, lc
\* The text with the opening tag.
<1>4. /\ opened \in Seq(Marked) /\ Len(opened) = Len(t) + la
      /\ \A m \in (p + 1)..Len(t) : opened[m + la] = t[m]
  BY <1>0, <1>2, <1>3, InsertIs DEF la
<1>5. Between(opened, q)
  <2>1. Between(opened, p + la)
    BY <1>0, <1>2, <1>3, InsertedBetween DEF la
  <2> DEFINE a1 == o + la
  <2>2. a1 \in Nat /\ p + la = i + a1 /\ q = e + a1 /\ Len(opened) = Len(l) + a1
    BY <1>0, <1>1, <1>2, <1>4
  <2>3. ASSUME NEW m \in (i + 1)..Len(l) PROVE opened[m + a1] = l[m]
    <3>1. m + o \in (p + 1)..Len(t) /\ (m + o) + la = m + a1
      BY <1>0, <1>1, <1>2
    <3>2. opened[(m + o) + la] = t[m + o]
      BY <1>4, <3>1
    <3> QED  BY <1>0, <3>1, <3>2
  <2> HIDE DEF a1, p, q, e, opened
  <2>4. Between(opened, i + a1)
    BY <2>1, <2>2
  <2>5. Between(opened, e + a1)
    BY ONLY <1>0, <1>1, <1>3, <1>4, <2>2, <2>3, <2>4, BetweenGoesOn
  <2> QED  BY <2>2, <2>5
<1>6. q \in (p + la)..Len(opened) /\ q \in 0..Len(opened)
  BY <1>0, <1>1, <1>2, <1>4
<1>7. /\ u \in Seq(Marked) /\ AllClosed(u)
      /\ \A k \in 1..Len(t) :
           LET j == Shifted(p, la, k)
               m == Shifted(q, lc, j)
           IN  /\ RedIn(t, k) => RedIn(u, m)
               /\ p < k /\ j <= q => RedIn(u, m)
  <2> HIDE DEF p, q, opened, u
  <2>1. opened = Insert(t, p, Open) /\ u = Insert(opened, q, Close)
    BY DEF opened, u
  <2> QED  BY <1>0, <1>3, <1>5, <1>6, <2>1, PairInserted DEF la, lc
\* The text with both tags.
<1>8. /\ u \in Seq(Marked) /\ Len(u) = Len(opened) + lc
      /\ \A m \in (q + 1)..Len(opened) : u[m + lc] = opened[m]
      /\ Between(u, q + lc)
  <2> HIDE DEF opened, q
  <2> QED  BY <1>2, <1>4, <1>5, <1>6, InsertIs, InsertedBetween DEF lc
<1>9. r \in Nat /\ Len(u) = Len(l) + r /\ e + r = q + lc /\ e \in 0..Len(l)
  BY <1>0, <1>1, <1>2, <1>3, <1>4, <1>8
<1>10. ASSUME NEW m \in (e + 1)..Len(l) PROVE u[m + r] = l[m]
  <2>1. /\ m + o \in (p + 1)..Len(t) /\ m \in (i + 1)..Len(l) /\ m + o + la \in (q + 1)..Len(opened)
        /\ (m + o) + la = m + o + la /\ m + o + la + lc = m + r
    <3> HIDE DEF opened, u
    <3>1. m \in Nat /\ e < m /\ m <= Len(l)
      BY <1>0, <1>3
    <3> QED  BY <1>0, <1>1, <1>2, <1>4, <3>1
  <2>2. opened[(m + o) + la] = t[m + o] /\ u[(m + o + la) + lc] = opened[m + o + la] /\ t[m + o] = l[m]
    BY <1>0, <1>4, <1>8, <2>1
  <2> QED  BY <2>1, <2>2
\* Where raw is read.
<1>11. PICK y, v : SideBySide(l, t, x, i, o, raw, y, v)
  BY DEF Kept
<1> DEFINE z == [m \in 1..Len(raw) |-> Shifted(p, la, v[m])]
           d == [m \in 1..Len(raw) |-> Shifted(q, lc, z[m])]
<1>12. Reads(u, raw, d)
  <2>1. Reads(opened, raw, z)
    <3> HIDE DEF p
    <3>1. Reads(t, raw, v)
      BY <1>11 DEF SideBySide
    <3> QED  BY <1>0, <1>2, <1>3, <3>1, InsertedReads DEF la
  <2> HIDE DEF z, opened, q
  <2> QED  BY <1>2, <1>4, <1>5, <1>6, <2>1, InsertedReads DEF lc
<1>13. \A m \in 1..Len(raw) : /\ y[m] \in Nat /\ v[m] \in 1..Len(t) /\ v[m] \in Nat
                              /\ d[m] = Shifted(q, lc, Shifted(p, la, v[m]))
  <2>1. Reads(l, raw, y) /\ Reads(t, raw, v)
    BY <1>11 DEF SideBySide
  <2>2. ASSUME NEW m \in 1..Len(raw) PROVE y[m] \in Nat /\ v[m] \in 1..Len(t) /\ v[m] \in Nat
    BY <1>0, <2>1, ReadsIn
  <2> QED  BY <2>2
<1> HIDE DEF z, d
<1>14. ASSUME NEW m \in 1..Len(raw), m + 1 \in 1..Len(raw) PROVE y[m + 1] - y[m] <= d[m + 1] - d[m]
  <2>1. y[m + 1] - y[m] <= v[m + 1] - v[m] /\ v[m] < v[m + 1]
    <3>1. m < m + 1
      BY <1>14
    <3> QED  BY <1>11, <1>14, <3>1 DEF SideBySide, Reads
  <2>2. /\ y[m] \in Nat /\ y[m + 1] \in Nat /\ v[m] \in Nat /\ v[m + 1] \in Nat
        /\ d[m] = Shifted(q, lc, Shifted(p, la, v[m]))
        /\ d[m + 1] = Shifted(q, lc, Shifted(p, la, v[m + 1]))
    BY <1>13, <1>14
  <2> HIDE DEF p, q
  <2>3. v[m + 1] - v[m] <= d[m + 1] - d[m] /\ d[m] \in Nat /\ d[m + 1] \in Nat
    <3> DEFINE v1 == v[m]
               v2 == v[m + 1]
    <3>1. v1 \in Nat /\ v2 \in Nat /\ v1 < v2
      BY <2>1, <2>2
    <3> HIDE DEF v1, v2
    <3>2. LET f == Shifted(q, lc, Shifted(p, la, v1))
              g == Shifted(q, lc, Shifted(p, la, v2))
          IN  f \in Nat /\ g \in Nat /\ v2 - v1 <= g - f
      BY ONLY <1>2, <1>3, <3>1, ShiftedTwice
    <3> QED  BY <2>2, <3>2 DEF v1, v2
  <2> QED  BY <2>1, <2>2, <2>3
<1>15. ASSUME NEW m \in 1..Len(raw), e < y[m] PROVE d[m] = y[m] + r
  <2>1. v[m] = y[m] + o
    <3>1. i < y[m]
      BY <1>0, <1>1, <1>3, <1>13, <1>15
    <3> QED  BY <1>11, <3>1 DEF SideBySide
  <2>0. y[m] \in Nat /\ e < y[m] /\ d[m] = Shifted(q, lc, Shifted(p, la, v[m]))
    BY <1>13, <1>15
  <2>2. Shifted(p, la, v[m]) = y[m] + o + la /\ q < y[m] + o + la
    BY ONLY <1>0, <1>1, <1>2, <2>0, <2>1 DEF Shifted
  <2>3. d[m] = y[m] + o + la + lc
    <3>0. y[m] + o + la \in Nat
      BY ONLY <1>0, <1>2, <2>0
    <3>1. y[m] + o + la \in Nat /\ q \in Nat
      BY <1>3, <3>0
    <3> HIDE DEF q
    <3> QED  BY ONLY <2>0, <2>2, <3>1 DEF Shifted
  <2> QED  BY <1>0, <1>2, <1>13, <2>3
<1>16. ASSUME NEW j, Shines(l, x, j), j < e, NEW m \in 1..Len(raw), y[m] \in (j + 1)..(j + n)
       PROVE  RedIn(u, d[m])
  <2>1. j \in Nat
    BY <1>0, <1>16 DEF Shines, StandsIn
  <2>2. j <= i
    <3>1. i < j => i + n <= j
      BY <1>1, <1>16 DEF Shines, n
    <3> QED  BY <1>0, <1>1, <1>16, <2>1, <3>1
  <2>3. CASE j < i
    <3>1. RedIn(t, v[m])
      BY <1>11, <1>16, <2>3 DEF SideBySide, n
    <3> HIDE DEF u, p, q
    <3> QED  BY <1>7, <1>13, <3>1
  <2>4. CASE j = i
    <3>1. v[m] = y[m] + o
      <4>1. i < y[m]
        BY <1>1, <1>16, <2>4
      <4> QED  BY <1>11, <4>1 DEF SideBySide
    <3>0. y[m] \in Nat /\ i < y[m] /\ y[m] <= i + n
      BY <1>1, <1>13, <1>16, <2>4
    <3>2. p < v[m] /\ Shifted(p, la, v[m]) <= q
      BY ONLY <1>0, <1>1, <1>2, <3>0, <3>1 DEF Shifted
    <3> HIDE DEF u, p, q
    <3> QED  BY <1>7, <1>13, <3>2
  <2> QED  BY <1>1, <2>1, <2>2, <2>3, <2>4
<1> HIDE DEF u, p, q, opened, e, r
<1>17. SideBySide(l, u, x, e, r, raw, y, d)
  BY <1>11, <1>12, <1>14, <1>15, <1>16 DEF SideBySide, n
<1>18. Between(u, e + r)
  BY <1>8, <1>9
<1>19. Kept(l, u, x, e, r, raw)
  BY <1>0, <1>7, <1>9, <1>10, <1>17, <1>18 DEF Kept
<1> QED  BY <1>19 DEF u, p, q, opened, e, r, n, la, lc
------------------------------------------------------------------------------
(* The state machine. *)

LEMMA TrimmedType ==
  ASSUME NEW x \in Seq(Characters)
  PROVE  w_trimmed(x) \in Seq(Characters) /\ Len(w_trimmed(x)) \in Nat
<1> DEFINE kept == {k \in 1..Len(x) : x[k] # "*"}
<1>0. Len(x) \in Nat /\ kept \subseteq 1..Len(x)
  BY LenProperties
<1>1. CASE kept = {}
  <2>1. w_trimmed(x) = <<>>
    BY <1>1 DEF w_trimmed
  <2> QED  BY <2>1
<1>2. CASE kept # {}
  <2> DEFINE first == Min(kept)
             last == Max(kept)
  <2>0. kept \subseteq Nat
    BY <1>0
  <2>1. first \in kept
    <3> HIDE DEF kept
    <3>1. \E i \in kept : \A j \in kept : i <= j
      BY <1>2, <2>0, LeastNumber
    <3> QED  BY <3>1 DEF Min
  <2>2. last \in kept
    <3>1. \A k \in kept : k <= Len(x)
      BY <1>0
    <3> HIDE DEF kept
    <3>2. \E i \in kept : \A j \in kept : i >= j
      BY <1>0, <1>2, <2>0, <3>1, GreatestNumber
    <3> QED  BY <3>2 DEF Max
  <2>3. w_trimmed(x) = SubSeq(x, first, last)
    BY <1>2 DEF w_trimmed
  <2>4. first \in 1..Len(x) /\ last \in 1..Len(x)
    BY <1>0, <2>1, <2>2
  <2> HIDE DEF first, last
  <2>5. \A k \in first..last : x[k] \in Characters
    BY <1>0, <2>4, ElementOfSeq
  <2>6. SubSeq(x, first, last) \in Seq(Characters)
    BY <1>0, <2>4, <2>5
  <2> QED  BY <2>3, <2>6, LenProperties
<1> QED  BY <1>1, <1>2

\* The word of x is highlighted in t up to its occurrence at position now in l.
Searching(l, t, x, now, o, raw) ==
  IF now = None THEN Kept(l, t, x, Len(l), o, raw)
  ELSE StandsIn(l, w_trimmed(x), now) /\ Kept(l, t, x, now, o, raw)

LEMMA SearchGoesOn ==
  ASSUME NEW x \in Seq(Characters), NEW l, NEW t, NEW e, NEW o, NEW raw, Kept(l, t, x, e, o, raw)
  PROVE  Searching(l, t, x, Next_in(l, w_trimmed(x), e), o, raw)
<1> DEFINE now == Next_in(l, w_trimmed(x), e)
<1>0. /\ l \in Seq(Marked) /\ Len(l) \in Nat /\ e \in 0..Len(l) /\ e \in Nat /\ Apart(l, w_trimmed(x))
      /\ w_trimmed(x) \in Seq(Characters) /\ Len(w_trimmed(x)) \in Nat
  BY TrimmedType, LenProperties DEF Kept
<1>1. \/ now = None /\ \A i \in Nat : StandsIn(l, w_trimmed(x), i) => i < e
      \/ /\ now \in Nat /\ now >= e /\ StandsIn(l, w_trimmed(x), now)
         /\ \A i \in Nat : StandsIn(l, w_trimmed(x), i) => i < e \/ now <= i
  BY <1>0, NextInIs
<1> HIDE DEF now
<1>2. CASE now = None /\ \A i \in Nat : StandsIn(l, w_trimmed(x), i) => i < e
  <2>1. \A i \in e..(Len(l) - 1) : ~Shines(l, x, i)
    BY <1>0, <1>2 DEF Shines
  <2>2. Len(l) \in e..Len(l) /\ Between(l, Len(l))
    BY <1>0, BetweenAtEnd
  <2>3. Kept(l, t, x, Len(l), o, raw)
    BY <2>1, <2>2, KeptMoves
  <2> QED  BY <1>2, <2>3 DEF Searching, now
<1>3. CASE /\ now \in Nat /\ now >= e /\ StandsIn(l, w_trimmed(x), now)
           /\ \A i \in Nat : StandsIn(l, w_trimmed(x), i) => i < e \/ now <= i
  <2>1. \A i \in e..(now - 1) : ~Shines(l, x, i)
    BY <1>0, <1>3 DEF Shines
  <2>2. now \in e..Len(l) /\ Between(l, now)
    <3>1. Between(l, now) /\ now <= Len(l)
      <4>1. Between(l, now) /\ now + Len(w_trimmed(x)) <= Len(l)
        BY <1>0, <1>3, BetweenAtWord
      <4> QED  BY <1>0, <1>3, <4>1
    <3> QED  BY <1>0, <1>3, <3>1
  <2>3. Kept(l, t, x, now, o, raw)
    BY <2>1, <2>2, KeptMoves
  <2>4. now # None
    BY <1>3 DEF None
  <2> QED  BY <1>3, <2>3, <2>4 DEF Searching, now
<1> QED  BY <1>1, <1>2, <1>3

\* The excerpt is a piece of the text.
CutOut ==
  state # "none" =>
    /\ from \in Nat /\ raw_text \in Seq(Characters)
    /\ \A m \in 1..Len(raw_text) : from + m \in 1..Len(s) /\ raw_text[m] = s[from + m]

\* Between two words: the last one is highlighted.
WordsHighlighted ==
  IF w = 1 THEN text = raw_text
  ELSE Kept(lower_text, text, patterns[w - 1], Len(lower_text), offset, raw_text)

\* A word that is empty is found where the last one was, for ever.
WordSearched ==
  IF w_trimmed(patterns[w]) = <<>>
  THEN lower_text \in Seq(Marked) /\ current_pos \in 0..Len(lower_text)
  ELSE Searching(lower_text, text, patterns[w], current_pos, offset, raw_text)

HighlightInv ==
  /\ state \in {"none", "words", "search", "done"}
  /\ w \in 1..(Len(patterns) + 1)
  /\ state = "none" => w = 1
  /\ state = "search" => w <= Len(patterns)
  /\ CutOut
  /\ MarkupSafe => /\ state \in {"words", "done"} => WordsHighlighted
                   /\ state = "search" => WordSearched

\* Text without tags is read as it is.
LEMMA PlainReads ==
  ASSUME NEW t, Len(t) \in Nat, \A tag \in TwoTags : TagsOf(t, tag) = {}
  PROVE  Reads(t, t, [n \in 1..Len(t) |-> n])
<1>1. VisibleIn(t) = 1..Len(t)
  BY NoTags
<1> QED  BY <1>1 DEF Reads

LEMMA RawText ==
  ASSUME TypeInv, CutOut, state # "none"
  PROVE  /\ raw_text \in Seq(Marked) /\ Len(raw_text) \in Nat
         /\ \A tag \in TwoTags : TagsOf(raw_text, tag) = {}
<1>1. raw_text \in Seq(Characters) /\ Characters \subseteq Marked
  BY DEF CutOut, Marked
<1>2. raw_text \in Seq(Marked)
  BY <1>1, SeqMonotonic
\* What was cut out of the text would be a tag of the text.
<1>3. ASSUME NEW tag \in TwoTags, NEW k \in TagsOf(raw_text, tag) PROVE FALSE
  <2>0. /\ s \in Seq(Characters) /\ Len(s) \in Nat /\ from \in Nat /\ Len(raw_text) \in Nat
        /\ Len(tag) \in Nat /\ Len(tag) >= 2
    BY <1>1, PatternTypes, TagIs, LenProperties DEF TypeInv, CutOut
  <2>1. /\ k \in Nat \ {0} /\ k + Len(tag) - 1 <= Len(raw_text)
        /\ \A m \in 1..Len(tag) : raw_text[k + m - 1] = tag[m]
    BY <1>1, TagsOfIs
  <2>2. \A m \in 1..Len(raw_text) : from + m \in 1..Len(s) /\ raw_text[m] = s[from + m]
    BY DEF CutOut
  <2> DEFINE j == from + k
  <2>3. j \in Nat \ {0} /\ j + Len(tag) - 1 <= Len(s)
    <3>1. k + Len(tag) - 1 \in 1..Len(raw_text) /\ from + (k + Len(tag) - 1) = j + Len(tag) - 1
      BY ONLY <2>0, <2>1
    <3>2. j + Len(tag) - 1 \in 1..Len(s)
      BY <2>2, <3>1
    <3> QED  BY ONLY <2>0, <2>1, <3>2
  <2>4. ASSUME NEW m \in 1..Len(tag) PROVE s[j + m - 1] = tag[m]
    <3>1. k + m - 1 \in 1..Len(raw_text) /\ from + (k + m - 1) = j + m - 1
      <4>1. m \in 1..Len(tag)
        OBVIOUS
      <4> QED  BY ONLY <2>0, <2>1, <4>1
    <3> QED  BY <2>1, <2>2, <3>1
  <2> HIDE DEF j
  <2>5. j \in TagsOf(s, tag)
    BY <2>0, <2>3, <2>4, TagsOfIs
  <2>6. s \in Texts
    BY DEF TypeInv
  <2> QED  BY <2>5, <2>6, CaptionsAssumption DEF TagsOf, TwoTags
<1> QED  BY <1>2, <1>3, LenProperties

\* Between two words the text reads back.
LEMMA TextReads ==
  ASSUME TypeInv, CutOut, state # "none", WordsHighlighted
  PROVE  text \in Seq(Marked) /\ AllClosed(text) /\ \E v : Reads(text, raw_text, v)
<1>1. CASE w = 1
  <2>1. text = raw_text
    BY <1>1 DEF WordsHighlighted
  <2> QED  BY <2>1, RawText, NoTags, PlainReads
<1>2. CASE w # 1
  BY <1>2 DEF WordsHighlighted, Kept, SideBySide
<1> QED  BY <1>1, <1>2

LEMMA FindStepKeeps ==
  ASSUME HighlightInv, s' = s, patterns' = patterns, UNCHANGED excerptVars
  PROVE  HighlightInv'
<1>1. /\ from' = from /\ raw_text' = raw_text /\ text' = text /\ lower_text' = lower_text
      /\ w' = w /\ current_pos' = current_pos /\ offset' = offset /\ state' = state
  BY DEF excerptVars
<1>2. CutOut'
  BY <1>1 DEF CutOut, HighlightInv
<1>3. MarkupSafe' <=> MarkupSafe
  BY DEF MarkupSafe
<1>4. (WordsHighlighted' <=> WordsHighlighted) /\ (WordSearched' <=> WordSearched)
  BY <1>1 DEF WordsHighlighted, WordSearched
<1> QED  BY <1>1, <1>2, <1>3, <1>4 DEF HighlightInv

LEMMA ConstructKeeps ==
  ASSUME TypeInv, HighlightInv, NEW i \in MatchPositions, Construct(i)
  PROVE  HighlightInv'
<1>1. /\ state = "none" /\ state' = "words" /\ w' = w /\ s' = s /\ patterns' = patterns
      /\ from' = Max({0, i - excerpt_size})
      /\ raw_text' = SubSeq(s, from' + 1, Min({from' + 2 * excerpt_size, Len(s)}))
      /\ text' = raw_text'
  BY DEF Construct, vars
<1>2. i \in Nat
  <2>1. PICK x \in PatternSet : i \in ToSet(match_positions[x])
    BY DEF MatchPositions
  <2>2. match_positions[x] \in Seq(Nat)
    BY DEF TypeInv
  <2>3. \E k \in DOMAIN match_positions[x] : i = match_positions[x][k]
    BY <2>1 DEF ToSet
  <2> QED  BY <2>2, <2>3, ElementOfSeq
<1>3. s \in Seq(Characters) /\ Len(s) \in Nat
  BY PatternTypes DEF TypeInv
<1>4. from' \in Nat
  <2> DEFINE e == i - excerpt_size
             T == {0, e}
  <2>1. e \in Int
    BY <1>2, ExcerptAssumption
  <2>2. \E j \in T : \A k \in T : j >= k
    <3>1. CASE 0 >= e
      BY <2>1, <3>1
    <3>2. CASE ~(0 >= e)
      BY <2>1, <3>2
    <3> QED  BY <3>1, <3>2
  <2> HIDE DEF e
  <2>3. Max(T) \in T /\ \A k \in T : Max(T) >= k
    <3> HIDE DEF T
    <3> QED  BY <2>2 DEF Max
  <2>4. Max(T) \in Int /\ Max(T) >= 0
    BY <2>1, <2>3
  <2>5. from' = Max(T)
    BY <1>1 DEF e
  <2> QED  BY <2>4, <2>5
<1> DEFINE f == from'
           last == Min({f + 2 * excerpt_size, Len(s)})
           raw == SubSeq(s, f + 1, last)
<1>5. last \in Nat /\ last <= Len(s)
  <2> DEFINE e == f + 2 * excerpt_size
             T == {e, Len(s)}
  <2>1. e \in Nat
    <3>1. 2 * excerpt_size \in Nat
      BY ExcerptAssumption
    <3> QED  BY <1>4, <3>1
  <2>2. \E j \in T : \A k \in T : j <= k
    <3>1. CASE e <= Len(s)
      BY <1>3, <2>1, <3>1
    <3>2. CASE ~(e <= Len(s))
      BY <1>3, <2>1, <3>2
    <3> QED  BY <3>1, <3>2
  <2> HIDE DEF e
  <2>3. Min(T) \in T /\ \A k \in T : Min(T) <= k
    <3> HIDE DEF T
    <3> QED  BY <2>2 DEF Min
  <2>4. Min(T) \in Nat /\ Min(T) <= Len(s)
    BY <1>3, <2>1, <2>3
  <2> QED  BY <2>4 DEF e
<1>6. f \in Nat /\ raw_text' = raw
  BY <1>1, <1>4
<1> HIDE DEF f, last
<1>7. /\ raw \in Seq(Characters)
      /\ \A m \in 1..Len(raw) : f + m \in 1..Len(s) /\ raw[m] = s[f + m]
  <2>1. \A k \in (f + 1)..last : s[k] \in Characters
    BY <1>3, <1>5, <1>6, ElementOfSeq
  <2>2. /\ raw \in Seq(Characters)
        /\ Len(raw) = (IF f + 1 <= last THEN last - (f + 1) + 1 ELSE 0)
        /\ \A m \in 1..(last - (f + 1) + 1) : raw[m] = s[(f + 1) + m - 1]
    BY <1>3, <1>5, <1>6, <2>1, SubSeqProperties
  <2> HIDE DEF raw
  <2>3. ASSUME NEW m \in 1..Len(raw) PROVE f + m \in 1..Len(s) /\ raw[m] = s[f + m]
    <3>1. m \in 1..(last - (f + 1) + 1) /\ (f + 1) + m - 1 = f + m /\ f + m \in 1..Len(s)
      BY <1>3, <1>5, <1>6, <2>2
    <3> QED  BY <2>2, <3>1
  <2> QED  BY <2>2, <2>3
<1>8. CutOut'
  BY <1>1, <1>6, <1>7 DEF CutOut, f
<1>9. w = 1 /\ WordsHighlighted'
  BY <1>1 DEF WordsHighlighted, HighlightInv
<1>10. (w \in 1..(Len(patterns) + 1))'
  BY <1>1 DEF HighlightInv
<1> QED  BY <1>1, <1>8, <1>9, <1>10 DEF HighlightInv

LEMMA BeginWordKeeps ==
  ASSUME TypeInv, HighlightInv, BeginWord
  PROVE  HighlightInv'
<1> DEFINE x == patterns[w]
           word == w_trimmed(x)
<1>1. /\ state = "words" /\ w <= Len(patterns) /\ state' = "search"
      /\ lower_text' = text /\ current_pos' = Next_in(text, word, 0) /\ offset' = 0
      /\ s' = s /\ patterns' = patterns /\ from' = from /\ raw_text' = raw_text /\ text' = text /\ w' = w
  BY DEF BeginWord, vars
<1>2. CutOut' /\ (MarkupSafe' <=> MarkupSafe)
  BY <1>1 DEF CutOut, MarkupSafe, HighlightInv
<1>3. w \in 1..Len(patterns) /\ Len(patterns) \in Nat
  BY <1>1, PatternTypes DEF HighlightInv, TypeInv
<1>4. x \in Seq(Characters)
  BY <1>3, PatternsAssumption, ElementOfSeq DEF TypeInv
<1>5. word \in Seq(Characters) /\ Len(word) \in Nat
  BY <1>4, TrimmedType
<1>6. ASSUME MarkupSafe PROVE WordSearched'
  <2>1. WordsHighlighted /\ text \in Seq(Marked) /\ AllClosed(text) /\ \E v : Reads(text, raw_text, v)
    BY <1>1, <1>6, TextReads DEF HighlightInv
  <2>2. text \in Seq(Marked) /\ Len(text) \in Nat
    BY <2>1, LenProperties
  <2>3. CASE word = <<>>
    <3> DEFINE now == Next_in(text, word, 0)
    <3>1. Len(word) = 0 /\ StandsIn(text, word, 0)
      BY <2>2, <2>3 DEF StandsIn
    <3>2. now # None => now \in Nat /\ StandsIn(text, word, now)
      BY <1>5, <2>2, NextInIs
    <3>3. now # None
      BY <1>5, <2>2, <3>1, NextInIs DEF None
    <3>4. now \in 0..Len(text)
      BY <2>2, <3>1, <3>2, <3>3 DEF StandsIn
    <3> HIDE DEF now
    <3>5. current_pos' = now
      BY <1>1 DEF now
    <3> QED  BY <1>1, <2>2, <2>3, <3>4, <3>5 DEF WordSearched
  <2>4. CASE word # <<>>
    <3>1. Apart(text, word)
      <4>1. CASE w = 1
        <5>1. text = raw_text
          BY <2>1, <4>1 DEF WordsHighlighted
        <5> QED  BY <1>1, <5>1, RawText, NoTags DEF HighlightInv
      <4>2. CASE w # 1
        <5>1. w \in 2..Len(patterns)
          BY <1>3, <4>2
        <5>2. ~InMarkup(word) /\ {TagBegin, TagEnd} \cap Range(word) = {}
          BY <1>6, <5>1 DEF MarkupSafe
        <5>3. Len(word) > 0
          BY <1>5, <2>4, EmptySeq
        <5> HIDE DEF word
        <5> QED  BY <1>5, <2>2, <5>2, <5>3, SafeWordIsApart
      <4> QED  BY <4>1, <4>2
    <3>2. Kept(text, text, x, 0, 0, raw_text)
      <4>1. PICK v : Reads(text, raw_text, v)
        BY <2>1
      <4> HIDE DEF x
      <4> QED  BY <2>1, <3>1, <4>1, KeptStarts
    <3>3. Searching(text, text, x, Next_in(text, word, 0), 0, raw_text)
      <4> HIDE DEF x
      <4> QED  BY <1>4, <3>2, SearchGoesOn
    <3> QED  BY <1>1, <2>4, <3>3 DEF WordSearched
  <2> QED  BY <2>3, <2>4
<1>7. (w \in 1..(Len(patterns) + 1))'
  BY <1>1, <1>3
<1> QED  BY <1>1, <1>2, <1>6, <1>7 DEF HighlightInv

LEMMA HighlightKeeps ==
  ASSUME TypeInv, HighlightInv, Highlight
  PROVE  HighlightInv'
<1> DEFINE x == patterns[w]
           word == w_trimmed(x)
           n == Len(word)
           i == current_pos
           p == i + offset
           opened == Insert(text, i + offset, Open)
           u == Insert(opened, i + n + offset + Len(Open), Close)
<1>1. /\ state = "search" /\ i # None /\ state' = state
      /\ IsHighlighted(x) => text' = u /\ offset' = offset + Len(Open) + Len(Close)
      /\ ~IsHighlighted(x) => text' = text /\ offset' = offset
      /\ current_pos' = Next_in(lower_text, word, i + n)
      /\ s' = s /\ patterns' = patterns /\ from' = from /\ raw_text' = raw_text
      /\ lower_text' = lower_text /\ w' = w
  BY DEF Highlight, vars, left_shift, right_shift
<1>2. CutOut' /\ (MarkupSafe' <=> MarkupSafe)
  BY <1>1 DEF CutOut, MarkupSafe, HighlightInv
<1>3. w \in 1..Len(patterns) /\ Len(patterns) \in Nat
  BY <1>1, PatternTypes DEF HighlightInv, TypeInv
<1>4. x \in Seq(Characters)
  BY <1>3, PatternsAssumption, ElementOfSeq DEF TypeInv
<1>5. word \in Seq(Characters) /\ n \in Nat
  BY <1>4, TrimmedType
<1>6. ASSUME MarkupSafe PROVE WordSearched'
  <2>0. WordSearched
    BY <1>1, <1>6 DEF HighlightInv
  <2>1. CASE word = <<>>
    <3> DEFINE now == Next_in(lower_text, word, i)
    <3>1. lower_text \in Seq(Marked) /\ i \in 0..Len(lower_text) /\ Len(lower_text) \in Nat
      BY <2>0, <2>1, LenProperties DEF WordSearched
    <3>2. n = 0 /\ StandsIn(lower_text, word, i) /\ i \in Nat /\ i + n = i
      BY <2>1, <3>1 DEF StandsIn
    <3>3. now # None => now \in Nat /\ StandsIn(lower_text, word, now)
      BY <1>5, <3>1, <3>2, NextInIs
    <3>4. now # None
      BY <1>5, <3>1, <3>2, NextInIs DEF None
    <3>5. now \in 0..Len(lower_text)
      BY <3>1, <3>2, <3>3, <3>4 DEF StandsIn
    <3>6. current_pos' = now
      BY <1>1, <3>2
    <3> HIDE DEF now
    <3> QED  BY <1>1, <2>1, <3>1, <3>5, <3>6 DEF WordSearched
  <2>2. CASE word # <<>>
    <3>1. Kept(lower_text, text, x, i, offset, raw_text) /\ StandsIn(lower_text, word, i)
      BY <1>1, <2>0, <2>2 DEF WordSearched, Searching
    <3>2. IsHighlighted(x) <=> HighlightedAt(lower_text, x, i)
      BY DEF IsHighlighted, HighlightedAt
    <3>3. Kept(lower_text, text', x, i + n, offset', raw_text)
      <4>1. CASE IsHighlighted(x)
        <5>1. Kept(lower_text, u, x, i + n, offset + Len(Open) + Len(Close), raw_text)
          <6> HIDE DEF x, i
          <6> QED  BY <1>5, <3>1, KeptHighlighting
        <5> QED  BY <1>1, <4>1, <5>1
      <4>2. CASE ~IsHighlighted(x)
        <5>1. Kept(lower_text, text, x, i + n, offset, raw_text)
          <6> HIDE DEF x, i
          <6> QED  BY <1>5, <3>1, <3>2, <4>2, KeptPassing
        <5> QED  BY <1>1, <4>2, <5>1
      <4> QED  BY <4>1, <4>2
    <3>4. Searching(lower_text, text', x, Next_in(lower_text, word, i + n), offset', raw_text)
      <4> HIDE DEF x, i, n
      <4> QED  BY <1>4, <3>3, SearchGoesOn
    <3> QED  BY <1>1, <2>2, <3>4 DEF WordSearched
  <2> QED  BY <2>1, <2>2
<1>7. (w \in 1..(Len(patterns) + 1))' /\ (w <= Len(patterns))'
  BY <1>1, <1>3
<1> QED  BY <1>1, <1>2, <1>6, <1>7 DEF HighlightInv

LEMMA EndOfWordKeeps ==
  ASSUME TypeInv, HighlightInv, EndOfWord
  PROVE  HighlightInv'
<1>1. /\ state = "search" /\ current_pos = None /\ w' = w + 1 /\ state' = "words"
      /\ s' = s /\ patterns' = patterns /\ from' = from /\ raw_text' = raw_text /\ text' = text
      /\ lower_text' = lower_text /\ current_pos' = current_pos /\ offset' = offset
  BY DEF EndOfWord, vars
<1>2. CutOut' /\ (MarkupSafe' <=> MarkupSafe)
  BY <1>1 DEF CutOut, MarkupSafe, HighlightInv
<1>3. w \in 1..Len(patterns) /\ Len(patterns) \in Nat
  BY <1>1, PatternTypes DEF HighlightInv, TypeInv
<1>4. ASSUME MarkupSafe PROVE WordsHighlighted'
  <2>0. WordSearched
    BY <1>1, <1>4 DEF HighlightInv
  <2>1. w_trimmed(patterns[w]) # <<>>
    <3> SUFFICES ASSUME w_trimmed(patterns[w]) = <<>> PROVE FALSE
      OBVIOUS
    <3>1. current_pos \in 0..Len(lower_text) /\ Len(lower_text) \in Nat
      BY <2>0, LenProperties DEF WordSearched
    <3> QED  BY <1>1, <3>1 DEF None
  <2>2. Kept(lower_text, text, patterns[w], Len(lower_text), offset, raw_text)
    BY <1>1, <2>0, <2>1 DEF WordSearched, Searching
  <2>3. w' # 1 /\ w' - 1 = w
    BY <1>1, <1>3
  <2> QED  BY <1>1, <2>2, <2>3 DEF WordsHighlighted
<1>5. (w \in 1..(Len(patterns) + 1))'
  BY <1>1, <1>3
<1> QED  BY <1>1, <1>2, <1>4, <1>5 DEF HighlightInv

LEMMA FinishKeeps ==
  ASSUME HighlightInv, Finish
  PROVE  HighlightInv'
<1>1. /\ state = "words" /\ state' = "done" /\ w' = w
      /\ s' = s /\ patterns' = patterns /\ from' = from /\ raw_text' = raw_text /\ text' = text
      /\ lower_text' = lower_text /\ current_pos' = current_pos /\ offset' = offset
  BY DEF Finish, vars
<1>2. CutOut' /\ (MarkupSafe' <=> MarkupSafe) /\ (WordsHighlighted' <=> WordsHighlighted)
  BY <1>1 DEF CutOut, MarkupSafe, WordsHighlighted, HighlightInv
<1> QED  BY <1>1, <1>2 DEF HighlightInv
------------------------------------------------------------------------------
(* No candidate of one word overlaps an earlier occurrence. *)

NoneOverlaps(x, i) == \A j \in Int : Occurs(x, j) /\ j < i => j + Len(search_string(x)) <= i

CandidatesAreFirst ==
  /\ \A k \in Queued : OneWord(patterns[k]) => NoneOverlaps(patterns[k], next_positions[k])
  /\ \A x \in PatternSet : OneWord(x) => \A i \in MatchesOf(x) : NoneOverlaps(x, i)

\* The search goes on at a border, where no word is divided.
LEMMA SuccessorOverlapsNone ==
  ASSUME Len(s) \in Nat, NEW x, Len(search_string(x)) \in Nat, OneWord(x), NEW i, Occurs(x, i),
         Successor(x, i) # None
  PROVE  NoneOverlaps(x, Successor(x, i))
<1> DEFINE border == Continue(x, i)
           n == Successor(x, i)
           len == Len(search_string(x))
<1>1. /\ border \in (i + len)..Len(s) /\ Border(border) /\ Occurs(x, n) /\ border <= n
      /\ \A j \in Int : Occurs(x, j) /\ border <= j => n <= j
  BY SuccessorIs
<1>2. i \in Nat /\ border \in Nat /\ border <= Len(s) /\ n \in Nat
  BY <1>1 DEF Occurs
<1> SUFFICES ASSUME NEW j \in Int, Occurs(x, j), j < n PROVE j + len <= n
  BY DEF NoneOverlaps
<1>3. j < border
  BY <1>1, <1>2
<1>4. j + len <= border
  <2> SUFFICES ASSUME border < j + len PROVE FALSE
    BY <1>2
  <2>1. j \in Nat /\ j + len <= Len(s) /\ \A m \in j..(j + len - 1) : ~IsSeparator(m)
    <3>1. \A m \in j..(j + len - 1) : ~IsSeparator(m)
      BY NoSeparatorInside
    <3> QED  BY <3>1 DEF Occurs
  <2>2. border \in j..(j + len - 1) /\ border # Len(s)
    BY <1>2, <1>3, <2>1
  <2> QED  BY <1>1, <2>1, <2>2 DEF Border
<1> QED  BY <1>1, <1>2, <1>4

LEMMA FirstStays ==
  ASSUME s' = s
  PROVE  \A x, i : NoneOverlaps(x, i)' <=> NoneOverlaps(x, i)
BY TextStays DEF NoneOverlaps

LEMMA CandidatesStayFirst ==
  ASSUME TypeInv, Inv, CandidatesAreFirst, [Next]_vars
  PROVE  CandidatesAreFirst'
<1>1. CASE Initialize
  <2>1. /\ s' = s /\ patterns' = patterns /\ match_positions' = match_positions /\ pc = "start"
        /\ Slots' = Slots /\ PatternSet' = PatternSet
    BY <1>1 DEF Initialize, Slots, PatternSet
  <2>2. \A k \in Slots : LET n == FindFrom(search_string(patterns[k]), 0)
                         IN  /\ next_positions'[k] = n
                             /\ \A j \in Int : Occurs(patterns[k], j) => n # None /\ n <= j
    BY <1>1, FirstCandidates
  <2>3. next_positions' \in [Slots -> Int]
    BY <1>1, FirstCandidates
  <2>4. ASSUME NEW k \in Queued' PROVE NoneOverlaps(patterns[k], next_positions'[k])
    <3>1. k \in Slots
      BY <2>1 DEF Queued
    <3>2. next_positions'[k] \in Int /\ \A j \in Int : Occurs(patterns[k], j) => next_positions'[k] <= j
      BY <2>2, <2>3, <3>1
    <3> QED  BY <3>2 DEF NoneOverlaps
  <2>5. \A x : MatchesOf(x)' = MatchesOf(x)
    BY <2>1 DEF MatchesOf
  <2> QED  BY <2>1, <2>4, <2>5, FirstStays DEF CandidatesAreFirst, OneWord
<1>2. ASSUME NEW k \in Slots, Examine(k) PROVE CandidatesAreFirst'
  <2> DEFINE x == patterns[k]
             i == next_positions[k]
             n == Successor(x, i)
  <2>1. Examined(k, x, i, n)
    BY <1>2, ExamineFacts
  <2>2. s' = s /\ patterns' = patterns /\ PatternSet' = PatternSet /\ x \in PatternSet
    BY <2>1 DEF Examined
  <2>3. Len(s) \in Nat /\ Len(search_string(x)) \in Nat
    BY <2>2, PatternTypes DEF TypeInv
  <2>4. ASSUME NEW j \in Queued', OneWord(patterns[j]) PROVE NoneOverlaps(patterns[j], next_positions'[j])
    <3>1. j \in Slots
      BY <2>1 DEF Examined, Queued
    <3>2. CASE j = k
      <4>1. next_positions'[j] = n /\ n # None /\ Occurs(x, i)
        BY <2>1, <3>1, <3>2 DEF Examined
      <4> QED  BY <2>3, <2>4, <3>2, <4>1, SuccessorOverlapsNone
    <3>3. CASE j # k
      <4>1. next_positions'[j] = next_positions[j] /\ j \in Queued
        BY <2>1, <3>1, <3>3 DEF Examined
      <4> QED  BY <2>4, <4>1 DEF CandidatesAreFirst
    <3> QED  BY <3>2, <3>3
  <2>5. ASSUME NEW y \in PatternSet, OneWord(y), NEW m \in Elements(match_positions'[y]) PROVE NoneOverlaps(y, m)
    <3>1. m \in MatchesOf(y) \/ (y = x /\ m = i)
      BY <2>1 DEF Examined
    <3>2. k \in Queued
      BY <2>1 DEF Examined
    <3> QED  BY <2>5, <3>1, <3>2 DEF CandidatesAreFirst
  <2> QED  BY <2>2, <2>4, <2>5, FirstStays DEF CandidatesAreFirst, OneWord, MatchesOf
<1>3. CASE Return \/ UNCHANGED vars
  <2>1. UNCHANGED <<s, patterns, next_positions, match_positions>>
    BY <1>3 DEF Return, vars
  <2>2. Queued' = Queued /\ PatternSet' = PatternSet /\ \A x : MatchesOf(x)' = MatchesOf(x)
    BY <2>1 DEF Queued, Slots, PatternSet, MatchesOf
  <2> QED  BY <2>1, <2>2, FirstStays DEF CandidatesAreFirst, OneWord
<1> QED  BY <1>1, <1>2, <1>3 DEF Next

LEMMA SearchIsFirst == Spec => []CandidatesAreFirst
<1>1. Init => CandidatesAreFirst
  <2> SUFFICES ASSUME Init PROVE CandidatesAreFirst
    OBVIOUS
  <2>1. Queued = {} /\ \A x \in PatternSet : MatchesOf(x) = {}
    BY DEF Init, Queued, MatchesOf, Elements
  <2> QED  BY <2>1 DEF CandidatesAreFirst
<1>2. TypeInv /\ Inv /\ CandidatesAreFirst /\ [Next]_vars => CandidatesAreFirst'
  BY CandidatesStayFirst
<1> QED  BY <1>1, <1>2, SearchInv, PTL DEF Spec

------------------------------------------------------------------------------
(* The excerpts. *)

LEMMA ExcerptIsSearch == ExcerptSpec => Spec
<1>1. ExcerptInit => Init
  BY DEF ExcerptInit
<1>2. [ExcerptNext]_allVars => [Next]_vars
  BY DEF ExcerptNext, FindStep, Construct, BeginWord, Highlight, EndOfWord, Finish, allVars
<1> QED  BY <1>1, <1>2, PTL DEF ExcerptSpec, Spec

LEMMA ExcerptInv == ExcerptSpec => []HighlightInv
<1>1. ExcerptInit /\ TypeInv => HighlightInv
  <2> SUFFICES ASSUME ExcerptInit, TypeInv PROVE HighlightInv
    OBVIOUS
  <2>1. state = "none" /\ w = 1
    BY DEF ExcerptInit
  <2>2. 1 \in 1..(Len(patterns) + 1)
    BY PatternTypes DEF TypeInv
  <2> QED  BY <2>1, <2>2 DEF HighlightInv, CutOut
<1>2. TypeInv /\ HighlightInv /\ [ExcerptNext]_allVars => HighlightInv'
  <2> SUFFICES ASSUME TypeInv, HighlightInv, [ExcerptNext]_allVars PROVE HighlightInv'
    OBVIOUS
  <2>1. CASE FindStep \/ UNCHANGED allVars
    <3>1. s' = s /\ patterns' = patterns /\ UNCHANGED excerptVars
      BY <2>1 DEF FindStep, Next, Initialize, Examine, Return, allVars, vars
    <3> QED  BY <3>1, FindStepKeeps
  <2>2. ASSUME NEW i \in MatchPositions, Construct(i) PROVE HighlightInv'
    BY <2>2, ConstructKeeps
  <2>3. CASE BeginWord
    BY <2>3, BeginWordKeeps
  <2>4. CASE Highlight
    BY <2>4, HighlightKeeps
  <2>5. CASE EndOfWord
    BY <2>5, EndOfWordKeeps
  <2>6. CASE Finish
    BY <2>6, FinishKeeps
  <2> QED  BY <2>1, <2>2, <2>3, <2>4, <2>5, <2>6 DEF ExcerptNext
<1>3. ExcerptSpec => []TypeInv
  BY ExcerptIsSearch, SearchInv, PTL
<1> QED  BY <1>1, <1>2, <1>3, PTL DEF ExcerptSpec

\* The n-th character that is read stands at place n.
LEMMA PlaceIs ==
  ASSUME NEW S, NEW t \in Seq(S), NEW raw, Len(raw) \in Nat, NEW v, Reads(t, raw, v)
  PROVE  /\ Cardinality(VisibleIn(t)) = Len(raw)
         /\ \A n \in 1..Len(raw) : Cardinality({j \in VisibleIn(t) : j <= v[n]}) = n
<1>0. /\ \A n \in 1..Len(raw) : v[n] \in VisibleIn(t) /\ v[n] \in Nat
      /\ \A m, n \in 1..Len(raw) : m < n => v[m] < v[n]
      /\ \A k \in VisibleIn(t) : \E n \in 1..Len(raw) : v[n] = k
  BY ReadsIn DEF Reads
<1>1. \A m, n \in 1..Len(raw) : v[m] = v[n] => m = n
  BY <1>0
<1>2. ASSUME NEW n \in 0..Len(raw), NEW T, T \subseteq VisibleIn(t),
             \A m \in 1..n : v[m] \in T,
             \A k \in T : \E m \in 1..n : v[m] = k
      PROVE  Cardinality(T) = n
  <2> DEFINE f == [m \in 1..n |-> v[m]]
  <2>1. n \in Nat /\ 1..n \subseteq 1..Len(raw)
    OBVIOUS
  <2>2. f \in [1..n -> T] /\ (\A j, k \in 1..n : f[j] = f[k] => j = k) /\ \A k \in T : \E m \in 1..n : f[m] = k
    BY <1>1, <1>2, <2>1
  <2>3. IsFiniteSet(1..n) /\ Cardinality(1..n) = n
    BY <2>1, FS_Interval
  <2> HIDE DEF f
  <2> QED  BY <2>2, <2>3, SameSize
<1>3. Cardinality(VisibleIn(t)) = Len(raw)
  BY <1>0, <1>2
<1>4. ASSUME NEW n \in 1..Len(raw) PROVE Cardinality({j \in VisibleIn(t) : j <= v[n]}) = n
  <2> DEFINE T == {j \in VisibleIn(t) : j <= v[n]}
  <2>1. \A m \in 1..n : v[m] \in T
    <3> SUFFICES ASSUME NEW m \in 1..n PROVE v[m] \in T
      OBVIOUS
    <3>1. m \in 1..Len(raw) /\ (m < n \/ m = n)
      OBVIOUS
    <3>2. v[m] < v[n] \/ v[m] = v[n]
      BY <1>0, <3>1
    <3> QED  BY <1>0, <3>1, <3>2
  <2>2. \A k \in T : \E m \in 1..n : v[m] = k
    <3> SUFFICES ASSUME NEW k \in T PROVE \E m \in 1..n : v[m] = k
      OBVIOUS
    <3>1. PICK m \in 1..Len(raw) : v[m] = k
      BY <1>0
    <3>2. ~(n < m)
      BY <1>0, <3>1
    <3>3. m \in 1..n
      BY <3>2
    <3> QED  BY <3>1, <3>3
  <2>3. n \in 0..Len(raw) /\ T \subseteq VisibleIn(t)
    OBVIOUS
  <2> HIDE DEF T
  <2>4. Cardinality(T) = n
    BY <1>2, <2>1, <2>2, <2>3
  <2> QED  BY <2>4 DEF T
<1> QED  BY <1>3, <1>4

\* The reader's view in the terms of the proof.
LEMMA ViewIs ==
  ASSUME text \in Seq(Marked)
  PROVE  /\ Visible = VisibleIn(text)
         /\ \A k : /\ TagsBefore(Open, k) = CountBefore(text, Open, k)
                   /\ TagsBefore(Close, k) = CountBefore(text, Close, k)
         /\ \A k : Red(k) <=> RedIn(text, k)
         /\ Tags(Open) = TagsOf(text, Open) /\ Tags(Close) = TagsOf(text, Close)
<1>1. Tags(Open) = TagsOf(text, Open) /\ Tags(Close) = TagsOf(text, Close)
  BY DEF Tags, TagsOf
<1>2. DOMAIN text = 1..Len(text)
  BY LenProperties
<1>3. Visible = VisibleIn(text)
  BY <1>1, <1>2 DEF Visible, InTags, VisibleIn, TwoTags
<1>4. \A k : TagsBefore(Open, k) = CountBefore(text, Open, k) /\ TagsBefore(Close, k) = CountBefore(text, Close, k)
  BY <1>1 DEF TagsBefore, CountBefore
<1> QED  BY <1>1, <1>3, <1>4 DEF Red, RedIn

\* Between two words the text without its markup is what was cut out, and every
\* tag that is opened is closed.
THEOREM MarkupIsReadBack == ExcerptSpec => []MarkupReadsBack
<1>1. TypeInv /\ HighlightInv => MarkupReadsBack
  <2> SUFFICES ASSUME TypeInv, HighlightInv, state \in {"words", "done"}, MarkupSafe
               PROVE  /\ Cardinality(Visible) = Len(raw_text)
                      /\ \A k \in Visible : text[k] = raw_text[Place(k)]
                      /\ \A k \in 1..Len(text) : TagsBefore(Close, k) <= TagsBefore(Open, k)
                      /\ Cardinality(Tags(Close)) = Cardinality(Tags(Open))
    BY DEF MarkupReadsBack
  <2>1. text \in Seq(Marked) /\ AllClosed(text) /\ \E v : Reads(text, raw_text, v)
    BY TextReads DEF HighlightInv
  <2>2. PICK v : Reads(text, raw_text, v)
    BY <2>1
  <2>3. text \in Seq(Marked) /\ Len(text) \in Nat /\ Len(raw_text) \in Nat
    BY <2>1, RawText, LenProperties DEF HighlightInv
  <2>4. /\ Cardinality(VisibleIn(text)) = Len(raw_text)
        /\ \A n \in 1..Len(raw_text) : Cardinality({j \in VisibleIn(text) : j <= v[n]}) = n
    BY <2>2, <2>3, PlaceIs
  <2>5. ASSUME NEW k \in Visible PROVE text[k] = raw_text[Place(k)]
    <3>1. PICK n \in 1..Len(raw_text) : v[n] = k /\ text[k] = raw_text[n]
      BY <2>2, <2>3, <2>5, ViewIs DEF Reads
    <3>2. Place(k) = n
      BY <2>3, <2>4, <3>1, ViewIs DEF Place
    <3> QED  BY <3>1, <3>2
  <2>6. ASSUME NEW k \in 1..Len(text) PROVE TagsBefore(Close, k) <= TagsBefore(Open, k)
    <3>1. k \in 1..(Len(text) + 1)
      BY <2>3
    <3> QED  BY <2>1, <2>3, <3>1, ViewIs DEF AllClosed
  <2>7. Cardinality(Tags(Close)) = Cardinality(Tags(Open))
    <3>1. ASSUME NEW tag \in TwoTags PROVE TagsOf(text, tag) = {j \in TagsOf(text, tag) : j < Len(text) + 1}
      <4>1. TagsOf(text, tag) \subseteq 1..Len(text)
        BY <2>3, TagsAreFinite
      <4> QED  BY <2>3, <4>1
    <3>2. ASSUME NEW tag \in TwoTags PROVE Cardinality(TagsOf(text, tag)) = CountBefore(text, tag, Len(text) + 1)
      BY <3>1 DEF CountBefore
    <3> QED  BY <2>1, <2>3, <3>2, ViewIs DEF AllClosed, TwoTags
  <2> QED  BY <2>3, <2>4, <2>5, <2>6, <2>7, ViewIs
<1>2. ExcerptSpec => []TypeInv
  BY ExcerptIsSearch, SearchInv, PTL
<1> QED  BY <1>1, <1>2, ExcerptInv, PTL

\* Where characters follow each other in the copy.
LEMMA NextToEachOther ==
  ASSUME NEW y, NEW m \in Int, NEW n \in Int, m <= n, y[m] \in Int,
         \A k \in m..(n - 1) : y[k + 1] = y[k] + 1
  PROVE  \A k \in m..n : y[k] = y[m] + (k - m)
<1> DEFINE T == {d \in Nat : m + d <= n /\ y[m + d] # y[m] + d}
<1>1. ASSUME T # {} PROVE FALSE
  <2>1. T \subseteq Nat
    OBVIOUS
  <2>2. PICK d \in T : \A e \in T : d <= e
    <3> HIDE DEF T
    <3> QED  BY <1>1, <2>1, LeastNumber
  <2>3. d \in Nat /\ m + d <= n /\ y[m + d] # y[m] + d
    BY <2>2
  <2>4. d # 0
    <3> SUFFICES ASSUME d = 0 PROVE FALSE
      OBVIOUS
    <3>1. m + d = m /\ y[m] + d = y[m]
      OBVIOUS
    <3> QED  BY <2>3, <3>1
  <2> DEFINE e == d - 1
             k == m + e
  <2>5. e \in Nat /\ m + e <= n /\ e < d /\ k \in m..(n - 1) /\ k + 1 = m + d
    BY <2>3, <2>4
  <2>6. y[k] = y[m] + e
    BY <2>2, <2>5
  <2>7. y[k + 1] = y[k] + 1
    BY <2>5
  <2>8. y[m + d] = y[m] + e + 1
    BY <2>5, <2>6, <2>7
  <2> QED  BY <2>3, <2>5, <2>8
<1> SUFFICES ASSUME NEW k \in m..n PROVE y[k] = y[m] + (k - m)
  OBVIOUS
<1>2. k - m \in Nat /\ m + (k - m) = k
  OBVIOUS
<1>3. k - m \notin T
  BY <1>1
<1> QED  BY <1>2, <1>3

\* Text without tags in it is read in a row.
LEMMA ReadInARow ==
  ASSUME NEW l \in Seq(Marked), NEW raw, Len(raw) \in Nat, NEW y, Reads(l, raw, y),
         NEW m \in 1..Len(raw), NEW pos \in Nat, pos <= y[m],
         \A k \in pos..y[m] : k \in VisibleIn(l)
  PROVE  \A k \in pos..y[m] : m - (y[m] - k) \in 1..Len(raw) /\ y[m - (y[m] - k)] = k
<1>0. /\ \A n \in 1..Len(raw) : y[n] \in Nat
      /\ \A j, k \in 1..Len(raw) : j < k => y[j] < y[k]
      /\ \A k \in VisibleIn(l) : \E n \in 1..Len(raw) : y[n] = k
  <2>1. \A n \in 1..Len(raw) : y[n] \in Nat
    BY ReadsIn
  <2> QED  BY <2>1 DEF Reads
<1> DEFINE Wrong(d) == ~(m - d \in 1..Len(raw) /\ y[m - d] = y[m] - d)
           T == {d \in Nat : pos <= y[m] - d /\ Wrong(d)}
<1>1. ASSUME T # {} PROVE FALSE
  <2>1. T \subseteq Nat
    OBVIOUS
  <2>2. PICK d \in T : \A e \in T : d <= e
    <3> HIDE DEF T
    <3> QED  BY <1>1, <2>1, LeastNumber
  <2>3. d \in Nat /\ pos <= y[m] - d /\ Wrong(d)
    BY <2>2
  <2>4. d # 0
    <3> SUFFICES ASSUME d = 0 PROVE FALSE
      OBVIOUS
    <3>1. m - d = m /\ y[m] - d = y[m]
      BY <1>0
    <3> QED  BY <2>3, <3>1
  <2> DEFINE e == d - 1
             n == m - e
  <2>5. e \in Nat /\ pos <= y[m] - e /\ e < d /\ y[m] \in Nat /\ d = e + 1
    BY <1>0, <2>3, <2>4
  <2>6. n \in 1..Len(raw) /\ y[n] = y[m] - e
    BY <2>2, <2>5
  <2> HIDE DEF e, n
  <2>7. y[m] - d \in pos..y[m] /\ y[m] - d = y[n] - 1
    <3> HIDE DEF T, Wrong
    <3> QED  BY <2>3, <2>5, <2>6
  <2>8. PICK j \in 1..Len(raw) : y[j] = y[m] - d
    BY <1>0, <2>7
  <2>9. j < n
    <3>1. n < j => y[n] < y[j]
      BY <1>0, <2>6
    <3>2. y[n] \in Nat /\ y[j] \in Nat
      BY <1>0, <2>6
    <3>3. y[j] = y[n] - 1
      BY <2>7, <2>8
    <3>4. j \in Nat /\ n \in Nat /\ j # n
      BY <2>6, <3>2, <3>3
    <3> QED  BY <3>1, <3>2, <3>3, <3>4
  <2>10. j = n - 1
    <3> SUFFICES ASSUME j < n - 1 PROVE FALSE
      BY <2>6, <2>9
    <3>1. n - 1 \in 1..Len(raw) /\ j < n - 1 /\ n - 1 < n
      BY <2>6
    <3>2. y[j] < y[n - 1] /\ y[n - 1] < y[n] /\ y[n - 1] \in Nat /\ y[j] \in Nat
      BY <1>0, <2>6, <3>1
    <3>3. y[j] = y[n] - 1 /\ y[n] \in Nat
      BY <1>0, <2>6, <2>7, <2>8
    <3> QED  BY ONLY <3>2, <3>3
  <2>11. m - d = n - 1
    BY <2>5 DEF n
  <2> QED  BY <2>3, <2>8, <2>10, <2>11
<1> SUFFICES ASSUME NEW k \in pos..y[m] PROVE m - (y[m] - k) \in 1..Len(raw) /\ y[m - (y[m] - k)] = k
  OBVIOUS
<1> DEFINE d == y[m] - k
<1>2. d \in Nat /\ pos <= y[m] - d /\ y[m] - d = k
  BY <1>0
<1>3. ~Wrong(d)
  BY <1>1, <1>2
<1> QED  BY <1>2, <1>3

\* A match that no tag divides stands in the copy as a word to be highlighted.
LEMMA MatchShines ==
  ASSUME TypeInv, CutOut, state # "none",
         NEW x \in PatternSet, OneWord(x), w_trimmed(x) = search_string(x),
         NEW i \in Nat, Occurs(x, i), IsMatch(x, i), NoneOverlaps(x, i),
         NEW l \in Seq(Marked), Apart(l, w_trimmed(x)),
         NEW y, Reads(l, raw_text, y),
         NEW first \in 1..Len(raw_text), first = i - from + 1,
         NEW last \in 1..Len(raw_text), last = i - from + Len(w_trimmed(x)),
         \A k \in first..(last - 1) : y[k + 1] = y[k] + 1
  PROVE  /\ Shines(l, x, y[first] - 1)
         /\ \A k \in first..last : y[k] \in (y[first] - 1 + 1)..(y[first] - 1 + Len(w_trimmed(x)))
<1> DEFINE word == w_trimmed(x)
           n == Len(word)
           pos == y[first] - 1
<1>0. /\ word \in Seq(Characters) /\ n \in Nat /\ n > 0
      /\ s \in Seq(Characters) /\ Len(s) \in Nat /\ Len(search_string(x)) = n
  <2>1. word \in Seq(Characters) /\ n \in Nat /\ Len(s) \in Nat /\ s \in Seq(Characters)
    BY PatternTypes DEF TypeInv
  <2>2. n > 0
    BY <2>1, NoSeparatorInside
  <2> QED  BY <2>1, <2>2
<1>1. /\ raw_text \in Seq(Marked) /\ Len(raw_text) \in Nat /\ from \in Nat /\ Len(l) \in Nat
      /\ \A m \in 1..Len(raw_text) : from + m \in 1..Len(s) /\ raw_text[m] = s[from + m]
  BY RawText, LenProperties DEF CutOut
<1>2. /\ \A m \in 1..Len(raw_text) : /\ y[m] \in VisibleIn(l) /\ y[m] \in 1..Len(l) /\ y[m] \in Nat
                                     /\ l[y[m]] = raw_text[m]
      /\ \A j, k \in 1..Len(raw_text) : j < k => y[j] < y[k]
      /\ \A k \in VisibleIn(l) : \E m \in 1..Len(raw_text) : y[m] = k
  BY ReadsIn DEF Reads
<1>3. i + n <= Len(s) /\ \A m \in 1..n : s[i + m] = word[m]
  <2>1. i + n <= Len(s) /\ SubSeq(s, i + 1, i + n) = word
    BY <1>0 DEF Occurs, OccursAt
  <2>2. \A m \in 1..((i + n) - (i + 1) + 1) : SubSeq(s, i + 1, i + n)[m] = s[(i + 1) + m - 1]
    <3>1. \A k \in (i + 1)..(i + n) : s[k] \in Characters
      BY <1>0, <2>1, ElementOfSeq
    <3> QED  BY <1>0, <3>1, SubSeqProperties
  <2>3. \A m \in 1..n : m \in 1..((i + n) - (i + 1) + 1) /\ (i + 1) + m - 1 = i + m
    BY <1>0
  <2> QED  BY <2>1, <2>2, <2>3
<1>4. /\ first \in Nat /\ first >= 1 /\ last \in Nat /\ last <= Len(raw_text)
      /\ first = i - from + 1 /\ last = i - from + n
      /\ first <= last /\ last - first = n - 1
      /\ y[first] \in Nat /\ y[last] \in Nat /\ pos \in Nat /\ pos + 1 = y[first]
  <2>1. y[first] \in 1..Len(l) /\ y[last] \in Nat /\ first = i - from + 1 /\ last = i - from + n
    BY <1>2
  <2>2. pos \in Nat /\ pos + 1 = y[first] /\ y[first] \in Nat
    <3> DEFINE e == y[first]
    <3>1. e \in 1..Len(l)
      BY <2>1
    <3> HIDE DEF e
    <3>2. e - 1 \in Nat /\ e - 1 + 1 = e /\ e \in Nat
      BY <1>1, <3>1
    <3> QED  BY <3>2 DEF e
  <2> HIDE DEF n, word, pos
  <2> QED  BY <1>0, <1>1, <2>1, <2>2
<1> HIDE DEF word, n, pos
<1>5. /\ first \in Int /\ last \in Int /\ from \in Int /\ i \in Int /\ n \in Int /\ pos \in Int
       /\ first = i - from + 1 /\ last - first = n - 1
  BY <1>0, <1>1, <1>4
<1>6. \A k \in first..last : y[k] = pos + 1 + (k - first)
  <2>1. first \in Int /\ last \in Int /\ y[first] \in Int /\ first <= last
    BY <1>4
  <2>2. \A k \in first..(last - 1) : y[k + 1] = y[k] + 1
    OBVIOUS
  <2>3. \A k \in first..last : y[k] = y[first] + (k - first)
    BY ONLY <2>1, <2>2, NextToEachOther
  <2> QED  BY <1>4, <2>3
<1>7. \A m \in 1..n : first + m - 1 \in 1..Len(raw_text) /\ y[first + m - 1] = pos + m
  <2> SUFFICES ASSUME NEW m \in 1..n PROVE first + m - 1 \in 1..Len(raw_text) /\ y[first + m - 1] = pos + m
    OBVIOUS
  <2> DEFINE k == first + m - 1
  <2>1. k \in first..last /\ k \in 1..Len(raw_text) /\ pos + 1 + (k - first) = pos + m
    BY <1>0, <1>1, <1>4
  <2> QED  BY <1>6, <2>1
<1>8. pos + n <= Len(l) /\ y[last] = pos + n
  <2>1. last \in first..last /\ pos + 1 + (last - first) = pos + n
    BY <1>0, <1>1, <1>4
  <2> QED  BY <1>2, <1>6, <2>1
<1>9. StandsIn(l, word, pos)
  <2>1. ASSUME NEW m \in 1..n PROVE l[pos + m] = word[m]
    <3> DEFINE k == first + m - 1
    <3>1. k \in 1..Len(raw_text) /\ y[k] = pos + m
      BY <1>7
    <3>2. from + k = i + m
      <4>1. m \in Int
        BY <1>0
      <4> QED  BY ONLY <1>5, <4>1
    <3> HIDE DEF k
    <3>3. l[pos + m] = raw_text[k] /\ raw_text[k] = s[from + k]
      BY <1>1, <1>2, <3>1
    <3> QED  BY <1>3, <3>2, <3>3
  <2> QED  BY <1>0, <1>1, <1>4, <1>8, <2>1 DEF StandsIn, n
\* What is in front of it and behind it there is a separator, or a tag.
<1>10. ASSUME NEW k \in 1..Len(l), k \notin VisibleIn(l)
      PROVE  \E tag \in TwoTags : \E j \in TagsOf(l, tag) : k \in j..(j + Len(tag) - 1)
  BY <1>10 DEF VisibleIn
<1>11. ASSUME NEW tag \in TwoTags, NEW j \in TagsOf(l, tag)
       PROVE  /\ j \in Nat \ {0} /\ Len(tag) \in Nat /\ Len(tag) >= 2 /\ j + Len(tag) - 1 <= Len(l)
              /\ l[j] \in Separators /\ l[j + Len(tag) - 1] \in Separators
  <2>1. /\ j \in Nat \ {0} /\ Len(tag) \in Nat /\ Len(tag) >= 2 /\ j + Len(tag) - 1 <= Len(l)
        /\ tag[1] = TagBegin /\ tag[Len(tag)] = TagEnd
        /\ \A m \in 1..Len(tag) : l[j + m - 1] = tag[m]
    BY TagIs, TagsOfIs
  <2>2. 1 \in 1..Len(tag) /\ Len(tag) \in 1..Len(tag) /\ j + 1 - 1 = j
    BY <2>1
  <2> QED  BY <2>1, <2>2, TagsAssumption
<1>12. \A k \in (pos + 1)..(pos + n) : k \in VisibleIn(l)
  <2> SUFFICES ASSUME NEW k \in (pos + 1)..(pos + n) PROVE k \in VisibleIn(l)
    OBVIOUS
  <2> DEFINE m == k - pos
  <2>1. m \in 1..n /\ pos + m = k
    BY <1>0, <1>4
  <2> QED  BY <1>2, <1>7, <2>1
<1>13. pos = 0 \/ WildcardInFront(x) \/ l[pos] \in Separators
  <2> SUFFICES ASSUME pos # 0, ~WildcardInFront(x) PROVE l[pos] \in Separators
    OBVIOUS
  <2>1. pos \in 1..Len(l) /\ pos + 1 \in (pos + 1)..(pos + n)
    BY <1>0, <1>1, <1>4, <1>8
  <2>2. CASE pos \in VisibleIn(l)
    <3>1. PICK m \in 1..Len(raw_text) : y[m] = pos
      BY <1>2, <2>2
    <3>2. m = first - 1
      <4>1. m < first
        <5>1. first < m => y[first] < y[m]
          BY <1>2
        <5>2. m \in Nat /\ m # first
          BY <1>4, <3>1
        <5> QED  BY <1>4, <3>1, <5>1, <5>2
      <4>2. ASSUME m < first - 1 PROVE FALSE
        <5>1. first - 1 \in 1..Len(raw_text) /\ first - 1 < first
          <6>1. m \in 1..Len(raw_text) /\ Len(raw_text) \in Nat
            BY <1>1
          <6>2. first <= Len(raw_text) /\ first \in Nat
            BY <1>4
          <6> QED  BY ONLY <4>2, <6>1, <6>2
        <5>2. y[m] < y[first - 1] /\ y[first - 1] < y[first] /\ y[first - 1] \in Nat
          BY <1>2, <4>2, <5>1
        <5>3. y[m] = pos /\ y[first] = pos + 1 /\ pos \in Int
          BY <1>4, <3>1
        <5> QED  BY ONLY <5>2, <5>3
      <4>3. m \in Int
        OBVIOUS
      <4> QED  BY ONLY <1>5, <4>1, <4>2, <4>3
    <3>3. i # 0 /\ from + m = i
      BY <1>1, <3>2
    <3>4. s[i] \in Separators
      BY <2>1, <3>3 DEF IsMatch, IsSeparator
    <3> QED  BY <1>1, <1>2, <3>1, <3>3, <3>4
  <2>3. CASE pos \notin VisibleIn(l)
    <3>1. PICK tag \in TwoTags : \E j \in TagsOf(l, tag) : pos \in j..(j + Len(tag) - 1)
      BY <1>10, <2>1, <2>3
    <3>2. PICK j \in TagsOf(l, tag) : pos \in j..(j + Len(tag) - 1)
      BY <3>1
    <3>3. pos + 1 \notin j..(j + Len(tag) - 1)
      BY <1>12, <2>1 DEF VisibleIn
    <3>4. pos = j + Len(tag) - 1
      <4>1. j \in Nat /\ Len(tag) \in Nat
        BY <1>11
      <4>2. j <= pos /\ pos <= j + Len(tag) - 1 /\ pos \in Nat
        BY <1>4, <3>2
      <4> QED  BY ONLY <3>3, <4>1, <4>2
    <3> QED  BY <1>11, <3>4
  <2> QED  BY <2>2, <2>3
<1>14. pos + n = Len(l) \/ WildcardBehind(x) \/ l[pos + n + 1] \in Separators
  <2> SUFFICES ASSUME pos + n # Len(l), ~WildcardBehind(x) PROVE l[pos + n + 1] \in Separators
    OBVIOUS
  <2>1. pos + n + 1 \in 1..Len(l) /\ pos + n \in (pos + 1)..(pos + n)
    BY <1>0, <1>1, <1>4, <1>8
  <2>2. CASE pos + n + 1 \in VisibleIn(l)
    <3>1. PICK m \in 1..Len(raw_text) : y[m] = pos + n + 1
      BY <1>2, <2>2
    <3>2. m = last + 1
      <4>1. last < m
        <5>1. m < last => y[m] < y[last]
          BY <1>2
        <5>2. y[m] = pos + n + 1 /\ y[last] = pos + n
          BY <1>8, <3>1
        <5>3. last \in Int /\ pos + n \in Int
          BY <1>5
        <5>4. m \in Nat /\ m # last
          BY <5>2, <5>3
        <5> QED  BY ONLY <5>1, <5>2, <5>3, <5>4
      <4>2. ASSUME last + 1 < m PROVE FALSE
        <5>1. last + 1 \in 1..Len(raw_text) /\ last < last + 1
          BY <1>1, <4>2
        <5>2. y[last] < y[last + 1] /\ y[last + 1] < y[m] /\ y[last + 1] \in Nat
          BY <1>2, <4>2, <5>1
        <5>3. y[m] = pos + n + 1 /\ y[last] = pos + n /\ pos + n \in Int
          BY <1>5, <1>8, <3>1
        <5> QED  BY ONLY <5>2, <5>3
      <4>3. m \in Int
        OBVIOUS
      <4> QED  BY ONLY <1>5, <4>1, <4>2, <4>3
    <3>3. from + m = i + n + 1 /\ i + n + 1 <= Len(s)
      <4>1. from + m = i + n + 1
        BY <1>0, <1>1, <3>2 DEF n, word
      <4>2. from + m \in 1..Len(s)
        BY <1>1
      <4> QED  BY <1>0, <4>1, <4>2
    <3>4. s[i + n + 1] \in Separators
      <4>1. Border(i + n)
        BY <1>0 DEF IsMatch
      <4>2. i + n # Len(s)
        BY <1>0, <3>3
      <4> QED  BY <4>1, <4>2 DEF Border, IsSeparator
    <3>5. raw_text[m] = s[from + m] /\ l[y[m]] = raw_text[m]
      BY <1>1, <1>2
    <3> QED  BY <3>1, <3>3, <3>4, <3>5
  <2>3. CASE pos + n + 1 \notin VisibleIn(l)
    <3>1. PICK tag \in TwoTags : \E j \in TagsOf(l, tag) : pos + n + 1 \in j..(j + Len(tag) - 1)
      BY <1>10, <2>1, <2>3
    <3>2. PICK j \in TagsOf(l, tag) : pos + n + 1 \in j..(j + Len(tag) - 1)
      BY <3>1
    <3>3. pos + n \notin j..(j + Len(tag) - 1)
      BY <1>12, <2>1 DEF VisibleIn
    <3>4. pos + n + 1 = j
      <4>1. j \in Nat /\ Len(tag) \in Nat
        BY <1>11
      <4>2. j <= pos + n + 1 /\ pos + n + 1 <= j + Len(tag) - 1 /\ pos + n \in Nat
        BY <1>0, <1>4, <3>2
      <4> QED  BY <3>3, <4>1, <4>2
    <3> QED  BY <1>11, <3>4
  <2> QED  BY <2>2, <2>3
<1>15. HighlightedAt(l, x, pos)
  BY <1>13, <1>14 DEF HighlightedAt, n, word
\* An occurrence that overlaps it in the copy is one in the text.
<1>16. ASSUME NEW j \in Nat, StandsIn(l, word, j), j < pos PROVE j + n <= pos
  <2> SUFFICES ASSUME pos < j + n PROVE FALSE
    BY <1>0, <1>4
  <2> DEFINE d == pos - j
  <2>0. d \in Nat /\ d > 0 /\ d < n
    BY <1>0, <1>4, <1>16
  <2>1. ASSUME NEW k \in (j + 1)..(j + n) PROVE k \in VisibleIn(l)
    <3>1. k \in 1..Len(l)
      BY <1>0, <1>1, <1>16 DEF StandsIn, n
    <3>2. ASSUME NEW tag \in TwoTags, NEW m \in TagsOf(l, tag) PROVE k \notin m..(m + Len(tag) - 1)
      <4>1. j + n < m \/ m + Len(tag) - 1 <= j
        BY <1>16 DEF Apart, n, word
      <4>2. m \in Nat /\ Len(tag) \in Nat
        BY <1>11
      <4>3. j \in Nat /\ n \in Nat /\ k \in (j + 1)..(j + n)
        BY <1>0
      <4> QED  BY ONLY <4>1, <4>2, <4>3
    <3> QED  BY <3>1, <3>2 DEF VisibleIn
  <2>2. \A k \in (j + 1)..y[first] : k \in VisibleIn(l)
    <3>1. \A k \in (j + 1)..y[first] : k \in (j + 1)..(j + n)
      <4>1. y[first] = pos + 1 /\ pos < j + n /\ j \in Int
        BY <1>4
      <4> QED  BY ONLY <1>5, <4>1
    <3> QED  BY <2>1, <3>1
  <2>3. \A k \in (j + 1)..y[first] : first - (y[first] - k) \in 1..Len(raw_text) /\ y[first - (y[first] - k)] = k
    <3>1. j + 1 \in Nat /\ j + 1 <= y[first]
      BY <1>4, <1>16
    <3> DEFINE e == j + 1
    <3>2. e \in Nat /\ e <= y[first] /\ \A k \in e..y[first] : k \in VisibleIn(l)
      BY <2>2, <3>1
    <3> HIDE DEF e
    <3>3. \A k \in e..y[first] : first - (y[first] - k) \in 1..Len(raw_text) /\ y[first - (y[first] - k)] = k
      <4>1. l \in Seq(Marked) /\ Len(raw_text) \in Nat /\ Reads(l, raw_text, y) /\ first \in 1..Len(raw_text)
        BY <1>1
      <4> QED  BY ONLY <3>2, <4>1, ReadInARow
    <3> QED  BY <3>3 DEF e
  <2>4. ASSUME NEW m \in 1..n PROVE i - d + m \in 1..Len(s) /\ s[i - d + m] = word[m]
    <3> DEFINE k == first - d + m - 1
    <3>1. k \in 1..Len(raw_text) /\ y[k] = j + m
      <4>1. CASE m <= d
        <5>1. j + m \in (j + 1)..y[first] /\ first - (y[first] - (j + m)) = k
          <6>1. y[first] = pos + 1 /\ j \in Int /\ m \in Int /\ 1 <= m
            BY <1>4
          <6> QED  BY ONLY <1>5, <2>0, <4>1, <6>1
        <5> HIDE DEF k
        <5> QED  BY <2>3, <5>1
      <4>2. CASE ~(m <= d)
        <5>1. m - d \in 1..n /\ first + (m - d) - 1 = k /\ pos + (m - d) = j + m
          BY <1>0, <1>1, <1>4, <2>0, <4>2
        <5> HIDE DEF k
        <5> QED  BY <1>7, <5>1
      <4> QED  BY <4>1, <4>2
    <3>2. from + k = i - d + m
      <4>1. m \in Int
        OBVIOUS
      <4> QED  BY ONLY <1>5, <2>0, <4>1
    <3>3. l[j + m] = word[m]
      BY <1>16 DEF StandsIn, n
    <3> HIDE DEF k
    <3>4. from + k \in 1..Len(s) /\ raw_text[k] = s[from + k]
      BY <1>1, <3>1
    <3>5. l[y[k]] = raw_text[k]
      BY <1>2, <3>1
    <3> QED  BY <3>1, <3>2, <3>3, <3>4, <3>5
  <2> DEFINE f == i - d
  <2>5. f \in 0..(Len(s) - n) /\ f < i /\ f \in Int /\ i < f + n
    <3>1. 1 \in 1..n /\ n \in 1..n
      BY <1>0
    <3>2. i - d + 1 \in 1..Len(s) /\ i - d + n \in 1..Len(s)
      BY <2>4, <3>1
    <3>3. i \in Int /\ d \in Int /\ n \in Int /\ Len(s) \in Int /\ 0 < d /\ d < n
      BY <1>0, <2>0
    <3> HIDE DEF d
    <3> QED  BY ONLY <3>2, <3>3
  <2>6. SubSeq(s, f + 1, f + n) = word
    <3>0. \A k \in (f + 1)..(f + n) : k \in 1..Len(s)
      BY ONLY <1>0, <2>5
    <3>1. \A k \in (f + 1)..(f + n) : s[k] \in Characters
      BY <1>0, <3>0, ElementOfSeq
    <3> HIDE DEF f
    <3> DEFINE q == SubSeq(s, f + 1, f + n)
    <3>2. /\ q \in Seq(Characters)
          /\ Len(q) = (IF f + 1 <= f + n THEN (f + n) - (f + 1) + 1 ELSE 0)
          /\ \A m \in 1..((f + n) - (f + 1) + 1) : q[m] = s[(f + 1) + m - 1]
      BY <1>0, <2>5, <3>1, SubSeqProperties
    <3> HIDE DEF q
    <3>3. Len(q) = n /\ \A m \in 1..n : q[m] = s[f + m]
      <4>1. \A m \in 1..n : m \in 1..((f + n) - (f + 1) + 1) /\ (f + 1) + m - 1 = f + m
        BY <1>0, <2>5
      <4>2. (f + n) - (f + 1) + 1 = n /\ f + 1 <= f + n
        BY <1>0, <2>5
      <4> QED  BY <3>2, <4>1, <4>2
    <3>4. \A m \in 1..n : q[m] = word[m]
      BY <2>4, <3>3 DEF f
    <3>5. Len(word) = n
      BY DEF n
    <3>6. q = word
      BY <1>0, <3>2, <3>3, <3>4, <3>5, SeqEqual
    <3> QED  BY <3>6 DEF q
  <2>7. Occurs(x, f)
    BY <1>0, <2>5, <2>6 DEF Occurs, OccursAt, word
  <2> HIDE DEF f
  <2>8. f + n <= i
    BY <1>0, <2>5, <2>7 DEF NoneOverlaps
  <2> QED  BY <1>0, <2>5, <2>8
<1>17. Shines(l, x, pos)
  BY <1>9, <1>15, <1>16 DEF Shines, n, word
<1>18. ASSUME NEW k \in first..last PROVE y[k] \in (pos + 1)..(pos + n)
  <2>1. y[k] = pos + 1 + (k - first)
    BY <1>6
  <2>2. k \in Int /\ first <= k /\ k <= last
    BY <1>5
  <2> QED  BY ONLY <1>5, <2>1, <2>2
<1> QED  BY <1>17, <1>18 DEF pos, n, word

LEMMA ReportedIs ==
  ASSUME TypeInv, Inv, CandidatesAreFirst, NEW x \in PatternSet, OneWord(x), NEW i \in ToSet(match_positions[x])
  PROVE  i \in Nat /\ Occurs(x, i) /\ IsMatch(x, i) /\ NoneOverlaps(x, i)
<1>1. match_positions[x] \in Seq(Nat)
  BY DEF TypeInv
<1>2. i \in MatchesOf(x)
  BY <1>1, LenProperties DEF ToSet, MatchesOf, Elements
<1> QED  BY <1>2 DEF Inv, MatchesAreRight, Occurs, CandidatesAreFirst

\* What find reported of a one-word pattern is red in the excerpt after its
\* turn, unless a tag of an earlier word divides it.
THEOREM FoundIsRed == ExcerptSpec => []MatchesAreRed
<1>1. TypeInv /\ Inv /\ CandidatesAreFirst /\ HighlightInv => MatchesAreRed
  <2> DEFINE x == patterns[w - 1]
             match(i) == {k \in Visible : Place(k) \in PlaceOf(x, i)}
  <2> SUFFICES ASSUME TypeInv, Inv, CandidatesAreFirst, HighlightInv,
                      state = "words", MarkupSafe, w > 1, OneWord(x), w_trimmed(x) = search_string(x),
                      NEW i \in ToSet(match_positions[x]),
                      ~ \E j, k \in match(i) : Place(k) = Place(j) + 1 /\ k # j + 1,
                      NEW k \in match(i)
               PROVE  Red(k)
    BY DEF MatchesAreRed
  <2> DEFINE n == Len(w_trimmed(x))
             first == i - from + 1
             last == i - from + n
  <2>1. x \in PatternSet /\ w # 1
    <3>1. w \in 1..(Len(patterns) + 1) /\ Len(patterns) \in Nat
      BY PatternTypes DEF HighlightInv, TypeInv
    <3>2. w - 1 \in Slots
      BY <3>1 DEF Slots
    <3> QED  BY <3>1, <3>2 DEF PatternSet
  <2>2. /\ CutOut /\ raw_text \in Seq(Marked) /\ Len(raw_text) \in Nat /\ from \in Nat
        /\ WordsHighlighted
    BY RawText DEF HighlightInv, CutOut
  <2>3. Kept(lower_text, text, x, Len(lower_text), offset, raw_text)
    BY <2>1, <2>2 DEF WordsHighlighted
  <2>4. PICK y, v : SideBySide(lower_text, text, x, Len(lower_text), offset, raw_text, y, v)
    BY <2>3 DEF Kept
  <2>5. /\ lower_text \in Seq(Marked) /\ Len(lower_text) \in Nat
        /\ text \in Seq(Marked) /\ Apart(lower_text, w_trimmed(x))
        /\ Reads(lower_text, raw_text, y) /\ Reads(text, raw_text, v)
    BY <2>3, <2>4, LenProperties DEF Kept, SideBySide
  <2>6. i \in Nat /\ Occurs(x, i) /\ IsMatch(x, i) /\ NoneOverlaps(x, i) /\ n \in Nat
    BY <2>1, ReportedIs, PatternTypes DEF TypeInv
  <2>7. \A m \in 1..Len(raw_text) : v[m] \in Visible /\ Place(v[m]) = m
    <3>1. \A m \in 1..Len(raw_text) : Cardinality({j \in VisibleIn(text) : j <= v[m]}) = m
      BY <2>2, <2>5, PlaceIs
    <3>2. \A m \in 1..Len(raw_text) : v[m] \in VisibleIn(text)
      BY <2>5, ReadsIn
    <3> QED  BY <2>5, <3>1, <3>2, ViewIs DEF Place
  <2>8. PICK m \in 1..Len(raw_text) : k = v[m]
    BY <2>5, ViewIs DEF Reads
  <2>9. first >= 1 /\ last <= Len(raw_text) /\ m \in first..last
    <3>1. Place(k) = m /\ Place(k) \in PlaceOf(x, i)
      BY <2>7, <2>8
    <3> QED  BY <3>1 DEF PlaceOf
  <2>10. first \in Int /\ last \in Int /\ first \in 1..Len(raw_text) /\ last \in 1..Len(raw_text)
    BY <2>2, <2>6, <2>9
  <2> HIDE DEF x, match
  <2>11. ASSUME NEW e \in first..(last - 1) PROVE y[e + 1] = y[e] + 1
    <3>1. e \in 1..Len(raw_text) /\ e + 1 \in 1..Len(raw_text) /\ e \in first..last /\ e + 1 \in first..last
          /\ e < e + 1
      BY <2>2, <2>9, <2>10
    <3> HIDE DEF n
    <3>2. \A j \in first..last : j \in PlaceOf(x, i)
      BY <2>9 DEF PlaceOf, n
    <3>3. v[e] \in match(i) /\ v[e + 1] \in match(i) /\ Place(v[e + 1]) = Place(v[e]) + 1
      BY <2>7, <3>1, <3>2 DEF match
    <3>4. v[e + 1] = v[e] + 1
      BY <3>3
    <3>5. y[e + 1] - y[e] <= v[e + 1] - v[e] /\ y[e] < y[e + 1]
      BY <2>4, <2>5, <3>1 DEF SideBySide, Reads
    <3>6. y[e] \in Nat /\ y[e + 1] \in Nat /\ v[e] \in Nat
      BY <2>5, <3>1, ReadsIn
    <3> QED  BY ONLY <3>4, <3>5, <3>6
  <2>12. /\ Shines(lower_text, x, y[first] - 1)
         /\ \A e \in first..last : y[e] \in (y[first] - 1 + 1)..(y[first] - 1 + Len(w_trimmed(x)))
    <3> DEFINE f == first
               l == last
    <3>1. /\ f \in 1..Len(raw_text) /\ f = i - from + 1 /\ l \in 1..Len(raw_text) /\ l = i - from + Len(w_trimmed(x))
          /\ \A e \in f..(l - 1) : y[e + 1] = y[e] + 1
      BY <2>10, <2>11
    <3> HIDE DEF f, l
    <3>2. /\ Shines(lower_text, x, y[f] - 1)
          /\ \A e \in f..l : y[e] \in (y[f] - 1 + 1)..(y[f] - 1 + Len(w_trimmed(x)))
      <4>1. TypeInv /\ CutOut /\ state # "none" /\ OneWord(x) /\ w_trimmed(x) = search_string(x)
        BY <2>2
      <4> QED  BY ONLY <2>1, <2>5, <2>6, <3>1, <4>1, MatchShines
    <3> QED  BY <3>2 DEF f, l
  <2>13. RedIn(text, v[m])
    <3> DEFINE before == y[first] - 1
    <3>1. y[first] \in 1..Len(lower_text)
      BY <2>5, <2>10, ReadsIn
    <3>2. before < Len(lower_text)
      BY <2>5, <3>1
    <3>3. Shines(lower_text, x, before) /\ y[m] \in (before + 1)..(before + Len(w_trimmed(x)))
      BY <2>9, <2>12
    <3> HIDE DEF before
    <3> QED  BY <2>4, <3>2, <3>3 DEF SideBySide
  <2> QED  BY <2>5, <2>8, <2>13, ViewIs
<1>2. ExcerptSpec => [](TypeInv /\ Inv /\ CandidatesAreFirst)
  BY ExcerptIsSearch, SearchInv, SearchIsFirst, PTL
<1> QED  BY <1>1, <1>2, ExcerptInv, PTL
==============================================================================
