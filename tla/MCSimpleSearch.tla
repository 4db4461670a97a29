--------------------------- MODULE MCSimpleSearch ---------------------------
(***************************************************************************)
(* SimpleSearch for files of at most MaxPrograms programs and MaxMatches   *)
(* matches together, and for all lists of at most MaxNames names of at     *)
(* most MaxLen characters without any file.                                *)
(***************************************************************************)
EXTENDS SimpleSearch, TLC

CONSTANTS MaxPrograms, MaxMatches, Lefts, Rights, Chars, MaxLen, MaxNames

MCWindows == Lefts \cup Rights
MCMatches == [left : Lefts, right : Rights]

\* Empty lines are removed from the list before it is filtered.
Names == UNION {[1..n -> Chars] : n \in 1..MaxLen}
MCTitles == UNION {[1..n -> Chars] : n \in 0..(MaxLen + 1)}

OneName == <<<<1>>>>
MCQueries ==
  [dates : {{}}, all_programs : {FALSE}, names : UNION {[1..n -> Names] : n \in 0..MaxNames}]
    \cup [dates : {{1, 2}}, all_programs : {FALSE}, names : {OneName}]
    \cup [dates : {{1}}, all_programs : {TRUE}, names : {<<>>, OneName}]

\* A program that OneName does not select has a match that must not be
\* counted.
MCPrograms ==
  [title : {<<1, 2>>}, matches : UNION {[1..n -> MCMatches] : n \in 0..MaxMatches}]
    \cup [title : {<<2>>}, matches : [1..1 -> MCMatches]]

MatchesIn[ps \in Seq(MCPrograms)] ==
  IF ps = <<>> THEN 0 ELSE Len(Head(ps).matches) + MatchesIn[Tail(ps)]

MCFiles ==
  {ps \in UNION {[1..n -> MCPrograms] : n \in 0..MaxPrograms} : MatchesIn[ps] <= MaxMatches}

WindowSymmetry == Permutations(Lefts) \cup Permutations(Rights)
=============================================================================
