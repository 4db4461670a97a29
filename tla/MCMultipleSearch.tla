-------------------------- MODULE MCMultipleSearch --------------------------
(***************************************************************************)
(* MultipleSearch for one string, two, and one entered twice, and files of *)
(* at most MaxPrograms programs and MaxMatches matches together.           *)
(***************************************************************************)
EXTENDS MultipleSearch, TLC, SequencesExt

CONSTANTS MaxPrograms, MaxMatches, Lefts, Rights

MCWindows == Lefts \cup Rights
MCMatches == [left : Lefts, right : Rights]
MCSearchLists == {<<1>>, <<1, 1>>, <<1, 2>>, <<1, 1, 2>>}

MCPrograms == [Strings -> UNION {[1..n -> MCMatches] : n \in 0..MaxMatches}]

MatchesIn(ps) ==
  Len(FlattenSeq([k \in DOMAIN ps |-> FlattenSeq(ps[k])]))
MCFiles ==
  {ps \in UNION {[1..n -> MCPrograms] : n \in 0..MaxPrograms} : MatchesIn(ps) <= MaxMatches}

WindowSymmetry == Permutations(Lefts) \cup Permutations(Rights)
=============================================================================
