--------------------------- MODULE MCNearSearch ----------------------------
(***************************************************************************)
(* NearSearchProgram over one program with any pair of ascending lists of  *)
(* at most MaxLen positions up to MaxPos, repeated positions included, and *)
(* over ranges of MaxDays days, missing and corrupt ones included, with up *)
(* to MaxPrograms programs of short lists a day.                           *)
(***************************************************************************)
EXTENDS NearSearchProgram

CONSTANTS MaxPos, MaxLen, MaxDistance, MaxDays, MaxPrograms

Ascending(s) == \A j \in 1..(Len(s) - 1) : s[j] <= s[j + 1]

MCInputs == {s \in UNION {[1..n -> 0..MaxPos] : n \in 0..MaxLen} : Ascending(s)}
MCDistances == 0..MaxDistance

OneProgram == {<<Day("parsed", <<<<x, y>>>>)>> : x \in MCInputs, y \in MCInputs}

ShortPrograms == {<<<<>>, <<1>>>>, <<<<1>>, <<1>>>>, <<<<0, 4>>, <<1>>>>, <<<<0, 1>>, <<0, 1>>>>}

Days ==
  {Day("missing", <<>>), Day("corrupt", <<>>)}
    \cup {Day("parsed", ps) : ps \in UNION {[1..n -> ShortPrograms] : n \in 0..MaxPrograms}}

MCRanges == OneProgram \cup [1..MaxDays -> Days]
==============================================================================
