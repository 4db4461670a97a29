------------------------------- MODULE MCFind -------------------------------
(***************************************************************************)
(* Find over every text of at most MaxText characters, two letters and a   *)
(* space, and lists of one or two patterns.                                *)
(***************************************************************************)
EXTENDS Excerpt

\* A word in it can be searched for.
MCOpen == <<"<", "i", ">">>
MCClose == <<"<", "/", ">">>

CONSTANTS MaxText, SearchStrings

MCTexts == UNION {[1..n -> {"i", "n", " "}] : n \in 0..MaxText}

Words == {<<"i">>, <<"i", "n">>}
WordsAndPhrase == Words \cup {<<"n", " ", "n">>}

Star == {<<>>, <<"*">>}
MCPatterns == {x \o str \o y : x \in Star, str \in SearchStrings, y \in Star}

OnePattern == [1..1 -> MCPatterns]
TwoPatterns == OnePattern \cup [1..2 -> MCPatterns]
==============================================================================
