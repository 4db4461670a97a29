----------------------------- MODULE MCNearScan -----------------------------
(***************************************************************************)
(* NearScan over every pair of ascending lists of at most MaxLen positions *)
(* up to MaxPos, repeated positions included.                              *)
(***************************************************************************)
EXTENDS NearScan

CONSTANTS MaxPos, MaxLen, MaxDistance

Ascending(s) == \A j \in 1..(Len(s) - 1) : s[j] <= s[j + 1]

MCInputs == {s \in UNION {[1..n -> 0..MaxPos] : n \in 0..MaxLen} : Ascending(s)}
MCDistances == 0..MaxDistance

==============================================================================
