----------------------------- MODULE MCHotList -----------------------------
(***************************************************************************)
(* HotList for two programs, in one interval or one in each: any text of   *)
(* at most MaxLen of two letters and a space, and some longer ones, with a *)
(* full stop (3) or characters above 127 (-2, -3) in some.                 *)
(***************************************************************************)
EXTENDS HotList

CONSTANT MaxLen

LongerTexts ==
  {<<1, 4, 2, 1, 4>>, <<1, 4, 2, 1, 4, 2>>, <<4, 1, 4, 3, 1, 4>>, <<1, 4, 2, 1, 1, 2, 1, 4>>,
   <<1, 4, -2, 4>>, <<1, 4, -2>>, <<-2, 1, 4, 2, 1, 4>>, <<-3, -2, 1, 4>>}

MCTexts == UNION {[1..n -> {1, 2, 4}] : n \in 0..MaxLen} \cup LongerTexts
=============================================================================
