----------------------------- MODULE MCEvaluator -----------------------------
(***************************************************************************)
(* Evaluator over the expressions of the grammar with at most three        *)
(* operands, parenthesised in every way, and over every text put together  *)
(* of at most MaxPieces pieces, nearly all of which are not expressions.   *)
(***************************************************************************)
EXTENDS Evaluator

CONSTANT MaxPieces

Names == {"china", "russia"}
MCNear == {"@", "@1", "@x"}
MCNotNear == {"!@1"}
MCWords == Names \cup MCNear \cup MCNotNear \cup {"&", "!&", "+"}
MCNumber == [w \in {"@1", "!@1"} |-> 1]

Braced(x) == <<"left_brace", x, "right_brace">>
Parenthesised(E) == {<<"(">> \o e \o <<")">> : e \in E}
Combined(E, between, T) == {e \o <<op>> \o t : e \in E, op \in between, t \in T}
MCOperators == {"@", "@1", "!@1", "&", "!&", "+"}

\* Terms and expressions by their number of operands.
Terms1 == {Braced(x) : x \in Names} \cup Parenthesised({Braced(x) : x \in Names})
Sums2 == Combined(Terms1, MCOperators, Terms1)
Braced2 == Combined({Braced(x) : x \in Names}, MCOperators, {Braced(x) : x \in Names})
Terms2 == Parenthesised(Braced2)
Sums3 == Combined(Terms1, MCOperators, Terms2)
           \cup Combined(Sums2 \cup Terms2, MCOperators, {Braced(x) : x \in Names})

\* With spaces, and with an operator that has no number.
Spaced ==
  {Braced("china") \o <<"space", op, "space">> \o Braced("russia") : op \in MCOperators \cup {"@x"}}

\* Two words in a row would be one.
Pieces == {Braced("china"), <<"@1">>, <<"(">>, <<")">>, <<"left_brace">>, <<"right_brace">>}
PutTogether ==
  {FoldLeft(LAMBDA e, piece : e \o piece, <<>>, list) :
     list \in UNION {[1..n -> Pieces] : n \in 0..MaxPieces}}
PieceTexts ==
  {e \in PutTogether : \A k \in 1..(Len(e) - 1) : {e[k], e[k + 1]} \cap Marks # {}}

MCExpressions == Terms1 \cup Sums2 \cup Terms2 \cup Sums3 \cup Spaced \cup PieceTexts

MCLocationMaps ==
  {[x \in Patterns |-> IF "china" \in ToSet(x.first) THEN l[1] ELSE l[2]] :
     l \in {<<<<0, 3>>, <<2, 5>>>>, <<<<5>>, <<2, 3, 5>>>>}}
==============================================================================
