------------------------------ MODULE Tokenizer ------------------------------
(***************************************************************************)
(* The checks of the Expression constructor and tokenize (Expression.cpp). *)
(*                                                                         *)
(* An expression is a text of characters.  Those that tokenize looks at    *)
(* are kept (Marks: the braces "{" and "}" and " ", which is any space, go *)
(* by their names); what stands between them is one symbol of Words, a     *)
(* name in a pattern or an operator with its number.                       *)
(*                                                                         *)
(* tokenize looks at the text twice.  The bracket check counts every       *)
(* bracket, wherever it stands.  The loop that splits the text ends a      *)
(* pattern at the first "}" and an operator at a space, "{" or "(", so     *)
(* that a pattern may hold "{", "(" and ")", an operator ")" and "}".      *)
(***************************************************************************)
EXTENDS Integers, SequencesExt

CONSTANTS
  Words,
  Expressions      (* The texts that are tried.                          *)

Marks == {"left_brace", "right_brace", "(", ")", "space"}
Symbols == Marks \cup Words

ASSUME ExpressionTextsAssumption ==
  Words \cap Marks = {} /\ Expressions \subseteq Seq(Symbols)

\* std::pair<std::string, TokenType>
Pattern(x) == [first |-> x, second |-> "STRING"]
Operator(x) == [first |-> x, second |-> "OPERATOR"]

LeftParen == Operator(<<"(">>)
RightParen == Operator(<<")">>)
Parentheses == {LeftParen, RightParen}

VARIABLES
  raw_expression,  (* e, the text.                                        *)
  cursor,          (* Index of the next symbol of either loop.            *)
  brackets,        (* parentheses_stack, top last.                        *)
  tokens,          (* tokenized_expression                                *)
  phase            (* "check", "split", what follows, or an outcome.      *)

token_vars == <<raw_expression, cursor, brackets, tokens, phase>>

TokenInit ==
  /\ raw_expression \in Expressions
  /\ cursor = 1
  /\ brackets = <<>>
  /\ tokens = <<>>
  /\ phase = "check"

symbol == raw_expression[cursor]
HasBrace == "left_brace" \in ToSet(raw_expression)
------------------------------------------------------------------------------
(* The checks: one action per branch of the loop over the characters. *)

NoBrace ==
  /\ phase = "check"
  /\ ~HasBrace
  /\ phase' = "syntax_error"
  /\ UNCHANGED <<raw_expression, cursor, brackets, tokens>>

Scanning ==
  /\ phase = "check"
  /\ HasBrace
  /\ cursor <= Len(raw_expression)
  /\ UNCHANGED <<raw_expression, tokens>>

PassSymbol ==
  /\ Scanning
  /\ symbol \notin {"left_brace", "right_brace", "(", ")"}
  /\ cursor' = cursor + 1
  /\ UNCHANGED <<brackets, phase>>

OpenBracket ==
  /\ Scanning
  /\ symbol \in {"left_brace", "("}
  /\ brackets' = Append(brackets, symbol)
  /\ cursor' = cursor + 1
  /\ UNCHANGED phase

\* Mutant: any bracket closes any other.
ClosesAny(top, mark) == mark \in {"right_brace", ")"}

Closes(top, mark) == <<top, mark>> \in {<<"left_brace", "right_brace">>, <<"(", ")">>}

IsClosed == brackets # <<>> /\ Closes(brackets[Len(brackets)], symbol)

CloseBracket ==
  /\ Scanning
  /\ symbol \in {"right_brace", ")"}
  /\ IsClosed
  /\ brackets' = SubSeq(brackets, 1, Len(brackets) - 1)
  /\ cursor' = cursor + 1
  /\ UNCHANGED phase

MismatchedBracket ==
  /\ Scanning
  /\ symbol \in {"right_brace", ")"}
  /\ ~IsClosed
  /\ phase' = "syntax_error"
  /\ UNCHANGED <<cursor, brackets>>

EndCheck ==
  /\ phase = "check"
  /\ HasBrace
  /\ cursor > Len(raw_expression)
  /\ \/ brackets = <<>> /\ phase' = "split" /\ cursor' = 1
     \/ brackets # <<>> /\ phase' = "syntax_error" /\ cursor' = cursor
  /\ UNCHANGED <<raw_expression, brackets, tokens>>
------------------------------------------------------------------------------
(* The loop that splits the text. *)

\* Where the first of some marks behind the cursor stands, if there is one.
FirstOf(marks) ==
  {n \in (cursor + 1)..Len(raw_expression) :
     /\ raw_expression[n] \in marks
     /\ \A k \in (cursor + 1)..(n - 1) : raw_expression[k] \notin marks}

Splitting ==
  /\ phase = "split"
  /\ cursor <= Len(raw_expression)
  /\ UNCHANGED <<raw_expression, brackets>>

SkipBlank ==
  /\ Splitting
  /\ symbol = "space"
  /\ cursor' = cursor + 1
  /\ UNCHANGED <<tokens, phase>>

\* There is a "}" ahead: the check has met the one that closes this "{".
SplitPattern ==
  /\ Splitting
  /\ symbol = "left_brace"
  /\ \E next \in FirstOf({"right_brace"}) :
       /\ tokens' = Append(tokens, Pattern(SubSeq(raw_expression, cursor + 1, next - 1)))
       /\ cursor' = next + 1
  /\ UNCHANGED phase

SplitParenthesis ==
  /\ Splitting
  /\ symbol \in {"(", ")"}
  /\ tokens' = Append(tokens, Operator(<<symbol>>))
  /\ cursor' = cursor + 1
  /\ UNCHANGED phase

BeginsOperator == symbol \notin {"space", "left_brace", "(", ")"}

SplitOperator ==
  /\ Splitting
  /\ BeginsOperator
  /\ \E next \in FirstOf({"space", "left_brace", "("}) :
       /\ tokens' = Append(tokens, Operator(SubSeq(raw_expression, cursor, next - 1)))
       /\ cursor' = next
  /\ UNCHANGED phase

\* The loop that looks for the end of an operator does not stop at the end of
\* the text.  It reads what lies behind: the process dies, or the loop ends
\* somewhere and the token is the rest of the text.
RunPastEnd ==
  /\ Splitting
  /\ BeginsOperator
  /\ FirstOf({"space", "left_brace", "("}) = {}
  /\ \/ phase' = "undefined" /\ UNCHANGED <<cursor, tokens>>
     \/ /\ tokens' = Append(tokens, Operator(SubSeq(raw_expression, cursor, Len(raw_expression))))
        /\ cursor' = Len(raw_expression) + 1
        /\ UNCHANGED phase

EndSplit ==
  /\ phase = "split"
  /\ cursor > Len(raw_expression)
  /\ phase' = "convert"
  /\ UNCHANGED <<raw_expression, cursor, brackets, tokens>>

TokenNext ==
  \/ NoBrace \/ PassSymbol \/ OpenBracket \/ CloseBracket \/ MismatchedBracket \/ EndCheck
  \/ SkipBlank \/ SplitPattern \/ SplitParenthesis \/ SplitOperator \/ RunPastEnd \/ EndSplit
------------------------------------------------------------------------------
(* What may be among the tokens. *)

\* A "{" and the first "}" behind it.
Stretches(e) ==
  {i \in (1..Len(e)) \X (1..Len(e)) :
     /\ i[1] < i[2] /\ e[i[1]] = "left_brace" /\ e[i[2]] = "right_brace"
     /\ \A k \in (i[1] + 1)..(i[2] - 1) : e[k] # "right_brace"}

Patterns ==
  UNION {{Pattern(SubSeq(e, i[1] + 1, i[2] - 1)) : i \in Stretches(e)} : e \in Expressions}

Tokens == Patterns \cup {Operator(x) : x \in Seq(Symbols)}
==============================================================================
