------------------------------ MODULE Evaluator ------------------------------
(***************************************************************************)
(* From a search expression to its matches: the Expression constructor     *)
(* (tokenize, in Tokenizer, and the shunting yard convert_to_rpn,          *)
(* Expression.cpp), and the stack machine evaluate_expression (snap.cpp)   *)
(* that runs the resulting queue over the position lists of the patterns.  *)
(*                                                                         *)
(* A word of Near or NotNear begins with "@" or "!@".  Number is what stoi *)
(* makes of the rest; it is not defined for a word that stoi throws on.    *)
(***************************************************************************)
EXTENDS Tokenizer, Loci

CONSTANTS
  Near, NotNear,
  Number,
  DefaultDistance,
  LocationMaps     (* The results of find: Patterns to ascending lists.  *)

ASSUME DistanceAssumption ==
  /\ Near \cup NotNear \subseteq Words
  /\ DOMAIN Number \subseteq (Near \cup NotNear) \ {"@", "!@"}
  /\ \A w \in DOMAIN Number : Number[w] \in Nat
  /\ DefaultDistance \in Nat
ASSUME LocationsAssumption ==
  \A loc \in LocationMaps :
    loc \in [Patterns -> Seq(Nat)] /\ \A x \in Patterns : Ascending(loc[x])

VARIABLES
  locations,     (* The position lists of the patterns.                   *)
  idx,           (* Index of the next token to convert.                   *)
  ops,           (* s: operator stack of convert_to_rpn, top last.        *)
  rpn,           (* The queue it fills and evaluate_expression drains.    *)
  operands,      (* Operand stack of evaluate_expression: keys, top last. *)
  newLocations   (* new_locations: the lists of the inner expressions.    *)

written == <<raw_expression, cursor, brackets>>
yard == <<idx, ops>>
machine == <<operands, newLocations>>
query == <<tokens, locations>>
eval_vars == <<token_vars, locations, idx, ops, rpn, operands, newLocations>>

Outcomes == {"done", "syntax_error", "invalid_argument", "undefined"}

\* The keys of operator_precedence, all of precedence 2 and left associative.
Recognized == {<<"!@">>, <<"@">>, <<"!&">>, <<"&">>, <<"+">>}
Precedence(operator_symbol) == 2
RightAssociative(operator_symbol) == FALSE

IsOperator(t) == t \notin Patterns \cup Parentheses

\* Whatever begins with "!@" or "@" is taken for it, the whole token otherwise.
Symbol(t) ==
  IF t.first[1] \in NotNear THEN <<"!@">> ELSE IF t.first[1] \in Near THEN <<"@">> ELSE t.first

EvalInit ==
  /\ TokenInit
  /\ locations \in LocationMaps
  /\ idx = 1
  /\ ops = <<>>
  /\ rpn = <<>>
  /\ operands = <<>>
  /\ newLocations = <<>>

Tokenize == TokenNext /\ UNCHANGED <<locations, yard, rpn, machine>>
------------------------------------------------------------------------------
(* The constructor: convert_to_rpn, one action per branch of its loop. *)

Convert(isBranch) ==
  /\ phase = "convert"
  /\ idx <= Len(tokens)
  /\ isBranch
  /\ UNCHANGED <<machine, query, written>>

token == tokens[idx]

PushPattern ==
  /\ Convert(token \in Patterns)
  /\ rpn' = Append(rpn, token)
  /\ idx' = idx + 1
  /\ UNCHANGED <<ops, phase>>

\* Mutant: an operator that is not recognised is passed over, but stays.
IgnoreOperator ==
  /\ Convert(IsOperator(token) /\ Symbol(token) \notin Recognized)
  /\ UNCHANGED <<rpn, yard, phase>>

RejectOperator ==
  /\ Convert(IsOperator(token) /\ Symbol(token) \notin Recognized)
  /\ phase' = "syntax_error"
  /\ UNCHANGED <<rpn, yard>>

\* Mutant: operators of one precedence group to the right.
TakesPrecedenceStrictly(top, new) == Precedence(top) > Precedence(new)

TakesPrecedence(top, new) ==
  \/ ~RightAssociative(top) /\ Precedence(top) >= Precedence(new)
  \/ RightAssociative(top) /\ Precedence(top) > Precedence(new)

\* One round of the inner while: the operator on top goes to the queue.
MustPop ==
  /\ ops # <<>>
  /\ IsOperator(Last(ops))
  /\ TakesPrecedence(Symbol(Last(ops)), Symbol(token))

PopOperator ==
  /\ Convert(IsOperator(token) /\ Symbol(token) \in Recognized /\ MustPop)
  /\ rpn' = Append(rpn, Last(ops))
  /\ ops' = Front(ops)
  /\ UNCHANGED <<idx, phase>>

PushOperator ==
  /\ Convert(IsOperator(token) /\ Symbol(token) \in Recognized /\ ~MustPop)
  /\ ops' = Append(ops, token)
  /\ idx' = idx + 1
  /\ UNCHANGED <<rpn, phase>>

OpenParenthesis ==
  /\ Convert(token = LeftParen)
  /\ ops' = Append(ops, token)
  /\ idx' = idx + 1
  /\ UNCHANGED <<rpn, phase>>

CloseParenthesis ==
  /\ Convert(token = RightParen)
  /\ ops # <<>>
  /\ \/ /\ Last(ops) # LeftParen
        /\ rpn' = Append(rpn, Last(ops))
        /\ ops' = Front(ops)
        /\ UNCHANGED <<idx, phase>>
     \/ /\ Last(ops) = LeftParen
        /\ ops' = Front(ops)
        /\ idx' = idx + 1
        /\ UNCHANGED <<rpn, phase>>

\* The code reads s.top() without asking whether the stack is empty.
EmptyStack ==
  /\ Convert(token = RightParen)
  /\ ops = <<>>
  /\ phase' = "undefined"
  /\ UNCHANGED <<rpn, yard>>

\* After the last token the stack is emptied into the queue.
Drain ==
  /\ phase = "convert"
  /\ idx > Len(tokens)
  /\ rpn' = rpn \o Reverse(ops)
  /\ ops' = <<>>
  /\ phase' = "evaluate"
  /\ UNCHANGED <<idx, machine, query, written>>
------------------------------------------------------------------------------
(* evaluate_expression, one action per element of the queue. *)

\* Patterns and inner expressions share one space of keys, strings in the
\* code; a key is the sequence of tokens it spells.
LociOf(key) ==
  IF key \in {<<x>> : x \in Patterns} THEN locations[key[1]] ELSE newLocations[key]

IsNear(op) == op.first \notin {<<"&">>, <<"!&">>, <<"+">>}
IsBare(op) == op.first \in {<<"@">>, <<"!@">>, <<"(">>}

\* stoi reads the digits after "@" or "!@", whatever follows them, and throws
\* if there are none.  A "(" has no character behind its first.
HasDistance(op) == IsNear(op) /\ ~IsBare(op) => op.first[1] \in DOMAIN Number
Distance(op) == IF IsBare(op) THEN DefaultDistance ELSE Number[op.first[1]]

Apply(op, aloci, bloci) ==
  CASE op.first = <<"&">>    -> andv(aloci, bloci)
    [] op.first = <<"!&">>   -> notandv(aloci, bloci)
    [] op.first = <<"+">>    -> orv(aloci, bloci)
    [] Symbol(op) = <<"!@">> -> notnearv(aloci, bloci, Distance(op))
    [] OTHER                 -> nearv(aloci, bloci, Distance(op))

PushOperand ==
  /\ phase = "evaluate"
  /\ rpn # <<>>
  /\ Head(rpn) \in Patterns
  /\ operands' = Append(operands, <<Head(rpn)>>)
  /\ rpn' = Tail(rpn)
  /\ UNCHANGED <<newLocations, yard, phase, query, written>>

ApplyOperator ==
  /\ phase = "evaluate"
  /\ rpn # <<>>
  /\ Head(rpn) \notin Patterns
  /\ Len(operands) >= 2
  /\ HasDistance(Head(rpn))
  /\ LET n   == Len(operands)
         a   == operands[n - 1]
         b   == operands[n]
         key == <<LeftParen>> \o a \o <<Head(rpn)>> \o b \o <<RightParen>>
         result == Apply(Head(rpn), LociOf(a), LociOf(b))
     IN  /\ newLocations' =
              [x \in DOMAIN newLocations \cup {key} |->
                 IF x = key THEN result ELSE newLocations[x]]
         /\ operands' = Append(SubSeq(operands, 1, n - 2), key)
  /\ rpn' = Tail(rpn)
  /\ UNCHANGED <<yard, phase, query, written>>

\* operands.top() and pop() on a stack that ran empty.
Underflow ==
  /\ phase = "evaluate"
  /\ rpn # <<>>
  /\ Head(rpn) \notin Patterns
  /\ Len(operands) < 2
  /\ phase' = "undefined"
  /\ UNCHANGED <<rpn, yard, machine, query, written>>

\* The exception of stoi, which no program catches.
NumberMissing ==
  /\ phase = "evaluate"
  /\ rpn # <<>>
  /\ Head(rpn) \notin Patterns
  /\ Len(operands) >= 2
  /\ ~HasDistance(Head(rpn))
  /\ phase' = "invalid_argument"
  /\ UNCHANGED <<rpn, yard, machine, query, written>>

ReturnLoci ==
  /\ phase = "evaluate"
  /\ rpn = <<>>
  /\ phase' = "done"
  /\ UNCHANGED <<rpn, yard, machine, query, written>>

EvalNext ==
  \/ Tokenize
  \/ PushPattern \/ RejectOperator \/ PopOperator \/ PushOperator
  \/ OpenParenthesis \/ CloseParenthesis \/ EmptyStack \/ Drain
  \/ PushOperand \/ ApplyOperator \/ Underflow \/ NumberMissing \/ ReturnLoci

EvalSpec == EvalInit /\ [][EvalNext]_eval_vars
FairEvalSpec == EvalSpec /\ WF_eval_vars(EvalNext)
------------------------------------------------------------------------------
(* What an expression means, by its grammar over the tokens:               *)
(*   expression ::= term | expression operator term                        *)
(*   term       ::= pattern | ( expression )                               *)
(* Operators have no precedence among each other and group to the left.    *)

\* How many open marks are still to be closed after n elements of q.
Nesting(q, n, open, close) ==
  Cardinality({k \in 1..n : q[k] = open}) - Cardinality({k \in 1..n : q[k] = close})

TokenDepth(n) == Nesting(tokens, n, LeftParen, RightParen)

TokensBalanced ==
  /\ \A n \in 1..Len(tokens) : TokenDepth(n) >= 0
  /\ TokenDepth(Len(tokens)) = 0

\* The positions at which tokens lo..hi may be cut into a left operand, an
\* operator and a term: operators outside all parentheses.
Cuts(lo, hi) ==
  {k \in (lo + 1)..(hi - 1) : IsOperator(tokens[k]) /\ TokenDepth(k) = TokenDepth(lo - 1)}

Intervals == (1..Len(tokens)) \X (1..Len(tokens))

WellFormed[i \in Intervals] ==
  LET lo == i[1]
      hi == i[2]
      k == Max(Cuts(lo, hi))
  IN  \/ lo = hi /\ tokens[lo] \in Patterns
      \/ /\ hi > lo + 1 /\ tokens[lo] = LeftParen /\ tokens[hi] = RightParen
         /\ Cuts(lo, hi) = {}
         /\ WellFormed[<<lo + 1, hi - 1>>]
      \/ /\ Cuts(lo, hi) # {}
         /\ Symbol(tokens[k]) \in Recognized
         /\ WellFormed[<<lo, k - 1>>]
         /\ WellFormed[<<k + 1, hi>>]

\* An expression of less than three tokens is a pattern.
Meaning[i \in Intervals] ==
  LET lo == i[1]
      hi == i[2]
      k == Max(Cuts(lo, hi))
  IN  IF hi <= lo + 1 THEN locations[tokens[lo]]
      ELSE IF Cuts(lo, hi) = {} THEN Meaning[<<lo + 1, hi - 1>>]
      ELSE Apply(tokens[k], Meaning[<<lo, k - 1>>], Meaning[<<k + 1, hi>>])

\* The whole text has been split, into an expression all of whose operators
\* have the number they need.
IsExpression ==
  /\ cursor > Len(raw_expression)
  /\ tokens # <<>>
  /\ TokensBalanced
  /\ WellFormed[<<1, Len(tokens)>>]
  /\ \A k \in 1..Len(tokens) : IsOperator(tokens[k]) => HasDistance(tokens[k])

\* Tokens that are an expression of the grammar are not rejected, run no stack
\* empty, and are evaluated to their meaning: operators group to the left,
\* parentheses group what they enclose, and one operand key is left at the end.
ExpressionGetsItsMeaning ==
  phase \in Outcomes /\ IsExpression =>
    /\ phase = "done"
    /\ Len(operands) = 1
    /\ LociOf(operands[1]) = Meaning[<<1, Len(tokens)>>]

\* Every list the stack machine computes is ascending, which nearv, notnearv
\* and the callers of evaluate_expression rely on.
ListsAscending == \A key \in DOMAIN newLocations : Ascending(newLocations[key])

\* No pattern holds a "{", no operator a ")": what the bracket check sees of a
\* text is what is left of it in the tokens.
BracesApart ==
  \A k \in 1..Len(tokens) : tokens[k] \in Patterns => "left_brace" \notin ToSet(tokens[k].first)
ParenthesesApart ==
  \A k \in 1..Len(tokens) : IsOperator(tokens[k]) => ")" \notin ToSet(tokens[k].first)

\* The bracket check is over the characters, conversion works on the tokens.
\* Of a text that passed the check, each ")" finds its "(" on the stack unless
\* a pattern holds a "{", as in {({a})}.  No "(" is left for evaluate_expression
\* to take for an operator, unless an operator holds a ")", too: of ({a} @5) {b}
\* the tokens are "(", a, "@5)" and b.
ParenthesesMatched ==
  BracesApart =>
    /\ phase = "convert" /\ idx <= Len(tokens) /\ token = RightParen => LeftParen \in ToSet(ops)
    /\ phase = "evaluate" /\ ParenthesesApart => \A k \in 1..Len(rpn) : rpn[k] # LeftParen

\* Check, splitting, conversion and evaluation end, whatever is written.
Termination == <>(phase \in Outcomes)
==============================================================================
