---------------------------- MODULE Expressions ----------------------------
(* "expr::" values of a configuration file (config/preprocessor.py, class    *)
(* Expr): lexing, infix to postfix with an operator stack, evaluation on a   *)
(* value stack. Arithmetic is free: the value of an expression is the tree   *)
(* of operations that were carried out, so two expressions are equal here    *)
(* exactly if they are for every choice of numbers.                          *)
EXTENDS Integers, Sequences, SequencesExt

\* A source is a sequence of lexemes; "-" right before a number belongs to it,
\* and a blank keeps them apart.
CONSTANTS
  Number,       \* numbers
  Name          \* references to variables that hold numbers

ASSUME LexemesAssumption ==
  (Number \cup Name) \cap {"**", "*", "+", "-", "(", ")", " "} = {}

Operand == Number \cup Name

Operator == {"**", "*", "+", "-"}
Prec(o) == CASE o = "**" -> 20 [] o = "*" -> 10 [] OTHER -> 0
LeftAssociative(o) == o # "**"

Leaf(n) == <<n>>
Apply(o, a, b) == <<o, a, b>>
Refused == <<>>

\* A sign is read as part of the number behind it, whatever stands before it.
Tokens(src) ==
  LET Blank(i) == src[i] = " "
      Sign(i) == i < Len(src) /\ src[i] = "-" /\ src[i + 1] \in Number
      Signed(i) == i > 1 /\ Sign(i - 1)
      At(i) == IF Blank(i) \/ Sign(i) THEN <<>>
               ELSE IF Signed(i) THEN << <<"number", "-" \o src[i]>> >>
               ELSE << <<IF src[i] \in Operand THEN "number" ELSE "symbol", src[i]>> >>
  IN  FlattenSeq([i \in 1..Len(src) |-> At(i)])

Yields(top, o) == \/ LeftAssociative(o) /\ Prec(o) <= Prec(top)
                  \/ ~LeftAssociative(o) /\ Prec(o) < Prec(top)

\* Mutant of PopFor: operators of equal rank are never popped.
RECURSIVE PopForHigher(_, _)
PopForHigher(s, o) ==
  IF s.ops = <<>> \/ Last(s.ops) = "(" \/ ~(Prec(o) < Prec(Last(s.ops))) THEN s
  ELSE LET t == [s EXCEPT !.ops = Front(@), !.out = Append(@, <<"symbol", Last(s.ops)>>)]
       IN  IF t.ops # <<>> /\ Last(t.ops) = "(" THEN [t EXCEPT !.ok = FALSE] ELSE PopForHigher(t, o)

\* The loop that pops operators asks the precedence of whatever it uncovers:
\* of an opening parenthesis it has none, and the question raises a TypeError.
RECURSIVE PopFor(_, _)
PopFor(s, o) ==
  IF s.ops = <<>> \/ Last(s.ops) = "(" \/ ~Yields(Last(s.ops), o) THEN s
  ELSE LET t == [s EXCEPT !.ops = Front(@), !.out = Append(@, <<"symbol", Last(s.ops)>>)]
       IN  IF t.ops # <<>> /\ Last(t.ops) = "(" THEN [t EXCEPT !.ok = FALSE] ELSE PopFor(t, o)

Close(s) ==
  LET opened == SelectLastInSeq(s.ops, LAMBDA x : x = "(")
      over == SubSeq(s.ops, opened + 1, Len(s.ops))
  IN  [out |-> s.out \o [i \in 1..Len(over) |-> <<"symbol", Reverse(over)[i]>>],
       ops |-> SubSeq(s.ops, 1, opened - 1),
       ok |-> s.ok /\ opened > 0]

Postfix(tokens) ==
  LET Step(s, token) ==
        CASE ~s.ok -> s
          [] token[1] = "number" -> [s EXCEPT !.out = Append(@, token)]
          [] token[2] = "(" -> [s EXCEPT !.ops = Append(@, "(")]
          [] token[2] = ")" -> Close(s)
          [] OTHER -> LET t == PopFor(s, token[2]) IN [t EXCEPT !.ops = Append(@, token[2])]
      end == FoldLeft(Step, [out |-> <<>>, ops |-> <<>>, ok |-> TRUE], tokens)
  IN  [end EXCEPT !.out = @ \o [i \in 1..Len(end.ops) |-> <<"symbol", Reverse(end.ops)[i]>>]]

\* Values are popped two at a time; a parenthesis that was never closed is skipped.
Evaluate(src) ==
  LET postfix == Postfix(Tokens(src))
      Step(s, token) ==
        CASE ~s.ok \/ token[2] = "(" -> s
          [] token[1] = "number" -> [s EXCEPT !.stack = Append(@, Leaf(token[2]))]
          [] Len(s.stack) < 2 -> [s EXCEPT !.ok = FALSE]
          [] OTHER -> LET n == Len(s.stack)
                          value == Apply(token[2], s.stack[n - 1], s.stack[n])
                      IN  [s EXCEPT !.stack = Append(SubSeq(@, 1, n - 2), value)]
      end == FoldLeft(Step, [stack |-> <<>>, ok |-> postfix.ok], postfix.out)
  IN  IF end.ok /\ Len(end.stack) = 1 THEN end.stack[1] ELSE Refused
-----------------------------------------------------------------------------
(* What arithmetic says, of operands that are numbers or parenthesised.      *)
Meaning2(a, o, b) == Apply(o, a, b)
Meaning3(a, o, b, p, c) ==
  IF Prec(p) > Prec(o) \/ (o = "**" /\ p = "**")
  THEN Apply(o, a, Apply(p, b, c)) ELSE Apply(p, Apply(o, a, b), c)

\* [src, value]: two and three operands out of E.
Pairs(E) ==
  {[src |-> a.src \o <<" ", o, " ">> \o b.src, value |-> Meaning2(a.value, o, b.value)]
     : a \in E, b \in E, o \in Operator}
Triples(E) ==
  {[src |-> a.src \o <<" ", o, " ">> \o b.src \o <<" ", p, " ">> \o c.src,
    value |-> Meaning3(a.value, o, b.value, p, c.value)]
     : a \in E, b \in E, c \in E, o \in Operator, p \in Operator}
InParentheses(E) == {[e EXCEPT !.src = <<"(">> \o @ \o <<")">>] : e \in E}
\* The same text without blanks.
Tight(e) == [e EXCEPT !.src = SelectSeq(@, LAMBDA x : x # " ")]
Numeral(n) == {[src |-> <<n>>, value |-> Leaf(n)]}
Spaced ==
  LET n == CHOOSE n \in Number : TRUE
      a == CHOOSE a \in Name : TRUE
  IN  Triples(Numeral(n) \cup InParentheses({e \in Pairs(Numeral(n) \cup Numeral(a)) : e.src[1] # e.src[5]}))
      \cup Pairs(Numeral(a) \cup InParentheses(Triples(Numeral(n))))
Written == Spaced \cup {Tight(e) : e \in Spaced}
-----------------------------------------------------------------------------
VARIABLES expression, value
exprVars == <<expression, value>>

Unread == <<"unread">>
ExprInit == expression \in Written /\ value = Unread
EvaluateIt == /\ value = Unread
              /\ value' = Evaluate(expression.src)
              /\ UNCHANGED expression

\* An expression that is given a value is given the one arithmetic gives it:
\* rank, side and parentheses are honoured whatever the blanks (Expr.evaluate).
NeverMiscalculated == value \in {Unread, Refused, expression.value}
=============================================================================
