----------------------------- MODULE ScanResult -----------------------------
(***************************************************************************)
(* What the scanning loop of parser::parseExpression (source/parser.cpp)   *)
(* finds in a range of tokens, in closed form: where the expression ends,  *)
(* at which of its operators it is split, and whether it is one pair of    *)
(* parentheses.  ExprScan walks the loop itself and is compared with these *)
(* definitions; Parser uses them for the loop.                             *)
(*                                                                         *)
(* A token is represented by its type.  A range is given by the position   *)
(* of its first token and the position behind its last.                    *)
(***************************************************************************)
EXTENDS Integers, Sequences, FiniteSets, FiniteSetsExt, SequencesExt

Openers   == {"(", "{"}
Closers   == {")", "}"}
Operators == {"*", "/", "%", "+", "-"}
Puncts    == {",", ";", "=", ")", "}"}

(* After a block at the top of the expression only these go on with it:    *)
(* end_of_block_non_expression_breakers.                                   *)
Continues == {"else"} \union Operators \union Puncts

Span(first, last) == [from |-> first, to |-> last]

(* The height of the parenthesis stack before the token at p is read.      *)
Depth(t, from, p) ==
  Cardinality({q \in from..(p - 1) : t[q] \in Openers}) -
  Cardinality({q \in from..(p - 1) : t[q] \in Closers})

BlockEnded(t, from, p) == p > from /\ t[p - 1] = "}" /\ t[p] \notin Continues

Stops(t, from, p) ==
  Depth(t, from, p) = 0 /\ (t[p] \in Puncts \/ BlockEnded(t, from, p))

(* A closing token inside parentheses or braces of the other kind.         *)
Mismatched(t, from, p) ==
  LET d == Depth(t, from, p)
      opener == Max({q \in from..(p - 1) : Depth(t, from, q) = d - 1})
  IN  /\ t[p] \in Closers /\ d > 0
      /\ t[opener] # (IF t[p] = ")" THEN "(" ELSE "{")

ScanEnd(t, from, to) ==
  Min({p \in from..(to - 1) : Stops(t, from, p) \/ Mismatched(t, from, p)}
        \union {to})

(* The operators outside all parentheses and braces.                       *)
TopOperators(t, from, end) ==
  {p \in from..(end - 1) : t[p] \in Operators /\ Depth(t, from, p) = 0}

InOrder(S) ==
  [k \in 1..Cardinality(S) |-> CHOOSE p \in S : Cardinality({q \in S : q < p}) = k - 1]

(* The first tokens of the operands: the first of the range, or the first  *)
(* behind an operator.  Between two operators there may be none.           *)
FirstTokens(t, from, end) ==
  LET tops == TopOperators(t, from, end)
  IN  {p \in from..(end - 1) : p \notin tops /\ (p = from \/ p - 1 \in tops)}

(* The ranges of the operands, from left to right.                         *)
OperandRanges(t, from, end) ==
  LET tops   == TopOperators(t, from, end)
      starts == InOrder(FirstTokens(t, from, end))
      upto(s) == Min({p \in tops : p > s} \union {end})
  IN  [k \in 1..Len(starts) |-> Span(starts[k], upto(starts[k]))]

(* The list the fusion works on: operators, and "x" for each operand.      *)
ScanShape(t, from, end) ==
  LET tops   == TopOperators(t, from, end)
      places == InOrder(tops \union FirstTokens(t, from, end))
  IN  [k \in 1..Len(places) |-> IF places[k] \in tops THEN t[places[k]] ELSE "x"]

(* entirely_wrapped_in_parens.  The punctuation at which the scan stops is *)
(* looked at too, with an empty stack.                                     *)
WrappedInParens(t, from, to, end) ==
  /\ \A p \in from..(end - 1) : Depth(t, from, p) = 0 => t[p] = "("
  /\ ~(end < to /\ t[end] \in Puncts \ Closers)

(* The errors the scan throws.                                             *)
ScanThrows(t, from, to, end) ==
  \/ end < to /\ Mismatched(t, from, end)
  \/ /\ end < to /\ t[end] \in Puncts \ Closers
     /\ end = from \/ end - 1 \in TopOperators(t, from, end)
  \/ end = to /\ Depth(t, from, end) # 0
  \/ OperandRanges(t, from, end) = <<>>
=============================================================================
