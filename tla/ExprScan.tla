------------------------------ MODULE ExprScan ------------------------------
(***************************************************************************)
(* The first half of parser::parseExpression (source/parser.cpp): the loop *)
(* that walks over the tokens of an expression, finds its end, and cuts it *)
(* at the operators outside parentheses into the ranges of its operands;   *)
(* then the choice of how the expression goes on.                          *)
(***************************************************************************)
EXTENDS ScanResult

CONSTANTS
  TokenType,   (* the token types that occur                               *)
  MaxLen       (* bound on the number of tokens                            *)

ASSUME MaxLenAssumption == MaxLen \in Nat

VARIABLES
  tokens,
  at,                 (* ps->iter.tokens: the token looked at, from 1      *)
  paren_stack,
  last_was_operator,
  last_ty,
  entirely_wrapped_in_parens,
  operand_start,
  parse_states,       (* the ranges of the operands                        *)
  epnis,              (* operators, and "x" for each operand               *)
  outcome

vars == <<tokens, at, paren_stack, last_was_operator, last_ty,
          entirely_wrapped_in_parens, operand_start, parse_states, epnis, outcome>>

Init ==
  /\ tokens \in BoundedSeq(TokenType, MaxLen)
  /\ at = 1 /\ paren_stack = <<>>
  /\ last_was_operator = TRUE /\ last_ty = "invalid"
  /\ entirely_wrapped_in_parens = TRUE
  /\ operand_start = 1 /\ parse_states = <<>> /\ epnis = <<>>
  /\ outcome = "scanning"

-----------------------------------------------------------------------------
ty  == tokens[at]
Top == paren_stack = <<>>
Scanning == outcome = "scanning" /\ at <= Len(tokens)
(* Mutant of AfterBlock: also inside parentheses and braces.               *)
AfterBlockAnywhere == last_ty = "}" /\ ty \notin Continues

AfterBlock == Top /\ last_ty = "}" /\ ty \notin Continues
Looking == Scanning /\ ~AfterBlock

(* The loop is left; `why` is "end" or the error it throws.                *)
Leave(why) ==
  /\ outcome' = why
  /\ UNCHANGED <<tokens, at, paren_stack, last_ty, operand_start, parse_states, epnis>>

BreakAfterBlock ==
  /\ Scanning /\ AfterBlock
  /\ Leave("end") /\ UNCHANGED <<last_was_operator, entirely_wrapped_in_parens>>

Advance == at' = at + 1 /\ last_ty' = ty /\ UNCHANGED <<tokens, outcome>>

(* Mutant of PushParen: a brace counts as a wrapping parenthesis.          *)
PushParenAnyBracket ==
  /\ Looking /\ ty \in Openers
  /\ paren_stack' = Append(paren_stack, ty)
  /\ last_was_operator' = FALSE
  /\ Advance
  /\ UNCHANGED <<entirely_wrapped_in_parens, operand_start, parse_states, epnis>>

PushParen ==
  /\ Looking /\ ty \in Openers
  /\ paren_stack' = Append(paren_stack, ty)
  /\ entirely_wrapped_in_parens' =
       (entirely_wrapped_in_parens /\ Head(paren_stack') = "(")
  /\ last_was_operator' = FALSE
  /\ Advance
  /\ UNCHANGED <<operand_start, parse_states, epnis>>

Closes(open, close) == close = (IF open = "(" THEN ")" ELSE "}")

PopParen ==
  /\ Looking /\ ty \in Closers /\ ~Top /\ Closes(Last(paren_stack), ty)
  /\ paren_stack' = Front(paren_stack)
  /\ last_was_operator' = FALSE
  /\ Advance
  /\ UNCHANGED <<entirely_wrapped_in_parens, operand_start, parse_states, epnis>>

BreakAtCloser ==
  /\ Looking /\ ty \in Closers /\ Top
  /\ last_was_operator' = FALSE
  /\ Leave("end") /\ UNCHANGED entirely_wrapped_in_parens

ThrowUnmatched ==
  /\ Looking /\ ty \in Closers /\ ~Top /\ ~Closes(Last(paren_stack), ty)
  /\ Leave("throws") /\ UNCHANGED <<last_was_operator, entirely_wrapped_in_parens>>

(* Any other token: it is inside the outermost parentheses, or not.        *)
Plain == Looking /\ ty \notin Openers \union Closers
StillWrapped ==
  entirely_wrapped_in_parens' =
    (entirely_wrapped_in_parens /\ ~Top /\ Head(paren_stack) = "(")

(* Mutant: the next operand starts one token too late.                     *)
SplitSkipsToken ==
  /\ Plain /\ Top /\ ty \in Operators
  /\ StillWrapped
  /\ IF last_was_operator
       THEN epnis' = Append(epnis, ty) /\ UNCHANGED parse_states
       ELSE /\ parse_states' = Append(parse_states, Span(operand_start, at))
            /\ epnis' = epnis \o <<"x", ty>>
  /\ last_was_operator' = TRUE
  /\ operand_start' = at + 2
  /\ Advance
  /\ UNCHANGED paren_stack

SplitAtOperator ==
  /\ Plain /\ Top /\ ty \in Operators
  /\ StillWrapped
  /\ IF last_was_operator
       THEN epnis' = Append(epnis, ty) /\ UNCHANGED parse_states
       ELSE /\ parse_states' = Append(parse_states, Span(operand_start, at))
            /\ epnis' = epnis \o <<"x", ty>>
  /\ last_was_operator' = TRUE
  /\ operand_start' = at + 1
  /\ Advance
  /\ UNCHANGED paren_stack

StopAtPunct ==
  /\ Plain /\ Top /\ ty \in Puncts
  /\ StillWrapped
  /\ Leave(IF last_was_operator THEN "throws" ELSE "end")
  /\ last_was_operator' = (last_was_operator /\ outcome' = "throws")

PartOfOperand ==
  /\ Plain /\ ~(Top /\ ty \in Operators \union Puncts)
  /\ StillWrapped
  /\ last_was_operator' = FALSE
  /\ Advance
  /\ UNCHANGED <<paren_stack, operand_start, parse_states, epnis>>

OutOfTokens ==
  /\ outcome = "scanning" /\ at > Len(tokens)
  /\ Leave("end") /\ UNCHANGED <<last_was_operator, entirely_wrapped_in_parens>>

(* After the loop: the last operand, the two checks, and the three ways an *)
(* expression goes on.                                                     *)
Conclude ==
  /\ outcome = "end"
  /\ LET more == operand_start < at IN
     /\ parse_states' = IF more THEN Append(parse_states, Span(operand_start, at))
                                ELSE parse_states
     /\ epnis' = IF more THEN Append(epnis, "x") ELSE epnis
  /\ outcome' =
       CASE ~Top \/ parse_states' = <<>> -> "throws"
         [] Top /\ parse_states' # <<>> ->
              IF entirely_wrapped_in_parens
                THEN IF Len(parse_states') = 1 THEN "wrapped"
                     ELSE "unreachable: wrapped"
              ELSE IF Len(epnis') > 1 THEN "operators"
              ELSE IF tokens[parse_states'[1].from] = "(" THEN "unreachable: paren"
              ELSE "single"
  /\ UNCHANGED <<tokens, at, paren_stack, last_was_operator, last_ty,
                 entirely_wrapped_in_parens, operand_start>>

Next ==
  \/ BreakAfterBlock \/ PushParen \/ PopParen \/ BreakAtCloser \/ ThrowUnmatched
  \/ SplitAtOperator \/ StopAtPunct \/ PartOfOperand \/ OutOfTokens \/ Conclude

Spec == Init /\ [][Next]_vars

-----------------------------------------------------------------------------
Outcomes == {"scanning", "end", "throws", "wrapped", "operators", "single",
             "unreachable: wrapped", "unreachable: paren"}
Ended == outcome \notin {"scanning", "end"}
Accepted == Ended /\ outcome # "throws"

TypeOK ==
  /\ at \in 1..(Len(tokens) + 1)
  /\ paren_stack \in Seq(Openers)
  /\ last_was_operator \in BOOLEAN /\ entirely_wrapped_in_parens \in BOOLEAN
  /\ operand_start \in 1..at
  /\ \A k \in DOMAIN parse_states : parse_states[k].from < parse_states[k].to
  /\ outcome \in Outcomes

(* The brackets that a wrapped expression is stripped of are there: the    *)
(* recursive call starts behind a "(" and its n_remain - 2 tokens end      *)
(* before a ")".  A wrapped expression is never more than one operand.     *)
WrappedCanBeStripped ==
  /\ outcome # "unreachable: wrapped"
  /\ outcome = "wrapped" =>
    LET r == parse_states[1] IN
    r.to - r.from >= 2 /\ tokens[r.from] = "(" /\ tokens[r.to - 1] = ")"

(* The scan ends where the closed form says, with the same operands, the   *)
(* same operators and the same verdict.                                    *)
MatchesScanResult ==
  Ended =>
    LET to == Len(tokens) + 1 IN
    /\ at = ScanEnd(tokens, 1, to)
    /\ (outcome = "throws") <=> ScanThrows(tokens, 1, to, at)
    /\ Accepted =>
         /\ parse_states = OperandRanges(tokens, 1, at)
         /\ epnis = ScanShape(tokens, 1, at)
         /\ entirely_wrapped_in_parens <=> WrappedInParens(tokens, 1, to, at)
=============================================================================
