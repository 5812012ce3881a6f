--------------------------- MODULE OperatorFusion ---------------------------
(***************************************************************************)
(* The second half of parser::parseExpression (source/parser.cpp): the     *)
(* operands of an expression are parsed, and three passes, one for each    *)
(* precedence level, fuse operators with the operands beside them until    *)
(* one operand is left.                                                    *)
(*                                                                         *)
(* The list that is fused holds EPNIs: an operator, or the index of an     *)
(* operand in the vector `operands`.  Operands are owned through           *)
(* unique_ptr: fusing moves them into the new node and leaves a null       *)
(* pointer behind.  The model numbers them, keeps for a fused node the     *)
(* operator and the operands moved into it, and collects in `moved` the    *)
(* entries that are null.                                                  *)
(***************************************************************************)
EXTENDS Integers, Sequences, FiniteSets, SequencesExt

CONSTANTS
  Op,      (* the operators that occur, of the five the language has       *)
  MaxLen   (* bound on the number of operators and operands                *)

ASSUME OpAssumption     == Op \subseteq {"*", "/", "%", "+", "-"}
ASSUME MaxLenAssumption == MaxLen \in Nat

(* operators_by_prec, tightest first: the operators a pass handles, and    *)
(* which of these it takes as unary and as binary ones.                    *)
Levels == 1..3
Ops    == <<{"-"}, {"*", "/", "%"}, {"+", "-"}>>
Unops  == <<{"-"}, {}, {}>>
Binops == <<{}, {"*", "/", "%"}, {"+", "-"}>>

VARIABLES
  input,              (* history: the expression as it was handed over     *)
  epnis,              (* what is left of the expression                    *)
  new_epnis,          (* what this pass has kept or fused so far           *)
  operands,           (* the nodes, in the order they were made            *)
  moved,              (* indices of the operands already moved away        *)
  level,              (* the pass                                          *)
  i,                  (* position in epnis, from 1                         *)
  prev_was_operator,
  outcome             (* "running", "done" or how the function ends        *)

vars == <<input, epnis, new_epnis, operands, moved, level, i, prev_was_operator,
          outcome>>

(* An EPNI is an operator or names an operand; a node is a leaf (an        *)
(* operand as the scan found it) or an operator with its children, where   *)
(* 0 stands for the missing left child of a unary operator.                *)
Operator(o) == [op |-> o, idx |-> 0]
Operand(k)  == [op |-> "none", idx |-> k]
IsOperator(e) == e.op # "none"
Leaf == [op |-> "leaf", lhs |-> 0, rhs |-> 0]
Node(o, l, r) == [op |-> o, lhs |-> l, rhs |-> r]

(* The lists the scan of the expression can hand over: two operands never  *)
(* follow each other, there is at least one, and with a single entry the   *)
(* function has returned already.  Operands are numbered from left to      *)
(* right.  A list may begin or end with an operator: the scan refuses that *)
(* only in front of `;`, `,` and `=`.                                      *)
Shapes ==
  {s \in BoundedSeq(Op \union {"x"}, MaxLen) :
     /\ Len(s) >= 2
     /\ \E k \in 1..Len(s) : s[k] = "x"
     /\ \A k \in 1..(Len(s) - 1) : ~(s[k] = "x" /\ s[k + 1] = "x")}
OperandsBefore(s, k) == Cardinality({j \in 1..k : s[j] = "x"})
Numbered(s) ==
  [k \in 1..Len(s) |-> IF s[k] = "x" THEN Operand(OperandsBefore(s, k))
                                     ELSE Operator(s[k])]

Init ==
  /\ input \in Shapes
  /\ epnis = Numbered(input)
  /\ operands = [k \in 1..OperandsBefore(input, Len(input)) |-> Leaf]
  /\ new_epnis = <<>> /\ moved = {}
  /\ level = 1 /\ i = 1 /\ prev_was_operator = TRUE
  /\ outcome = "running"

-----------------------------------------------------------------------------
Cur  == epnis[i]
Running == outcome = "running" /\ level \in Levels
InPass  == Running /\ i <= Len(epnis)
Handled == InPass /\ Cur.op \in Ops[level]
AsUnary  == Handled /\ prev_was_operator /\ Cur.op \in Unops[level]
AsBinary == Handled /\ ~prev_was_operator /\ Cur.op \in Binops[level]
HasNext  == i < Len(epnis)
NextIsOperand == HasNext /\ ~IsOperator(epnis[i + 1])
NextIsOperator == HasNext /\ IsOperator(epnis[i + 1])

Keep ==
  /\ InPass /\ ~Handled
  /\ new_epnis' = Append(new_epnis, Cur)
  /\ prev_was_operator' = IsOperator(Cur)
  /\ i' = i + 1
  /\ UNCHANGED <<input, epnis, operands, moved, level, outcome>>

FuseUnary ==
  /\ AsUnary /\ NextIsOperand
  /\ LET rhs == epnis[i + 1].idx IN
     /\ operands' = Append(operands, Node(Cur.op, 0, rhs))
     /\ moved' = moved \union {rhs}
  /\ new_epnis' = Append(new_epnis, Operand(Len(operands) + 1))
  /\ prev_was_operator' = FALSE
  /\ i' = i + 2
  /\ UNCHANGED <<input, epnis, level, outcome>>

(* Mutant of FuseBinary: the left operand is the entry to the left in the  *)
(* old list, which may be fused already.                                   *)
FuseBinaryOldLeft ==
  /\ AsBinary /\ NextIsOperand /\ new_epnis # <<>>
  /\ ~IsOperator(epnis[i - 1])
  /\ LET lhs == epnis[i - 1].idx
         rhs == epnis[i + 1].idx
     IN  /\ operands' = Append(operands, Node(Cur.op, lhs, rhs))
         /\ moved' = moved \union {lhs, rhs}
  /\ new_epnis' = [new_epnis EXCEPT ![Len(new_epnis)] = Operand(Len(operands) + 1)]
  /\ prev_was_operator' = FALSE
  /\ i' = i + 2
  /\ UNCHANGED <<input, epnis, level, outcome>>

(* Mutant of FuseBinary: the node is pushed behind its left operand.       *)
FuseBinaryPushes ==
  /\ AsBinary /\ NextIsOperand /\ new_epnis # <<>>
  /\ ~IsOperator(Last(new_epnis))
  /\ LET lhs == Last(new_epnis).idx
         rhs == epnis[i + 1].idx
     IN  /\ operands' = Append(operands, Node(Cur.op, lhs, rhs))
         /\ moved' = moved \union {lhs, rhs}
  /\ new_epnis' = Append(new_epnis, Operand(Len(operands) + 1))
  /\ prev_was_operator' = FALSE
  /\ i' = i + 2
  /\ UNCHANGED <<input, epnis, level, outcome>>

(* The left operand is what this pass pushed last, which may be fused      *)
(* already: that is what makes the operators left-associative.             *)
FuseBinary ==
  /\ AsBinary /\ NextIsOperand /\ new_epnis # <<>>
  /\ ~IsOperator(Last(new_epnis))
  /\ LET lhs == Last(new_epnis).idx
         rhs == epnis[i + 1].idx
     IN  /\ operands' = Append(operands, Node(Cur.op, lhs, rhs))
         /\ moved' = moved \union {lhs, rhs}
  /\ new_epnis' = [new_epnis EXCEPT ![Len(new_epnis)] = Operand(Len(operands) + 1)]
  /\ prev_was_operator' = FALSE
  /\ i' = i + 2
  /\ UNCHANGED <<input, epnis, level, outcome>>

(* Mutant of Drop: only the operator is skipped.                           *)
DropOperatorOnly ==
  /\ Handled /\ ~AsUnary /\ ~AsBinary
  /\ prev_was_operator' = FALSE
  /\ i' = i + 1
  /\ UNCHANGED <<input, epnis, new_epnis, operands, moved, level, outcome>>

(* Neither unary nor binary at this level: the i++ after the two branches  *)
(* is outside them, so the entry to the right is skipped as well.          *)
Drop ==
  /\ Handled /\ ~AsUnary /\ ~AsBinary
  /\ prev_was_operator' = FALSE
  /\ i' = i + 2
  /\ UNCHANGED <<input, epnis, new_epnis, operands, moved, level, outcome>>

Fail(how) ==
  /\ outcome' = how
  /\ UNCHANGED <<input, epnis, new_epnis, operands, moved, level, i,
                 prev_was_operator>>

(* The order of the checks: no entry to the right, nothing to the left     *)
(* (back() of an empty vector), an operator to the right, an operator to   *)
(* the left.                                                               *)
NothingToTheRight ==
  (AsUnary \/ AsBinary) /\ ~HasNext /\ Fail("unreachable: no operand")
NothingToTheLeft  == AsBinary /\ HasNext /\ new_epnis = <<>> /\ Fail("undefined")
OperatorToTheRight ==
  /\ AsUnary \/ (AsBinary /\ new_epnis # <<>>)
  /\ NextIsOperator
  /\ Fail("syntax error")
OperatorToTheLeft ==
  /\ AsBinary /\ NextIsOperand /\ new_epnis # <<>> /\ IsOperator(Last(new_epnis))
  /\ Fail("unreachable: should be unary")

(* Mutant of NextPass: the list is walked from one before its start.       *)
NextPassFromZero ==
  /\ Running /\ i > Len(epnis)
  /\ epnis' = new_epnis /\ new_epnis' = <<>>
  /\ level' = level + 1 /\ i' = 0 /\ prev_was_operator' = TRUE
  /\ UNCHANGED <<input, operands, moved, outcome>>

NextPass ==
  /\ Running /\ i > Len(epnis)
  /\ epnis' = new_epnis /\ new_epnis' = <<>>
  /\ level' = level + 1 /\ i' = 1 /\ prev_was_operator' = TRUE
  /\ UNCHANGED <<input, operands, moved, outcome>>

Finish ==
  /\ outcome = "running" /\ level = 4
  /\ outcome' = IF Len(epnis) # 1 THEN "unreachable: fusion bug"
                ELSE IF IsOperator(epnis[1]) THEN "unreachable: operator"
                ELSE "done"
  /\ UNCHANGED <<input, epnis, new_epnis, operands, moved, level, i,
                 prev_was_operator>>

Next ==
  \/ Keep \/ FuseUnary \/ FuseBinary \/ Drop
  \/ NothingToTheRight \/ NothingToTheLeft \/ OperatorToTheRight \/ OperatorToTheLeft
  \/ NextPass \/ Finish

Spec == Init /\ [][Next]_vars

-----------------------------------------------------------------------------
Outcomes == {"running", "done", "syntax error", "undefined",
             "unreachable: no operand", "unreachable: should be unary",
             "unreachable: fusion bug", "unreachable: operator"}
AllOps == {"*", "/", "%", "+", "-"}
EPNI  == [op : AllOps \union {"none"}, idx : Nat]
Nodes == [op : AllOps \union {"leaf"}, lhs : Nat, rhs : Nat]

TypeOK ==
  /\ input \in Seq(Op \union {"x"})
  /\ epnis \in Seq(EPNI) /\ new_epnis \in Seq(EPNI)
  /\ operands \in Seq(Nodes)
  /\ moved \subseteq 1..Len(operands)
  /\ level \in 1..4 /\ i \in Nat \ {0}
  /\ prev_was_operator \in BOOLEAN
  /\ outcome \in Outcomes

Children(n) == {n.lhs, n.rhs} \ {0}

(* The nodes form a forest that owns every operand once: a child is made   *)
(* before its parent, has no second parent, is not both children of one    *)
(* node, and is exactly what `moved` says has been moved away.  So no      *)
(* fusion ever moves out of a unique_ptr that is null already.             *)
OwnedOnce ==
  /\ \A n \in 1..Len(operands) :
       /\ \A c \in Children(operands[n]) : c < n /\ c \in moved
       /\ operands[n].lhs = operands[n].rhs => operands[n].op = "leaf"
  /\ \A m, n \in 1..Len(operands) :
       m # n => Children(operands[m]) \intersect Children(operands[n]) = {}

(* While the passes run, what they still have to place refers to operands  *)
(* that are there: the list points at no null pointer, and no operand is   *)
(* in the list twice.                                                      *)
Left == new_epnis \o SubSeq(epnis, i, Len(epnis))
ListOwnsItsOperands ==
  \A j, k \in 1..Len(Left) :
    /\ ~IsOperator(Left[j]) => Left[j].idx \in (1..Len(operands)) \ moved
    /\ (j # k /\ ~IsOperator(Left[j]) /\ ~IsOperator(Left[k])) =>
         Left[j].idx # Left[k].idx

IsOperand(k) == input[k] = "x"
Binary == {k \in 2..Len(input) : ~IsOperand(k) /\ IsOperand(k - 1)}
Unary  == {k \in 1..Len(input) : ~IsOperand(k)} \ Binary

(* The expressions of the language: every operator has its operands, and   *)
(* the only unary operator is a minus directly in front of an operand.     *)
WellFormed ==
  /\ \A k \in Binary \union Unary : k < Len(input)
  /\ \A k \in Unary : input[k] = "-" /\ IsOperand(k + 1)

(* In an expression without a minus in which no two operators follow each  *)
(* other, an operator that lacks its left or its right operand never       *)
(* yields a tree: a pass stops with an error.  Both conditions are needed: *)
(* `x -`, `* * x` and `x + + x` lose their operators and are fused, and    *)
(* `- x` is an expression of the language.                                 *)
DanglingIsNotFused ==
  (/\ ~WellFormed
   /\ \A k \in 1..Len(input) : input[k] # "-"
   /\ \A k \in 1..(Len(input) - 1) : IsOperand(k) \/ IsOperand(k + 1))
  => outcome # "done"

(* parser.cpp:464, of the branch that handles an operator: "fuse left and  *)
(* right operators (or just right if left is itself operator -> unary op)".*)
(* An operator the pass handles becomes a node if it has its operands.     *)
HandledIsFused ==
  [][(Handled /\ ~prev_was_operator /\ NextIsOperand) =>
       Len(operands') = Len(operands) + 1]_vars
=============================================================================
