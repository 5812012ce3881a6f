---------------------- MODULE OperatorFusionReference ----------------------
(***************************************************************************)
(* What the three passes of OperatorFusion build, compared with two        *)
(* definitions: the fold over trees that Parser uses for them, and the     *)
(* tree that the usual precedence and left associativity give to the same  *)
(* operators and operands, by splitting at the operator that binds least.  *)
(* For TLC only: the definitions are RECURSIVE operators.                  *)
(***************************************************************************)
EXTENDS OperatorFusion

Result == INSTANCE FusionResult

NoBinaryMinus == \A k \in Binary : input[k] # "-"

LeafOf(number)   == Result!Node("operand", <<number>>)
Sign(op)         == Result!Node(op, <<>>)
UnaryOf(op, rhs) == Result!Node("unary_op", <<Sign(op), rhs>>)
BinaryOf(op, lhs, rhs) == Result!Node("binary_op", <<lhs, Sign(op), rhs>>)

RECURSIVE RefTree(_, _)
RefTree(a, b) ==
  LET inside == {k \in Binary : a < k /\ k < b}
      sums   == {k \in inside : input[k] \in {"+", "-"}}
      split  == Max(IF sums # {} THEN sums ELSE inside)
  IN  IF inside # {} THEN BinaryOf(input[split], RefTree(a, split - 1), RefTree(split + 1, b))
      ELSE IF IsOperand(a) THEN LeafOf(OperandsBefore(input, a))
      ELSE UnaryOf("-", RefTree(a + 1, b))

(* The tree below a node of the code.                                      *)
RECURSIVE TreeOf(_)
TreeOf(n) ==
  LET node == operands[n] IN
  IF node.op = "leaf" THEN LeafOf(n)
  ELSE IF node.lhs = 0 THEN UnaryOf(node.op, TreeOf(node.rhs))
  ELSE BinaryOf(node.op, TreeOf(node.lhs), TreeOf(node.rhs))

(* A well-formed expression without a binary minus is fused, with no error *)
(* on the way, into the tree of its grammar.                               *)
FusesByPrecedence ==
  (WellFormed /\ NoBinaryMinus) =>
    /\ outcome \in {"running", "done"}
    /\ outcome = "done" => TreeOf(epnis[1].idx) = RefTree(1, Len(input))

(* Of every list, with lost, doubled and dangling operators too, the       *)
(* passes make what the fold says: moving operands by their index loses    *)
(* and repeats none of them, and the failures are the same.                *)
FusesAsFolded ==
  outcome # "running" =>
    LET entries  == [k \in 1..Len(input) |->
                       IF IsOperand(k) THEN LeafOf(OperandsBefore(input, k))
                                       ELSE Sign(input[k])]
        expected == Result!Fused(entries)
    IN  /\ outcome = expected.outcome
        /\ outcome = "done" => TreeOf(epnis[1].idx) = expected.tree
=============================================================================
