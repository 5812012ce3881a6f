---------------------------- MODULE FusionResult ----------------------------
(***************************************************************************)
(* What the three passes at the end of parser::parseExpression             *)
(* (source/parser.cpp) make of a list of operators and operands: the tree, *)
(* or how they fail, as a fold over the list.  OperatorFusion walks the    *)
(* passes itself, with operands that are moved out of unique_ptrs, and is  *)
(* compared with these definitions; Parser uses them for the passes.       *)
(***************************************************************************)
EXTENDS ScanResult

(* A node of the tree.  An entry of the list is one too: an operator       *)
(* without children, or an operand.                                        *)
Node(kind, kids) == [node |-> kind, kids |-> kids]

(* operators_by_prec: what each pass handles as unary and as binary.       *)
Precedence ==
  <<[unary |-> {"-"}, binary |-> {}],
    [unary |-> {},    binary |-> {"*", "/", "%"}],
    [unary |-> {},    binary |-> {"+", "-"}]>>

IsSign(entry) == entry.node \in Operators

(* One turn of a pass.  It keeps the entry, fuses it with those beside it, *)
(* or, if the pass handles the operator but not in this place, drops it    *)
(* together with the entry to its right.                                   *)
Turn(pass, prec, list, k) ==
  LET entry  == list[k]
      unary  == pass.after_sign /\ entry.node \in prec.unary
      binary == ~pass.after_sign /\ entry.node \in prec.binary
      failing(how) == [pass EXCEPT !.outcome = how]
      skipping(kept) == [pass EXCEPT !.kept = kept, !.after_sign = FALSE, !.skip = TRUE]
  IN  IF pass.outcome # "done" THEN pass
      ELSE IF pass.skip THEN [pass EXCEPT !.skip = FALSE]
      ELSE IF entry.node \notin prec.unary \union prec.binary
        THEN [pass EXCEPT !.kept = Append(@, entry), !.after_sign = IsSign(entry)]
      ELSE IF ~unary /\ ~binary              THEN skipping(pass.kept)
      ELSE IF k = Len(list)                  THEN failing("unreachable: no operand")
      ELSE IF binary /\ pass.kept = <<>>     THEN failing("undefined")
      ELSE IF IsSign(list[k + 1])            THEN failing("syntax error")
      ELSE IF unary
        THEN skipping(Append(pass.kept, Node("unary_op", <<entry, list[k + 1]>>)))
      ELSE IF IsSign(Last(pass.kept))        THEN failing("unreachable: should be unary")
      ELSE skipping(Append(Front(pass.kept),
                           Node("binary_op", <<Last(pass.kept), entry, list[k + 1]>>)))

Pass(before, prec) ==
  IF before.outcome # "done" THEN before
  ELSE FoldLeft(LAMBDA pass, k : Turn(pass, prec, before.kept, k),
                [kept |-> <<>>, after_sign |-> TRUE, skip |-> FALSE, outcome |-> "done"],
                [k \in 1..Len(before.kept) |-> k])

(* The passes one after the other, and what is left of the list.           *)
Fused(list) ==
  LET last == FoldLeft(Pass, [kept |-> list, outcome |-> "done"], Precedence)
  IN  [outcome |-> IF last.outcome # "done"    THEN last.outcome
                   ELSE IF Len(last.kept) # 1  THEN "unreachable: fusion bug"
                   ELSE IF IsSign(last.kept[1]) THEN "unreachable: operator"
                   ELSE "done",
       tree    |-> IF last.kept = <<>> THEN Node("none", <<>>) ELSE last.kept[1]]
=============================================================================
