-------------------------- MODULE CodegenReference --------------------------
(***************************************************************************)
(* What a program does, read from its syntax tree, against what the basic  *)
(* blocks do that Codegen has built for it and the cleanup pass has        *)
(* cleaned.  Both are run with the same outcomes of the conditions they    *)
(* meet, and leave a trace of their calls, loads and stores.               *)
(***************************************************************************)
EXTENDS Codegen

CONSTANT MaxChoices   (* a run stops at the condition that follows these   *)

-----------------------------------------------------------------------------
Start(choices) == [trace |-> <<>>, choices |-> choices, running |-> TRUE]
Did(r, event)  == IF r.running THEN [r EXCEPT !.trace = Append(@, event)] ELSE r
Stopped(r)     == [r EXCEPT !.running = FALSE]
Chosen(r)      == [r EXCEPT !.choices = Tail(@)]

(* The tree.                                                               *)
RECURSIVE Execute(_, _)
InOrder(trees, r) == FoldLeft(LAMBDA run, tree : Execute(tree, run), r, trees)

Execute(tree, r) ==
  LET kids == InOrder(tree.kids, r)
      condition == Execute(tree.kids[1], r)
      chosen == condition.running /\ condition.choices # <<>>
  IN  CASE ~r.running -> r
        [] tree.node \in {"Constant", "Operator", "ExprStmt"} -> kids
        [] tree.node = "VarRef" -> Did(r, <<"load", tree.name>>)
        [] tree.node = "Call"   -> Did(kids, <<"call", tree.name>>)
        [] tree.node = "Return" -> Stopped(Did(kids, <<"ret">>))
        [] tree.node = "Let"    -> IF tree.kids = <<>> THEN r ELSE Did(kids, <<"store", tree.name>>)
        [] tree.node = "Assign" -> Did(Execute(tree.kids[2], r), <<"store", tree.kids[1].name>>)
        [] tree.node = "Block"  -> InOrder(tree.result, kids)
        [] ~chosen              -> Stopped(condition)
        [] tree.node = "If" ->
             LET taken == IF Head(condition.choices) THEN <<tree.kids[2]>>
                          ELSE SubSeq(tree.kids, 3, Len(tree.kids))
             IN  Did(Did(InOrder(taken, Chosen(condition)), <<"store", "if_result">>),
                     <<"load", "if_result">>)
        [] tree.node = "While" ->
             IF Head(condition.choices)
               THEN Execute(tree, Execute(tree.kids[2], Chosen(condition)))
               ELSE Chosen(condition)

RunOfTree(fn, choices) ==
  LET entered == [Start(choices) EXCEPT
                    !.trace = [k \in 1..Len(fn.params) |-> <<"store", fn.params[k]>>]]
  IN  Did(Execute(fn.kids[1], entered), <<"ret">>).trace

-----------------------------------------------------------------------------
(* The basic blocks.  Between two conditions no block is entered twice.    *)
VariableName(v) ==
  LET insts == Code(CHOOSE b \in Having("alloca", v) : TRUE)
  IN  insts[SelectInSeq(insts, LAMBDA i : i.op = "alloca" /\ i.var = v)].name

Step(r, inst) ==
  CASE inst.op \in {"load", "store"} -> Did(r, <<inst.op, VariableName(inst.var)>>)
    [] inst.op = "call" -> Did(r, <<"call", inst.name>>)
    [] inst.op = "ret"  -> Stopped(Did(r, <<"ret">>))
    [] OTHER -> r

RECURSIVE RunFrom(_, _, _)
RunFrom(b, r, fuel) ==
  LET after == FoldLeft(Step, r, Code(b))
      to == Last(Code(b)).to
  IN  IF fuel = 0 \/ ~after.running \/ (Len(to) = 2 /\ r.choices = <<>>) THEN after
      ELSE IF Len(to) = 1 THEN RunFrom(to[1], after, fuel - 1)
      ELSE RunFrom(IF Head(r.choices) THEN to[1] ELSE to[2], Chosen(after), fuel - 1)

RunOfBlocks(fn, choices) ==
  RunFrom(FirstBlock(fn), Start(choices), (MaxChoices + 1) * Len(blocks)).trace

(* A function of a program without errors does what its text says: for     *)
(* every outcome of its conditions the generated code makes the same       *)
(* calls, loads and stores in the same order, runs loops as often and      *)
(* returns at the same place.                                              *)
ExecutesLikeSource ==
  GeneratedWithoutErrors /\ (\A fn \in generated : \A b \in Body(fn) : Terminated(Code(b), Body(fn)))
    => \A k \in 1..Len(program) : program[k].node = "Fn" =>
         \A choices \in [1..MaxChoices -> BOOLEAN] :
           RunOfBlocks(program[k].name, choices) = RunOfTree(program[k], choices)

-----------------------------------------------------------------------------
(* Nothing but a constant follows a return in its block.                   *)
RECURSIVE ReturnsComeLast(_)
ReturnsComeLast(tree) ==
  /\ \A k \in 1..Len(tree.kids) : ReturnsComeLast(tree.kids[k])
  /\ tree.node = "Block" =>
       /\ \A e \in ToSet(tree.result) : ReturnsComeLast(e)
       /\ \A k \in 1..Len(tree.kids) : tree.kids[k].node = "Return" =>
            k = Len(tree.kids) /\ \A e \in ToSet(tree.result) : e.node = "Constant"

(* In the same basic block in front of the use, or on every path to it.    *)
Dominates(value, b, k) ==
  IF value[1] = b THEN value[2] < k
                  ELSE b \notin Reached({FirstBlock(blocks[b].fn)}, {value[1]})

(* If nothing is reported and every operand has a value, the verifier      *)
(* accepts a module without return statements.  And if every return comes  *)
(* last in its block, the cleanup pass leaves a module that it accepts:    *)
(* no instruction is erased whose value is used, no branch leads to the    *)
(* first basic block, and on every path an operand comes before its uses.  *)
(* (Of `return a; a` the pass erases the second load of a, whose value the *)
(* return at the end of the function keeps.)                               *)
WellFormedOnceCleaned ==
  GeneratedWithoutErrors /\ ~Has("ret void") /\ ~Has("null operand") =>
    /\ outcome = "could not compile" => Cardinality(Returns) > Cardinality(generated)
    /\ (\A k \in 1..Len(program) : ReturnsComeLast(program[k])) =>
         \A fn \in generated :
           /\ WellFormed([b \in 1..Len(blocks) |-> Code(b)], Body(fn))
           /\ \A b \in Body(fn) : FirstBlock(fn) \notin Successors(b)
           /\ \A b \in Body(fn) : \A k \in 1..Len(Code(b)) :
                \A value \in Code(b)[k].uses \ {Null, Constant} : Dominates(value, b, k)
=============================================================================
