------------------------------ MODULE Codegen ------------------------------
(***************************************************************************)
(* The code generator of source/LLVMCodeGen/codegen.cpp: the recursion     *)
(* over the syntax tree as a machine with an explicit control stack.       *)
(*                                                                         *)
(* `todo` holds what the active codegen functions still have to do,        *)
(* `values` the llvm::Value pointers they hold, `frames` the State objects *)
(* that live in their stack frames and `state` the one ctx->state points   *)
(* to.  Throwing a CodeGenException unwinds to the nearest catch of a      *)
(* statement, of a block result or of a function definition, and leaves    *)
(* `state` behind as it is.                                                *)
(*                                                                         *)
(* The module that is built is the sequence of its basic blocks.  Of their *)
(* instructions those are kept that properties are about: terminators,     *)
(* accesses to variables, the marks of their lifetime, calls and operators,*)
(* each with its operands.  A comparison with zero is part of the branch   *)
(* that it is made for.  Numbers, locations and messages are left out.     *)
(***************************************************************************)
EXTENDS Integers, Sequences, FiniteSets, FiniteSetsExt, SequencesExt, TLC

CONSTANTS
  Name,       (* the names of variables and functions                      *)
  Trees,      (* the syntax trees, each with all its subtrees              *)
  Programs,   (* the toplevel blocks that are compiled                     *)
  MaxErrors   (* errors and warnings are counted up to this bound          *)

ExprNode == {"Constant", "Operator", "VarRef", "Call", "Block", "If", "While"}
StmtNode == {"ExprStmt", "Return", "Assign", "Let"}
Exprs == {t \in Trees : t.node \in ExprNode}
Stmts == {t \in Trees : t.node \in StmtNode}

(* The children the constructors of the nodes ask for.                     *)
ASSUME TreesAssumption == \A t \in Trees :
  /\ t.node \in ExprNode \union StmtNode \union {"Fn"}
  /\ t.kids \in Seq(IF t.node = "Block" THEN Stmts ELSE Exprs)
  /\ t.node \in {"VarRef", "Call", "Let", "Fn"} => t.name \in Name
  /\ t.node = "Block" => t.result = <<>> \/ \E e \in Exprs : t.result = <<e>>
  /\ t.node \in {"ExprStmt", "Return", "Fn"} => Len(t.kids) = 1
  /\ t.node \in {"Assign", "While"} => Len(t.kids) = 2
  /\ t.node = "If" => Len(t.kids) \in {2, 3}
  /\ t.node = "Let" => Len(t.kids) \in {0, 1}
  /\ t.node = "Fn" => t.params \in Seq(Name)
ASSUME ProgramsAssumption ==
  Programs \subseteq Seq({t \in Trees : t.node \in {"Fn", "Let"}})
(* The count tells the first error from those that follow.                *)
ASSUME MaxErrorsAssumption == MaxErrors \in Nat /\ MaxErrors > 1

Undefined == 0   (* no alloca, no function                                 *)

VARIABLES
  program,
  todo, values, frames, state, outcome,
  functions,   (* per name the number of arguments, -1 without a function  *)
  generated,   (* the functions that have a body                           *)
  globals,     (* the global variables                                     *)
  blocks,      (* the basic blocks of all functions                        *)
  ip,          (* the block the builder inserts at                         *)
  n_allocas,
  errors, warnings

control == <<todo, values, frames, state, outcome>>
module  == <<functions, generated, globals, blocks, ip, n_allocas>>
vars    == <<program, control, module, errors, warnings>>

Gen(tree) == [do |-> "gen", tree |-> tree]
Then(what) == [do |-> what]
Each(trees)       == [do |-> "each", trees |-> trees]
TryEach(trees)    == [do |-> "try each", trees |-> trees]
DefineEach(trees) == [do |-> "define each", trees |-> trees]
Frame(named, decl_block) ==
  [named |-> named, declarations_block |-> decl_block, own |-> <<>>]

Init ==
  /\ program \in Programs
  /\ todo = <<Then("prototypes")>> /\ values = <<>>
  /\ frames = <<Frame([x \in Name |-> Undefined], Undefined)>> /\ state = 1
  /\ outcome = "running"
  /\ functions = [x \in Name |-> -1] /\ generated = {} /\ globals = {}
  /\ blocks = <<>> /\ ip = Undefined /\ n_allocas = 0
  /\ errors = 0 /\ warnings = 0

-----------------------------------------------------------------------------
(* The builder.  A basic block belongs to the function in whose body it is *)
(* created and is part of it once it is inserted.                          *)
(* A value is a null pointer, a constant (or an argument of the function)  *)
(* or the instruction at a place of a basic block.  It keeps that place:   *)
(* instructions are only ever appended.                                    *)
Null     == <<>>
Constant == <<0, 0>>
Following(bs, b) == <<b, Len(bs[b].insts) + 1>>
OrZero(x) == IF x = Null THEN Constant ELSE x

Br(to)          == [op |-> "br", to |-> <<to>>, uses |-> {}]
CondBr(x, a, b) == [op |-> "condbr", to |-> <<a, b>>, uses |-> {x}]
Ret(x)          == [op |-> IF x = Null THEN "ret void" ELSE "ret", to |-> <<>>, uses |-> {x}]
Load(v)         == [op |-> "load", var |-> v, uses |-> {}]
Store(v, x)     == [op |-> "store", var |-> v, uses |-> {x}]
CallTo(f, xs)   == [op |-> "call", name |-> f, uses |-> xs]
Operation(xs)   == [op |-> "operation", uses |-> xs]
LifetimeStart(v) == [op |-> "start", var |-> v, uses |-> {}]
LifetimeEnd(v)   == [op |-> "end", var |-> v, uses |-> {}]
Alloca(v, x)    == [op |-> "alloca", var |-> v, name |-> x, uses |-> {}]
Poison(v)       == [op |-> "poison", var |-> v, uses |-> {}]
NullOperand     == [op |-> "null operand", uses |-> {}]

BasicBlock(fn, inserted) == [fn |-> fn, inserted |-> inserted, insts |-> <<>>]

With(bs, b, inst) == [bs EXCEPT ![b].insts = Append(@, inst)]
Inserted(bs, b)   == [bs EXCEPT ![b].inserted = TRUE]

(* allocaInDeclBlock: every variable starts with a store of poison.        *)
Allocated(bs, b, v, x) == With(With(bs, b, Alloca(v, x)), b, Poison(v))

Fn == blocks[ip].fn
New(i) == Len(blocks) + i

-----------------------------------------------------------------------------
Instr == Head(todo)
Doing(what) == outcome = "running" /\ todo # <<>> /\ Instr.do = what
Generating(node) == Doing("gen") /\ Instr.tree.node = node
T == Instr.tree
Kid(k) == T.kids[k]

Top   == Last(values)
Named == frames[state].named
DeclarationsBlock == frames[state].declarations_block

OneMore(n) == IF n < MaxErrors THEN n + 1 ELSE n

Go(body) == todo' = body \o Tail(todo)
Push(v)  == values' = Append(values, v)
Pop(n)   == SubSeq(values, 1, Len(values) - n)
SameScope == UNCHANGED <<frames, state>>
SameNames == UNCHANGED <<program, functions, generated, globals>>
SameRest  == SameNames /\ UNCHANGED <<outcome, errors, warnings>>

(* What ends the program: std::runtime_error, an exception nothing catches,*)
(* a null pointer that LLVM dereferences.                                  *)
Crash(why) ==
  /\ outcome' = why
  /\ UNCHANGED <<program, todo, values, frames, state, module, errors, warnings>>

(* throw CodeGenException.  The catch of a statement points ctx->state to  *)
(* the State of its block; the catch of a result does not.                 *)
Throw ==
  LET catches == {k \in 2..Len(todo) : todo[k].do = "catch"}
      k == Min(catches)
      c == todo[k]
  IN  IF catches = {} THEN Crash("uncaught")
      ELSE /\ todo' = SubSeq(todo, k + 1, Len(todo))
           /\ values' = SubSeq(values, 1, c.values)
                          \o (IF c.of = "result" THEN <<Null>> ELSE <<>>)
           /\ frames' = SubSeq(frames, 1, c.frames)
           /\ state' = IF c.of = "result" THEN state ELSE c.frames
           /\ errors' = OneMore(errors)
           /\ UNCHANGED <<program, outcome, module, warnings>>

Catch(of, n_frames) ==
  [do |-> "catch", of |-> of, frames |-> n_frames, values |-> Len(values)]

EndOfTry ==
  /\ Doing("catch")
  /\ Go(<<>>) /\ SameScope /\ SameRest
  /\ UNCHANGED <<values, blocks, ip, n_allocas>>

-----------------------------------------------------------------------------
(* Expressions.                                                            *)
GenConstant ==
  /\ Generating("Constant")
  /\ Go(<<>>) /\ Push(Constant)
  /\ SameScope /\ SameRest /\ UNCHANGED <<blocks, ip, n_allocas>>

GenOperator ==
  /\ Generating("Operator")
  /\ Go(<<Each(T.kids), [do |-> "operator", n |-> Len(T.kids)]>>)
  /\ SameScope /\ SameRest /\ UNCHANGED <<values, blocks, ip, n_allocas>>

(* Operands and arguments are generated one after the other.               *)
NextOperand ==
  /\ Doing("each")
  /\ LET left == Instr.trees IN
     Go(IF left = <<>> THEN <<>> ELSE <<Gen(Head(left)), Each(Tail(left))>>)
  /\ SameScope /\ SameRest /\ UNCHANGED <<values, blocks, ip, n_allocas>>

Operands(n) == {values[k] : k \in (Len(values) - n + 1)..Len(values)}

(* BinaryOp and UnaryOp assert that their operands are not null.  The      *)
(* builder folds the operators of constants.                               *)
CreateOperator ==
  /\ Doing("operator")
  /\ LET operands == Operands(Instr.n)
         folded   == operands \subseteq {Constant}
     IN  IF Null \in operands THEN Crash("non-null assertion")
         ELSE /\ blocks' = IF folded THEN blocks ELSE With(blocks, ip, Operation(operands))
              /\ values' = Append(Pop(Instr.n), IF folded THEN Constant ELSE Following(blocks, ip))
              /\ Go(<<>>)
              /\ SameScope /\ SameRest /\ UNCHANGED <<ip, n_allocas>>

VariableDefined(x) == Named[x] # Undefined /\ x \notin globals

GenVarRef ==
  /\ Generating("VarRef")
  /\ IF ~VariableDefined(T.name) THEN Throw
     ELSE /\ blocks' = With(blocks, ip, Load(Named[T.name]))
          /\ Go(<<>>) /\ Push(Following(blocks, ip))
          /\ SameScope /\ SameRest /\ UNCHANGED <<ip, n_allocas>>

(* A call of an unknown function declares it; the name of a global         *)
(* variable is not free for the declaration.                               *)
GenFunctionCall ==
  /\ Generating("Call")
  /\ LET n == Len(T.kids)
         known == functions[T.name] # -1
     IN  IF (~known /\ T.name \in globals) \/ (known /\ functions[T.name] # n) THEN Throw
         ELSE /\ functions' = [functions EXCEPT ![T.name] = n]
              /\ Go(<<Each(T.kids), [do |-> "call", n |-> n, name |-> T.name]>>)
              /\ SameScope
              /\ UNCHANGED <<program, generated, globals, values, outcome, errors,
                             warnings, blocks, ip, n_allocas>>

(* A null argument is dereferenced or ends up in the instruction.          *)
CreateCall ==
  /\ Doing("call")
  /\ LET args == Operands(Instr.n) IN
     \/ /\ blocks' = With(blocks, ip, IF Null \in args THEN NullOperand
                                                      ELSE CallTo(Instr.name, args))
        /\ values' = Append(Pop(Instr.n), Following(blocks, ip))
        /\ Go(<<>>)
        /\ SameScope /\ SameRest /\ UNCHANGED <<ip, n_allocas>>
     \/ Null \in args /\ Crash("null operand")

-----------------------------------------------------------------------------
(* Block::codegen inside a function.                                       *)
EnterBlock ==
  /\ Generating("Block")
  /\ LET begin == New(1)  entry == New(2)  end == New(3)
         frame == Len(frames) + 1
         result == IF T.result = <<>> THEN <<Then("no value")>>
                   ELSE <<Gen(T.result[1]), Catch("result", frame)>>
     IN  /\ blocks' = With(blocks, ip, Br(begin))
                        \o <<BasicBlock(Fn, TRUE), BasicBlock(Fn, TRUE), BasicBlock(Fn, FALSE)>>
         /\ ip' = entry
         /\ frames' = Append(frames, Frame(Named, DeclarationsBlock))
         /\ state' = frame
         /\ Go(<<TryEach(T.kids)>> \o result
                 \o <<[do |-> "leave block", begin |-> begin, entry |-> entry,
                       end |-> end, old |-> state]>>)
  /\ SameRest /\ UNCHANGED <<values, n_allocas>>

NextStatement ==
  /\ Doing("try each")
  /\ LET left == Instr.trees IN
     Go(IF left = <<>> THEN <<>>
        ELSE <<Gen(Head(left)), Catch("statement", Len(frames)), TryEach(Tail(left))>>)
  /\ SameScope /\ SameRest /\ UNCHANGED <<values, blocks, ip, n_allocas>>

NoValue ==
  /\ Doing("no value")
  /\ Go(<<>>) /\ Push(Null)
  /\ SameScope /\ SameRest /\ UNCHANGED <<blocks, ip, n_allocas>>

(* Mutant: ctx->state is not set back.                                    *)
LeaveBlockKeepsState ==
  /\ Doing("leave block")
  /\ LET ends == [k \in 1..Len(Last(frames).own) |-> LifetimeEnd(Last(frames).own[k].var)]
         wired == With(With(blocks, Instr.begin, Br(Instr.entry)), ip, Br(Instr.end))
     IN  blocks' = [Inserted(wired, Instr.end) EXCEPT ![Instr.end].insts = @ \o ends]
  /\ ip' = Instr.end
  /\ frames' = Front(frames) /\ UNCHANGED state
  /\ Go(<<>>)
  /\ SameRest /\ UNCHANGED <<values, n_allocas>>

(* The end of the block: the lifetimes of its variables end in a basic     *)
(* block of their own.  The frame that is left is the last one.            *)
LeaveBlock ==
  /\ Doing("leave block")
  /\ LET ends == [k \in 1..Len(Last(frames).own) |-> LifetimeEnd(Last(frames).own[k].var)]
         wired == With(With(blocks, Instr.begin, Br(Instr.entry)), ip, Br(Instr.end))
     IN  blocks' = [Inserted(wired, Instr.end) EXCEPT ![Instr.end].insts = @ \o ends]
  /\ ip' = Instr.end
  /\ frames' = Front(frames) /\ state' = Instr.old
  /\ Go(<<>>)
  /\ SameRest /\ UNCHANGED <<values, n_allocas>>

-----------------------------------------------------------------------------
(* If::codegen.  A null condition or value is dereferenced by the builder. *)
GenIf ==
  /\ Generating("If")
  /\ Go(<<Gen(Kid(1)), [do |-> "if true", tree |-> T]>>)
  /\ SameScope /\ SameRest /\ UNCHANGED <<values, blocks, ip, n_allocas>>

IfTrue ==
  /\ Doing("if true")
  /\ IF Top = Null THEN Crash("null operand")
     ELSE LET yes == New(1)  no == New(2)  post == New(3)
              result == n_allocas + 1
          IN  /\ blocks' = With(Allocated(blocks, DeclarationsBlock, result, "if_result"),
                                 ip, CondBr(Top, yes, no))
                             \o <<BasicBlock(Fn, TRUE), BasicBlock(Fn, FALSE), BasicBlock(Fn, FALSE)>>
              /\ n_allocas' = result
              /\ ip' = yes
              /\ Go(<<Gen(Kid(2)),
                      [do |-> "if false", no |-> no, post |-> post, result |-> result]>>
                      \o (IF Len(T.kids) = 3 THEN <<Gen(Kid(3))>> ELSE <<Then("no value")>>)
                      \o <<[do |-> "post if", post |-> post, result |-> result]>>)
              /\ values' = Pop(1)
              /\ SameScope /\ SameRest

IfFalse ==
  /\ Doing("if false")
  /\ blocks' = Inserted(With(With(blocks, ip, Store(Instr.result, OrZero(Top))),
                             ip, Br(Instr.post)), Instr.no)
  /\ ip' = Instr.no
  /\ Go(<<>>)
  /\ SameScope /\ SameRest /\ UNCHANGED <<values, n_allocas>>

(* Mutant: the builder is moved on behind the load of the result.          *)
PostIfLoadsEarly ==
  /\ Doing("post if")
  /\ LET stored == With(With(blocks, ip, Store(Instr.result, OrZero(Top))), ip, Br(Instr.post))
     IN  /\ blocks' = With(Inserted(stored, Instr.post), ip, Load(Instr.result))
         /\ values' = Append(Pop(2), Following(stored, ip))
  /\ ip' = Instr.post
  /\ warnings' = IF {x = Null : x \in Operands(2)} = BOOLEAN THEN OneMore(warnings) ELSE warnings
  /\ Go(<<>>)
  /\ SameScope /\ SameNames /\ UNCHANGED <<outcome, errors, n_allocas>>

PostIf ==
  /\ Doing("post if")
  /\ LET stored == With(With(blocks, ip, Store(Instr.result, OrZero(Top))), ip, Br(Instr.post))
     IN  /\ blocks' = With(Inserted(stored, Instr.post), Instr.post, Load(Instr.result))
         /\ values' = Append(Pop(2), Following(stored, Instr.post))
  /\ ip' = Instr.post
  /\ warnings' = IF {x = Null : x \in Operands(2)} = BOOLEAN THEN OneMore(warnings) ELSE warnings
  /\ Go(<<>>)
  /\ SameScope /\ SameNames /\ UNCHANGED <<outcome, errors, n_allocas>>

-----------------------------------------------------------------------------
(* While::codegen.                                                         *)
GenWhile ==
  /\ Generating("While")
  /\ blocks' = With(blocks, ip, Br(New(1)))
                 \o <<BasicBlock(Fn, TRUE), BasicBlock(Fn, FALSE), BasicBlock(Fn, FALSE)>>
  /\ ip' = New(1)
  /\ Go(<<Gen(Kid(1)),
          [do |-> "loop body", body |-> New(2), post |-> New(3)],
          Gen(Kid(2)),
          [do |-> "post while", cond |-> New(1), post |-> New(3)]>>)
  /\ SameScope /\ SameRest /\ UNCHANGED <<values, n_allocas>>

(* Mutant: the branches of the loop condition are swapped.                 *)
LoopBodySwapped ==
  /\ Doing("loop body")
  /\ IF Top = Null THEN Crash("null operand")
     ELSE /\ blocks' = Inserted(With(blocks, ip, CondBr(Top, Instr.post, Instr.body)), Instr.body)
          /\ ip' = Instr.body
          /\ values' = Pop(1)
          /\ Go(<<>>)
          /\ SameScope /\ SameRest /\ UNCHANGED n_allocas

LoopBody ==
  /\ Doing("loop body")
  /\ IF Top = Null THEN Crash("null operand")
     ELSE /\ blocks' = Inserted(With(blocks, ip, CondBr(Top, Instr.body, Instr.post)), Instr.body)
          /\ ip' = Instr.body
          /\ values' = Pop(1)
          /\ Go(<<>>)
          /\ SameScope /\ SameRest /\ UNCHANGED n_allocas

PostWhile ==
  /\ Doing("post while")
  /\ IF Top # Null THEN Crash("return values from loops")
     ELSE /\ blocks' = Inserted(With(blocks, ip, Br(Instr.cond)), Instr.post)
          /\ ip' = Instr.post
          /\ Go(<<>>)
          /\ SameScope /\ SameRest /\ UNCHANGED <<values, n_allocas>>

-----------------------------------------------------------------------------
(* Statements leave no value behind.                                       *)
GenExprStmt ==
  /\ Generating("ExprStmt")
  /\ Go(<<Gen(Kid(1)), Then("drop")>>)
  /\ SameScope /\ SameRest /\ UNCHANGED <<values, blocks, ip, n_allocas>>

(* Mutant: the value of the expression is kept.                            *)
DropKeepsValue ==
  /\ Doing("drop")
  /\ Go(<<>>) /\ UNCHANGED values
  /\ SameScope /\ SameRest /\ UNCHANGED <<blocks, ip, n_allocas>>

Drop ==
  /\ Doing("drop")
  /\ Go(<<>>) /\ values' = Pop(1)
  /\ SameScope /\ SameRest /\ UNCHANGED <<blocks, ip, n_allocas>>

GenReturn ==
  /\ Generating("Return")
  /\ Go(<<Gen(Kid(1)), Then("ret")>>)
  /\ SameScope /\ SameRest /\ UNCHANGED <<values, blocks, ip, n_allocas>>

CreateRet ==
  /\ Doing("ret")
  /\ blocks' = With(blocks, ip, Ret(Top))
  /\ Go(<<>>) /\ values' = Pop(1)
  /\ SameScope /\ SameRest /\ UNCHANGED <<ip, n_allocas>>

GenAssignment ==
  /\ Generating("Assign")
  /\ Go(<<Gen(Kid(2)), [do |-> "assign", key |-> Kid(1)]>>)
  /\ SameScope /\ SameRest /\ UNCHANGED <<values, blocks, ip, n_allocas>>

Assign ==
  /\ Doing("assign")
  /\ IF Instr.key.node # "VarRef" \/ ~VariableDefined(Instr.key.name) THEN Throw
     ELSE IF Top = Null THEN Crash("null operand")
     ELSE /\ blocks' = With(blocks, ip, Store(Named[Instr.key.name], Top))
          /\ Go(<<>>) /\ values' = Pop(1)
          /\ SameScope /\ SameRest /\ UNCHANGED <<ip, n_allocas>>

(* DeclAssignment::codegen: the alloca comes before the value, the name    *)
(* after it.                                                               *)
GenDeclAssignment ==
  /\ Generating("Let")
  /\ n_allocas' = n_allocas + 1
  /\ blocks' = Allocated(blocks, DeclarationsBlock, n_allocas + 1, T.name)
  /\ Go((IF T.kids = <<>> THEN <<>> ELSE <<Gen(Kid(1))>>)
          \o <<[do |-> "declare", name |-> T.name, var |-> n_allocas + 1,
                has_value |-> T.kids # <<>>]>>)
  /\ SameScope /\ SameRest /\ UNCHANGED <<values, ip>>

(* Mutant: a name that is known keeps its variable.                        *)
DeclareEmplaces ==
  /\ Doing("declare")
  /\ IF Instr.has_value /\ Top = Null THEN Crash("null operand")
     ELSE LET begin == Min({k \in 1..Len(todo) : todo[k].do = "leave block"})
              stored == IF Instr.has_value THEN With(blocks, ip, Store(Instr.var, Top)) ELSE blocks
          IN  /\ blocks' = With(stored, todo[begin].begin, LifetimeStart(Instr.var))
              /\ values' = Pop(IF Instr.has_value THEN 1 ELSE 0)
              /\ frames' = [frames EXCEPT
                   ![state].named[Instr.name] = IF @ = Undefined THEN Instr.var ELSE @,
                   ![Len(frames)].own = Append(@, [name |-> Instr.name, var |-> Instr.var])]
              /\ Go(<<>>)
              /\ SameRest /\ UNCHANGED <<state, ip, n_allocas>>

(* Mutant: the lifetime starts where it ends.                              *)
DeclareStartsAtEnd ==
  /\ Doing("declare")
  /\ IF Instr.has_value /\ Top = Null THEN Crash("null operand")
     ELSE LET begin == Min({k \in 1..Len(todo) : todo[k].do = "leave block"})
              stored == IF Instr.has_value THEN With(blocks, ip, Store(Instr.var, Top)) ELSE blocks
          IN  /\ blocks' = With(stored, todo[begin].end, LifetimeStart(Instr.var))
              /\ values' = Pop(IF Instr.has_value THEN 1 ELSE 0)
              /\ frames' = [frames EXCEPT
                   ![state].named[Instr.name] = Instr.var,
                   ![Len(frames)].own = Append(@, [name |-> Instr.name, var |-> Instr.var])]
              /\ Go(<<>>)
              /\ SameRest /\ UNCHANGED <<state, ip, n_allocas>>

(* Its end, and what Block::codegen does with the variable it returns: its *)
(* lifetime starts in the first basic block of the block.                  *)
Declare ==
  /\ Doing("declare")
  /\ IF Instr.has_value /\ Top = Null THEN Crash("null operand")
     ELSE LET begin == Min({k \in 1..Len(todo) : todo[k].do = "leave block"})
              stored == IF Instr.has_value THEN With(blocks, ip, Store(Instr.var, Top)) ELSE blocks
          IN  /\ blocks' = With(stored, todo[begin].begin, LifetimeStart(Instr.var))
              /\ values' = Pop(IF Instr.has_value THEN 1 ELSE 0)
              /\ frames' = [frames EXCEPT
                   ![state].named[Instr.name] = Instr.var,
                   ![Len(frames)].own = Append(@, [name |-> Instr.name, var |-> Instr.var])]
              /\ Go(<<>>)
              /\ SameRest /\ UNCHANGED <<state, ip, n_allocas>>

-----------------------------------------------------------------------------
(* FunctionDef::codegen.  Two parameters with one name get two allocas.    *)
GenFunctionDef ==
  /\ Generating("Fn")
  /\ IF T.name \in generated THEN Throw
     ELSE LET n == Len(T.params)
              params == [k \in 1..n |-> [name |-> T.params[k], var |-> n_allocas + k]]
              latest(x) == {p \in 1..n : T.params[p] = x}
              named == [x \in Name |-> IF latest(x) = {} THEN Named[x]
                                       ELSE n_allocas + Max(latest(x))]
          IN  /\ blocks' = blocks \o
                   <<[BasicBlock(T.name, TRUE) EXCEPT
                        !.insts = [k \in 1..(2 * n) |->
                          IF k % 2 = 1 THEN Alloca(n_allocas + (k + 1) \div 2, T.params[(k + 1) \div 2])
                                       ELSE Poison(n_allocas + k \div 2)]],
                     [BasicBlock(T.name, TRUE) EXCEPT
                        !.insts = [k \in 1..n |-> Store(named[T.params[k]], Constant)]]>>
              /\ ip' = New(2)
              /\ n_allocas' = n_allocas + n
              /\ generated' = generated \union {T.name}
              /\ frames' = Append(frames, [Frame(named, New(1)) EXCEPT !.own = params])
              /\ state' = Len(frames) + 1
              /\ Go(<<Gen(Kid(1)),
                      [do |-> "end function", decls |-> New(1), old |-> state]>>)
              /\ UNCHANGED <<program, functions, globals, values, outcome, errors, warnings>>

(* implicit_ret, or 0 for a function without one.                          *)
EndFunction ==
  /\ Doing("end function")
  /\ blocks' = With(With(blocks, ip, Ret(OrZero(Top))), Instr.decls, Br(Instr.decls + 1))
  /\ ip' = Instr.decls
  /\ values' = Pop(1)
  /\ frames' = Front(frames) /\ state' = Instr.old
  /\ Go(<<>>)
  /\ SameRest /\ UNCHANGED n_allocas

(* Block::codegen of the toplevel: all prototypes first, then in order the *)
(* functions, each in a try, and the global variables, which are not.      *)
(* Function::Create renames the second function of a name.                 *)
Prototypes ==
  /\ Doing("prototypes")
  /\ LET defs(x) == {k \in 1..Len(program) : program[k].node = "Fn" /\ program[k].name = x}
     IN  /\ functions' = [x \in Name |-> IF defs(x) = {} THEN -1
                                         ELSE Len(program[Min(defs(x))].params)]
         /\ Go(<<DefineEach(program), Then("verify")>>)
  /\ frames' = Append(frames, frames[1]) /\ state' = 2
  /\ UNCHANGED <<program, values, outcome, generated, globals, blocks, ip, n_allocas,
                 errors, warnings>>

NextDefinition ==
  /\ Doing("define each")
  /\ LET left  == Instr.trees
         first == Head(left)
     IN  Go(IF left = <<>> THEN <<>>
            ELSE (IF first.node = "Fn" THEN <<Gen(first), Catch("function", Len(frames))>>
                                       ELSE <<[do |-> "global", tree |-> first]>>)
                   \o <<DefineEach(Tail(left))>>)
  /\ SameScope /\ SameRest /\ UNCHANGED <<values, blocks, ip, n_allocas>>

(* DeclAssignment::globalCodegen.  The name of a function is taken, and a  *)
(* global variable that asks for it gets another.                          *)
GlobalCodegen ==
  /\ Doing("global")
  /\ IF T.kids # <<>> \/ T.name \in globals THEN Crash("uncaught")
     ELSE /\ globals' = IF functions[T.name] = -1 THEN globals \union {T.name} ELSE globals
          /\ Go(<<>>)
          /\ SameScope
          /\ UNCHANGED <<program, functions, generated, values, outcome, blocks, ip,
                         n_allocas, errors, warnings>>

-----------------------------------------------------------------------------
(* llvm::verifyModule: every basic block of a function ends with its only  *)
(* terminator, branches go to basic blocks of the function, and operands   *)
(* are constants or instructions of the function.  (That these come before *)
(* their uses is a part of WellFormedOnceCleaned, below.)                  *)
Terminators == {"br", "condbr", "ret", "ret void"}
IsTerminator(inst) == inst.op \in Terminators
Body(fn) == {b \in 1..Len(blocks) : blocks[b].fn = fn /\ blocks[b].inserted}
Terminated(insts, body) ==
  /\ insts # <<>>
  /\ \A k \in 1..Len(insts) :
       /\ IsTerminator(insts[k]) <=> k = Len(insts)
       /\ insts[k].op \notin {"ret void", "null operand"}
  /\ ToSet(Last(insts).to) \subseteq body
Uses(insts) == UNION {insts[k].uses : k \in 1..Len(insts)} \ {Null, Constant}
WellFormed(code, body) ==
  \A b \in body :
    /\ Terminated(code[b], body)
    /\ \A u \in Uses(code[b]) : u[1] \in body /\ u[2] \in 1..Len(code[u[1]])
Verified(fn) == WellFormed([b \in 1..Len(blocks) |-> blocks[b].insts], Body(fn))

VerifyModule ==
  /\ Doing("verify")
  /\ errors' = IF \A fn \in generated : Verified(fn) THEN errors ELSE OneMore(errors)
  /\ outcome' = IF \A fn \in generated : Verified(fn) THEN "done" ELSE "could not compile"
  /\ frames' = Front(frames) /\ state' = 1
  /\ Go(<<>>)
  /\ SameNames /\ UNCHANGED <<values, blocks, ip, n_allocas, warnings>>

Next ==
  \/ EndOfTry \/ GenConstant \/ GenOperator \/ CreateOperator \/ NextOperand
  \/ GenVarRef \/ GenFunctionCall \/ CreateCall
  \/ EnterBlock \/ NextStatement \/ NoValue \/ LeaveBlock
  \/ GenIf \/ IfTrue \/ IfFalse \/ PostIf \/ GenWhile \/ LoopBody \/ PostWhile
  \/ GenExprStmt \/ Drop \/ GenReturn \/ CreateRet \/ GenAssignment \/ Assign
  \/ GenDeclAssignment \/ Declare
  \/ GenFunctionDef \/ EndFunction \/ Prototypes \/ NextDefinition \/ GlobalCodegen \/ VerifyModule

Spec == Init /\ [][Next]_vars

-----------------------------------------------------------------------------
Outcomes == {"running", "done", "could not compile", "uncaught", "non-null assertion",
             "null operand", "return values from loops"}

TypeOK ==
  /\ Len(values) \in Nat
  /\ state \in 1..(Len(frames) + Len(blocks) + 1) /\ ip \in 0..Len(blocks)
  /\ functions \in [Name -> Int] /\ generated \subseteq Name /\ globals \subseteq Name
  /\ \A k \in 1..Len(frames) : frames[k].named \in [Name -> 0..n_allocas]
  /\ errors \in 0..MaxErrors /\ warnings \in 0..MaxErrors
  /\ outcome \in Outcomes
  /\ outcome \in {"done", "could not compile"} =>
       todo = <<>> /\ values = <<>> /\ Len(frames) = 1

(* Whenever code is generated ctx->state points to the State of the block  *)
(* or function that is being generated: none that is left, by a return or  *)
(* by an exception, is read or written.                                    *)
StateIsAlive ==
  (outcome = "running" /\ todo # <<>>
     /\ Instr.do \in {"gen", "assign", "declare", "if true", "end function"})
    => state = Len(frames)

(* named_values, which every block copies, is what lexical scoping says: a *)
(* name means its last declaration in the innermost block that has one.    *)
LexicalScoping ==
  \A k \in 1..Len(frames) : \A x \in Name :
    LET decls(j)  == {i \in 1..Len(frames[j].own) : frames[j].own[i].name = x}
        declaring == {j \in 1..k : decls(j) # {}}
        innermost == Max(declaring)
    IN  frames[k].named[x] = IF declaring = {} THEN Undefined
                             ELSE frames[innermost].own[Max(decls(innermost))].var

-----------------------------------------------------------------------------
(* Mutant: the instructions behind the last terminator are erased.         *)
CleanedAtLast(insts) == SubSeq(insts, 1, SelectLastInSeq(insts, IsTerminator))

(* CleanupPass::run on a basic block: the instructions behind its first    *)
(* terminator are erased, also those whose values are used elsewhere.  The *)
(* optimizer begins with this pass.                                        *)
Cleaned(insts) ==
  LET end == SelectInSeq(insts, IsTerminator)
  IN  IF end = 0 THEN insts ELSE SubSeq(insts, 1, end)

Code(b) == Cleaned(blocks[b].insts)

(* Code generation has reported nothing; the verifier may have.            *)
GeneratedWithoutErrors ==
  \/ outcome = "done" /\ errors = 0
  \/ outcome = "could not compile" /\ errors = 1

Has(op) == \E b \in 1..Len(blocks) : \E k \in 1..Len(blocks[b].insts) :
             blocks[b].insts[k].op = op

Returns ==
  UNION {{<<b, k>> : k \in {j \in 1..Len(blocks[b].insts) : blocks[b].insts[j].op = "ret"}} :
         b \in 1..Len(blocks)}

(* If nothing is reported and every operand has a value, then the cleanup  *)
(* pass leaves a module in which every basic block ends with its only      *)
(* terminator, whatever returns the functions have; and without return     *)
(* statements every basic block does so before the pass.                   *)
TerminatedOnceCleaned ==
  GeneratedWithoutErrors /\ ~Has("ret void") /\ ~Has("null operand") =>
    /\ \A fn \in generated : \A b \in Body(fn) : Terminated(Code(b), Body(fn))
    /\ Cardinality(Returns) <= Cardinality(generated) =>
         \A fn \in generated : \A b \in Body(fn) : Terminated(blocks[b].insts, Body(fn))

Successors(b) == IF Code(b) = <<>> THEN {} ELSE ToSet(Last(Code(b)).to)
Reached(from, avoid) ==
  LET r[n \in 0..Len(blocks)] ==
        IF n = 0 THEN from \ avoid
        ELSE LET before == r[n - 1]
             IN  before \union ((UNION {Successors(b) : b \in before}) \ avoid)
  IN  r[Len(blocks)]
FirstBlock(fn) == Min(Body(fn))
Having(op, v)  == {b \in 1..Len(blocks) :
                     \E i \in ToSet(Code(b)) : i.op = op /\ i.var = v}

(* Once it is cleaned, a variable of a module without errors is allocated  *)
(* in the first basic block of its function, and on no path, through       *)
(* branches, returns and rounds of loops, is it read, or written by the    *)
(* program, before its lifetime starts or after it has ended.  What is     *)
(* stored outside of the lifetime is the poison behind the alloca, which   *)
(* is nowhere but in that first basic block.                               *)
AccessesAreLive ==
  GeneratedWithoutErrors => \A v \in 1..n_allocas :
    \A b \in Having("load", v) \union Having("store", v) :
      LET first == FirstBlock(blocks[b].fn)
          dead  == {first} \union UNION {Successors(e) : e \in Having("end", v)}
      IN  /\ first \in Having("alloca", v) /\ Having("poison", v) = {first}
          /\ Having("start", v) # {} =>
               b \notin Reached(dead, Having("start", v)) \union Having("end", v)

(* cleanup_pass.hpp:6: "post-codegen cleanup pass that removes all         *)
(* instructions after the first terminator in a basic block".  Code with   *)
(* a return statement gets as far as that pass.                            *)
ReturnCompiles == outcome # "could not compile"
=============================================================================
