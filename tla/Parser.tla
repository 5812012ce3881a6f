------------------------------- MODULE Parser -------------------------------
(***************************************************************************)
(* The recursive-descent parser of source/parser.cpp with its recovery     *)
(* from errors, as a machine with an explicit control stack.               *)
(*                                                                         *)
(* Each parse function is a sequence of instructions (consume a token of   *)
(* one of these types, look at the next one, run another parse function,   *)
(* build a node), and `todo` holds what the functions that are active have *)
(* left to do.  Throwing an UnexpectedTokenError unwinds `todo` to the     *)
(* nearest EndOfTry, the catch of a statement or of a block result.        *)
(*                                                                         *)
(* A ParseState is passed by pointer or copied: `iters` is the stack of    *)
(* the ones that are alive, each the position of its next token and the    *)
(* position behind its last, and the top one is `ps`.  The scan of an      *)
(* expression is ScanResult's, the fusion of its operators FusionResult's. *)
(*                                                                         *)
(* The abstract syntax tree is kept, as nodes with the names the tokens    *)
(* have; locations and the text of messages are left out.                  *)
(***************************************************************************)
EXTENDS FusionResult

CONSTANTS
  Name,       (* the identifiers that occur                                *)
  Inputs,     (* the token sequences that are parsed, each ends with "eof" *)
  MaxErrors   (* the errors are counted up to this bound                   *)

Keywords == {"fn", "extern", "externc", "let", "if", "else", "while", "for",
             "return"}
Fixed == Openers \union Closers \union Operators \union Puncts \union Keywords
           \union {"num", "eof"}
TokenType == Name \union Fixed

ASSUME NameAssumption   == Name \intersect Fixed = {}
ASSUME InputAssumption  ==
  \A s \in Inputs : s \in Seq(TokenType) /\ s # <<>> /\ s[Len(s)] = "eof"
ASSUME ErrorsAssumption == MaxErrors \in Nat \ {0}

VARIABLES
  tokens,
  iters,     (* the ParseStates that are alive; the last one is `ps`       *)
  todo,      (* the instructions still to be executed, the next one first  *)
  nodes,     (* the nodes and statements the active functions hold         *)
  errors,    (* errors->size()                                             *)
  stalled,   (* history: a statement was given up without consuming a token*)
  outcome

vars == <<tokens, iters, todo, nodes, errors, stalled, outcome>>

Take(S)       == [do |-> "take", types |-> S]
See(S)        == [do |-> "see", types |-> S]
TakeName      == [do |-> "name"]
Enter(range)  == [do |-> "enter", range |-> range]
Split         == [do |-> "split"]
Leave         == [do |-> "leave"]
Make(kind, n) == [do |-> "make", kind |-> kind, n |-> n]
Operands(ranges) == [do |-> "operands", ranges |-> ranges]
Fuse(shape)   == [do |-> "fuse", shape |-> shape]
Parse(f)      == [do |-> f]
Statement(toplevel) == [do |-> "statement", toplevel |-> toplevel]
Block(kind)   == [do |-> "block", kind |-> kind]
MoreArgs(n)   == [do |-> "arguments", n |-> n]
MoreParams(n) == [do |-> "parameters", n |-> n]
EndOfTry(in_loop, at) ==
  [do |-> "catch", in_loop |-> in_loop, at |-> at,
   iters |-> Len(iters), nodes |-> Len(nodes)]

Init ==
  /\ tokens \in Inputs
  /\ iters = <<[at |-> 1, to |-> Len(tokens) + 1]>>
  /\ todo = <<Block("toplevel")>>
  /\ nodes = <<>> /\ errors = 0 /\ stalled = FALSE
  /\ outcome = "running"

-----------------------------------------------------------------------------
ps      == Last(iters)
HasMore == ps.at < ps.to
Peek    == IF HasMore THEN tokens[ps.at] ELSE "none"
MovedTo(p) == [iters EXCEPT ![Len(iters)].at = p]
Consumed   == MovedTo(IF HasMore THEN ps.at + 1 ELSE ps.at)

Doing(what) == outcome = "running" /\ todo # <<>> /\ Head(todo).do = what
Instr == Head(todo)

(* The instruction is replaced by others, the ParseStates become its.      *)
Go(body, its) ==
  /\ todo' = body \o Tail(todo)
  /\ iters' = its
  /\ UNCHANGED <<tokens, errors, stalled, outcome>>
Push(node) == nodes' = Append(nodes, node)

OneMore(n) == IF n < MaxErrors THEN n + 1 ELSE n

(* Mutant: the catch of a statement goes back to where it began.           *)
ThrowRewinds(its) ==
  LET k == Min({i \in 2..Len(todo) : todo[i].do = "catch"})
  IN  /\ todo' = SubSeq(todo, k + 1, Len(todo))
      /\ iters' = [SubSeq(its, 1, todo[k].iters) EXCEPT ![todo[k].iters].at = todo[k].at]
      /\ nodes' = SubSeq(nodes, 1, todo[k].nodes)
      /\ errors' = OneMore(errors)
      /\ stalled' = (stalled \/ (todo[k].in_loop
                                   /\ its[todo[k].iters].at = todo[k].at))
      /\ UNCHANGED <<tokens, outcome>>

(* throw UnexpectedTokenError, with the ParseStates as they are by then.   *)
Throw(its) ==
  LET catches == {k \in 2..Len(todo) : todo[k].do = "catch"}
      k == Min(catches)
  IN  IF catches = {}
        THEN outcome' = "uncaught" /\ UNCHANGED <<tokens, iters, todo, nodes, errors, stalled>>
        ELSE /\ todo' = SubSeq(todo, k + 1, Len(todo))
             /\ iters' = SubSeq(its, 1, todo[k].iters)
             /\ nodes' = SubSeq(nodes, 1, todo[k].nodes)
             /\ errors' = OneMore(errors)
             /\ stalled' = (stalled \/ (todo[k].in_loop
                                          /\ its[todo[k].iters].at = todo[k].at))
             /\ UNCHANGED <<tokens, outcome>>

(* throw std::runtime_error, which nothing catches.                        *)
Crash(why) ==
  outcome' = why /\ UNCHANGED <<tokens, iters, todo, nodes, errors, stalled>>

-----------------------------------------------------------------------------
(* expect and expectOneOf of ps->next(): the token is consumed either way. *)
TakeToken ==
  /\ Doing("take")
  /\ IF Peek \in Instr.types THEN Go(<<>>, Consumed) /\ UNCHANGED nodes
                             ELSE Throw(Consumed)

(* expect, expectNot and expectOneOf of ps->peek().                        *)
SeeToken ==
  /\ Doing("see")
  /\ IF Peek \in Instr.types THEN Go(<<>>, iters) /\ UNCHANGED nodes
                             ELSE Throw(iters)

TakeIdentifier ==
  /\ Doing("name")
  /\ IF Peek \in Name THEN Go(<<>>, Consumed) /\ Push(Node(Peek, <<>>))
                      ELSE Throw(Consumed)

(* A copy of a ParseState limited to some tokens becomes `ps`, or stops    *)
(* being it.                                                               *)
EnterRange ==
  /\ Doing("enter")
  /\ Go(<<>>, Append(iters, [at |-> Instr.range.from, to |-> Instr.range.to]))
  /\ UNCHANGED nodes

LeaveRange == Doing("leave") /\ Go(<<>>, Front(iters)) /\ UNCHANGED nodes

(* Mutant: the braces of the part in front of the block stay in ps.        *)
SplitLeavesPs ==
  /\ Doing("split")
  /\ LET end == Min({p \in ps.at..(ps.to - 1) :
                       Depth(tokens, ps.at, p) = 0 /\ tokens[p] = "{"} \union {ps.to})
     IN  Go(<<>>, Append(iters, [at |-> ps.at, to |-> end]))
  /\ UNCHANGED nodes

(* splitIterAtTTInplace(left_brace): ps moves to the first brace outside   *)
(* parentheses, the tokens in front of it become a range.                  *)
SplitAtBrace ==
  /\ Doing("split")
  /\ LET depth(p) == Depth(tokens, ps.at, p)
         opens(p) == depth(p) = 0 /\ tokens[p] = "{"
         wrong(p) == \/ depth(p) = 0 /\ tokens[p] \in Closers
                     \/ Mismatched(tokens, ps.at, p)
         end == Min({p \in ps.at..(ps.to - 1) : opens(p) \/ wrong(p)} \union {ps.to})
     IN  IF end < ps.to /\ wrong(end) THEN Throw(MovedTo(end))
         ELSE /\ Go(<<>>, Append(MovedTo(end), [at |-> ps.at, to |-> end]))
              /\ UNCHANGED nodes

(* The last n nodes become the children of a new one.                      *)
Gathered(kind, n) ==
  Append(SubSeq(nodes, 1, Len(nodes) - n),
         Node(kind, SubSeq(nodes, Len(nodes) - n + 1, Len(nodes))))

MakeNode ==
  /\ Doing("make")
  /\ Go(<<>>, iters)
  /\ nodes' = Gathered(Instr.kind, Instr.n)

LeaveTry == Doing("catch") /\ Go(<<>>, iters) /\ UNCHANGED nodes

-----------------------------------------------------------------------------
Expr == Parse("expression")

IfCond ==
  <<Take({"if"}), See(TokenType \ {"{"}), Split, Expr, Leave, Block("plain"),
    Parse("else")>>
WhileLoop ==
  <<Take({"while"}), Split, Expr, Leave, Block("loop"), Make("While", 2)>>
ForLoop ==
  <<Take({"for"}), Split, Statement(FALSE), Expr, Take({";"}), Statement(FALSE),
    Leave, Block("loop"), Make("For", 4)>>
FunctionCall == <<TakeName, Take({"("}), Expr, MoreArgs(1)>>
DeclAssignment == <<Take({"let"}), TakeName, Parse("initializer")>>
Return ==
  <<Take({"return"}), See(TokenType \ {";"}), Expr, Take({";"}), Make("Return", 1)>>
FunctionDef(kwd) ==
  <<Take({kwd})>> \o (IF kwd = "fn" THEN <<>> ELSE <<Take({"fn"})>>) \o
  <<TakeName, Take({"("}), See(Name \union {")"}), Parse("parameter list"),
    See({"{"}), Block("plain"), Make(kwd, 3)>>

(* An else branch; anything else is not consumed.                          *)
ElseBranch ==
  /\ Doing("else")
  /\ IF Peek = "else"
       THEN Go(<<See({"{", "if"}), Expr, Make("If", 3)>>, Consumed)
       ELSE Go(<<Make("If", 2)>>, iters)
  /\ UNCHANGED nodes

MoreArguments ==
  /\ Doing("arguments")
  /\ IF Peek \in {",", ")"}
       THEN /\ Go(IF Peek = "," THEN <<Expr, MoreArgs(Instr.n + 1)>>
                                ELSE <<Make("Call", Instr.n + 1)>>, Consumed)
            /\ UNCHANGED nodes
       ELSE Throw(Consumed)

Initializer ==
  /\ Doing("initializer")
  /\ IF Peek \in {"=", ";"}
       THEN /\ Go(IF Peek = "=" THEN <<Expr, Take({";"}), Make("Let", 2)>>
                                ELSE <<Make("Let", 1)>>, Consumed)
            /\ UNCHANGED nodes
       ELSE Throw(Consumed)

ParameterList ==
  /\ Doing("parameter list")
  /\ IF Peek \in Name THEN Go(<<TakeName, MoreParams(1)>>, iters)
                      ELSE Go(<<Make("Params", 0)>>, Consumed)
  /\ UNCHANGED nodes

MoreParameters ==
  /\ Doing("parameters")
  /\ IF Peek \in {",", ")"}
       THEN /\ Go(IF Peek = "," THEN <<TakeName, MoreParams(Instr.n + 1)>>
                                ELSE <<Make("Params", Instr.n)>>, Consumed)
            /\ UNCHANGED nodes
       ELSE Throw(Consumed)

-----------------------------------------------------------------------------
FunctionStart == {"fn", "extern", "externc"}
WithBlock == {"if", "while", "for", "{"}
Beginnings(toplevel) ==
  IF toplevel THEN FunctionStart \union {"let"} ELSE TokenType \ FunctionStart

ParseStatement ==
  /\ Doing("statement")
  /\ IF Peek \notin Beginnings(Instr.toplevel) THEN Throw(iters)
       ELSE /\ Go(CASE Peek = "let" -> DeclAssignment
                    [] Peek \in FunctionStart -> FunctionDef(Peek)
                    [] Peek = "return" -> Return
                    [] OTHER -> <<Expr, [do |-> "statement end", first |-> Peek]>>,
                  iters)
            /\ UNCHANGED nodes

(* Behind the expression of a statement: an assignment, or the end.  Only  *)
(* a statement that began with a block or its keyword needs no semicolon.  *)
StatementEnd ==
  /\ Doing("statement end")
  /\ IF Peek = "none" THEN Throw(iters)
     ELSE /\ IF Peek = "="
               THEN Go(<<See(TokenType \ {";"}), Expr, Take({";"}), Make("Assign", 2)>>,
                       Consumed)
               ELSE Go((IF Instr.first \in WithBlock THEN <<>> ELSE <<Take({";"})>>)
                         \o <<Make("ExprStmt", 1)>>, iters)
          /\ UNCHANGED nodes

-----------------------------------------------------------------------------
Count(S, a, b) == Cardinality({p \in a..b : tokens[p] \in S})

(* The search of parseBlock for the end of the block, from behind its "{": *)
(* the last token of ps is not looked at and is the end if none is found.  *)
BlockEnds(a, to) ==
  {p \in a..(to - 2) : tokens[p] = "}" /\ Count({"{"}, a, p - 1) = Count({"}"}, a, p - 1)}
BlockEnd(a, to) == Min(BlockEnds(a, to) \union {to - 1})
(* Mutant: the last token is not taken for the end.                        *)
NoBlockEndAtLast(a, to) == BlockEnds(a, to) = {}

NoBlockEnd(a, to) ==
  BlockEnds(a, to) = {} /\ Count({"{"}, a, to - 2) # Count({"}"}, a, to - 2)

(* Mutant: a brace or semicolon between parentheses counts.                *)
ResultStartInParens(a, end) ==
  LET outside(p) == Count({"{"}, p + 1, end - 1) = Count({"}"}, p + 1, end - 1)
  IN  1 + Max({p \in a..(end - 1) : tokens[p] \in {";", "}"} /\ outside(p)}
                \union {a - 1})

(* Backwards from the end of the block: its result starts behind the last  *)
(* semicolon or closing brace outside brackets.                            *)
ResultStart(a, end) ==
  LET outside(p) ==
        /\ Count({"{"}, p + 1, end - 1) = Count({"}"}, p + 1, end - 1)
        /\ Count({"("}, p + 1, end - 1) = Count({")"}, p + 1, end - 1)
  IN  1 + Max({p \in a..(end - 1) : tokens[p] \in {";", "}"} /\ outside(p)}
                \union {a - 1})

BlockLoop(kind, result_start, has_result) ==
  [do |-> "block loop", kind |-> kind, result_start |-> result_start,
   has_result |-> has_result, nodes |-> Len(nodes)]

ParseToplevel ==
  /\ Doing("block") /\ Instr.kind = "toplevel"
  /\ IF Peek = "eof" THEN Go(<<>>, iters) /\ Push(Node("Block", <<>>))
     ELSE Go(<<BlockLoop("toplevel", ps.to - 1, FALSE)>>, iters) /\ UNCHANGED nodes

(* An empty block is returned when its closing brace has only been seen.   *)
ParseBlock ==
  /\ Doing("block") /\ Instr.kind # "toplevel"
  /\ LET a == ps.at + 1 IN
     IF Peek # "{" \/ a = ps.to THEN Throw(Consumed)
     ELSE IF tokens[a] = "}" THEN Go(<<>>, Consumed) /\ Push(Node("Block", <<>>))
     ELSE IF NoBlockEnd(a, ps.to) THEN Crash("block_end has invalid value")
     ELSE LET end == BlockEnd(a, ps.to)
              start == ResultStart(a, end)
          IN  Go(<<BlockLoop(Instr.kind, start, start # end)>>, Consumed)
                /\ UNCHANGED nodes

SkipSemicolons(p) ==
  Min({q \in p..(ps.to - 1) : tokens[q] # ";"} \union {ps.to})
InReach(p) == p < ps.to /\ tokens[p] # "eof"

(* Mutant: only the statements of inner blocks are tried.                  *)
NextStatementUntried ==
  /\ Doing("block loop") /\ ps.at < Instr.result_start
  /\ LET at == SkipSemicolons(ps.at) IN
     /\ InReach(at)
     /\ Go(<<Statement(Instr.kind = "toplevel")>>
             \o (IF Instr.kind = "toplevel" THEN <<>> ELSE <<EndOfTry(TRUE, at)>>)
             \o <<Instr>>, MovedTo(at))
     /\ UNCHANGED nodes

(* One turn of the loop over the statements.                               *)
NextStatement ==
  /\ Doing("block loop") /\ ps.at < Instr.result_start
  /\ LET at == SkipSemicolons(ps.at) IN
     /\ InReach(at)
     /\ Go(<<Statement(Instr.kind = "toplevel"), EndOfTry(TRUE, at), Instr>>, MovedTo(at))
     /\ UNCHANGED nodes

(* What follows the loop: a result if there is one, the closing brace.     *)
Closing(at) ==
  LET close == IF Instr.kind = "toplevel" THEN <<>> ELSE <<Take({"}"})>>
      build == <<[do |-> "make block", nodes |-> Instr.nodes]>>
      result == /\ Instr.has_result /\ Instr.kind # "loop" /\ InReach(at)
                /\ at = Instr.result_start
  IN  (IF result THEN <<Expr, Make("Result", 1), EndOfTry(FALSE, at)>> ELSE <<>>)
        \o close \o build

(* The end of the file inside the loop is an error of its own.             *)
EndOfStatements ==
  /\ Doing("block loop")
  /\ LET at == SkipSemicolons(ps.at) IN
     /\ ps.at >= Instr.result_start \/ ~InReach(at)
     /\ todo' = Closing(at) \o Tail(todo)
     /\ iters' = MovedTo(at)
     /\ errors' = IF ps.at < Instr.result_start THEN OneMore(errors) ELSE errors
     /\ UNCHANGED <<tokens, nodes, stalled, outcome>>

(* Mutant: the last statement is not moved into the block.                 *)
MakeBlockLeavesOne ==
  /\ Doing("make block")
  /\ Go(<<>>, iters)
  /\ LET n == Len(nodes) - Instr.nodes
     IN  nodes' = Gathered("Block", IF n = 0 THEN 0 ELSE n - 1)

MakeBlock ==
  /\ Doing("make block")
  /\ Go(<<>>, iters)
  /\ nodes' = Gathered("Block", Len(nodes) - Instr.nodes)

-----------------------------------------------------------------------------
InRange(range, body) == <<Enter(range)>> \o body \o <<Leave>>

(* An expression without operators, in the range r.                        *)
Operand(r) ==
  LET first == tokens[r.from] IN
  CASE first = "{"     -> InRange(r, <<Block("plain")>>)
    [] first = "if"    -> InRange(r, IfCond)
    [] first = "while" -> InRange(r, WhileLoop)
    [] first = "for"   -> InRange(r, ForLoop)
    [] first \in Name  -> InRange(r, FunctionCall)

IsAtom(r) ==
  \/ tokens[r.from] = "num"
  \/ tokens[r.from] \in Name /\ ~(r.from + 1 < r.to /\ tokens[r.from + 1] = "(")

ParseExpression ==
  /\ Doing("expression")
  /\ LET end    == ScanEnd(tokens, ps.at, ps.to)
         ranges == OperandRanges(tokens, ps.at, end)
         shape  == ScanShape(tokens, ps.at, end)
         r      == ranges[1]
     IN  IF ScanThrows(tokens, ps.at, ps.to, end) THEN Throw(MovedTo(end))
         ELSE IF WrappedInParens(tokens, ps.at, ps.to, end)
           THEN Go(InRange(Span(r.from + 1, r.to - 1), <<Expr>>), MovedTo(end))
                  /\ UNCHANGED nodes
         ELSE IF Len(shape) > 1
           THEN Go(<<Operands(ranges), Fuse(shape)>>, MovedTo(end)) /\ UNCHANGED nodes
         ELSE IF tokens[r.from] = "(" THEN Crash("unreachable: paren")
         ELSE IF IsAtom(r)
           THEN Go(<<>>, MovedTo(end)) /\ Push(Node(tokens[r.from], <<>>))
         ELSE IF tokens[r.from] \in WithBlock \union Name
           THEN Go(Operand(r), MovedTo(end)) /\ UNCHANGED nodes
         ELSE Throw(MovedTo(end))

(* The operands are parsed one after the other, before any is fused.       *)
NextOperand ==
  /\ Doing("operands")
  /\ LET left == Instr.ranges IN
     Go(IF left = <<>> THEN <<>>
        ELSE InRange(Head(left), <<Expr>>) \o <<Operands(Tail(left))>>, iters)
  /\ UNCHANGED nodes

(* The operators are fused with the operands, which are the last nodes.  A *)
(* fusion that fails ends the program, unless an operator has another one  *)
(* on its right.  Taking the back of an empty list, which is undefined, is *)
(* an end here too.                                                        *)
FuseOperands ==
  /\ Doing("fuse")
  /\ LET shape == Instr.shape
         upto(k) == Cardinality({j \in 1..k : shape[j] = "x"})
         n     == upto(Len(shape))
         fused == Fused([k \in 1..Len(shape) |->
                           IF shape[k] = "x" THEN nodes[Len(nodes) - n + upto(k)]
                                             ELSE Node(shape[k], <<>>)])
     IN  IF fused.outcome = "done"
           THEN /\ Go(<<>>, iters)
                /\ nodes' = Append(SubSeq(nodes, 1, Len(nodes) - n), fused.tree)
         ELSE IF fused.outcome = "syntax error" THEN Throw(iters)
         ELSE Crash("operator fusion")

Finish ==
  /\ outcome = "running" /\ todo = <<>>
  /\ outcome' = "done"
  /\ UNCHANGED <<tokens, iters, todo, nodes, errors, stalled>>

(* The machine stops here and nowhere else.                               *)
Returned == outcome # "running" /\ UNCHANGED vars

Next ==
  \/ TakeToken \/ SeeToken \/ TakeIdentifier
  \/ EnterRange \/ LeaveRange \/ SplitAtBrace \/ MakeNode \/ LeaveTry
  \/ ElseBranch \/ MoreArguments \/ Initializer \/ ParameterList \/ MoreParameters
  \/ ParseStatement \/ StatementEnd
  \/ ParseToplevel \/ ParseBlock \/ NextStatement \/ EndOfStatements \/ MakeBlock
  \/ ParseExpression \/ NextOperand \/ FuseOperands
  \/ Finish \/ Returned

Spec == Init /\ [][Next]_vars

-----------------------------------------------------------------------------
Crashes == {"unreachable: paren", "block_end has invalid value", "operator fusion"}

TypeOK ==
  /\ tokens \in Seq(TokenType)
  /\ iters \in Seq([at : Nat, to : Nat]) /\ iters # <<>>
  /\ errors \in 0..MaxErrors /\ stalled \in BOOLEAN
  /\ outcome \in {"running", "done", "uncaught"} \union Crashes
  /\ outcome = "done" => Len(nodes) = 1

(* Every ParseState stays inside the token vector and, a copy made for a   *)
(* part of an expression, inside what the ParseState it was made from has  *)
(* already walked over: no n_remain wraps around, and no function reads    *)
(* the tokens its caller has kept for itself.                              *)
IteratorsNested ==
  /\ \A k \in 1..Len(iters) :
       1 <= iters[k].at /\ iters[k].at <= iters[k].to /\ iters[k].to <= Len(tokens) + 1
  /\ \A k \in 2..Len(iters) : iters[k].to <= iters[k - 1].at

(* Every UnexpectedTokenError, wherever it is thrown, finds the catch of a *)
(* statement or of a block result.                                         *)
EveryErrorIsCaught == outcome # "uncaught"

(* The parser takes finitely many steps and then returns or ends the       *)
(* program, unless a statement was given up before it consumed a token:    *)
(* then the loop of its block parses the same statement again and again.   *)
(* That it stops nowhere else is that there is no deadlock.                *)
EndsUnlessStalled == <>[][FALSE]_vars \/ <>stalled

(* The internal error about the end of a block (parser.cpp:750) is only    *)
(* raised for a file whose braces do not match: in every other one, also   *)
(* behind errors and inside the ranges of operands, each block that is     *)
(* parsed has its end.                                                     *)
BracesMatch ==
  /\ Count({"{"}, 1, Len(tokens)) = Count({"}"}, 1, Len(tokens))
  /\ \A p \in 1..Len(tokens) : Count({"{"}, 1, p) >= Count({"}"}, 1, p)

BlockEndIsFound == outcome = "block_end has invalid value" => ~BracesMatch
=============================================================================
