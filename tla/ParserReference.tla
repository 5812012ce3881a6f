-------------------------- MODULE ParserReference --------------------------
(***************************************************************************)
(* The trees of the language and how they are written down, and the claim  *)
(* that Parser (source/parser.cpp) reads back what was written.            *)
(*                                                                         *)
(* Left out of the trees, because the parser does not read them back:      *)
(* subtractions (OperatorFusion), an expression that is a single operand   *)
(* in parentheses (ExprScan), empty blocks, calls without arguments, for   *)
(* loops, and a block whose result contains a block outside parentheses.   *)
(***************************************************************************)
EXTENDS Parser

RECURSIVE Written(_)

(* How tight a node holds its operands together.  One that is an operand   *)
(* is put in parentheses unless it is tight enough.                        *)
Tightness(e) ==
  CASE e.node = "unary_op" -> 3
    [] e.node = "binary_op" /\ e.kids[2].node \in {"*", "/", "%"} -> 2
    [] e.node = "binary_op" /\ e.kids[2].node \in {"+", "-"} -> 1
    [] OTHER -> 4
Atom == 4
AtLeast(tightness, e) ==
  IF Tightness(e) < tightness THEN <<"(">> \o Written(e) \o <<")">> ELSE Written(e)

Listed(kids) ==
  FlattenSeq([k \in 1..Len(kids) |-> (IF k = 1 THEN <<>> ELSE <<",">>) \o Written(kids[k])])

All(kids) == FlattenSeq([k \in 1..Len(kids) |-> Written(kids[k])])

Written(t) ==
  LET k == t.kids
      w(i) == Written(k[i])
  IN  CASE t.node \in Name \union Fixed -> <<>>
             \o (IF t.node \in {"fn", "extern", "externc"}
                   THEN (IF t.node = "fn" THEN <<"fn">> ELSE <<t.node, "fn">>)
                          \o w(1) \o <<"(">> \o Listed(k[2].kids) \o <<")">> \o w(3)
                   ELSE <<t.node>>)
        [] t.node = "binary_op" ->
             AtLeast(Tightness(t), k[1]) \o w(2) \o AtLeast(Tightness(t) + 1, k[3])
        [] t.node = "unary_op" -> w(1) \o AtLeast(Atom, k[2])
        [] t.node = "Call"     -> w(1) \o <<"(">> \o Listed(Tail(k)) \o <<")">>
        [] t.node = "If"       -> <<"if">> \o AtLeast(Atom, k[1]) \o w(2)
                                    \o (IF Len(k) = 3 THEN <<"else">> \o w(3) ELSE <<>>)
        [] t.node = "While"    -> <<"while">> \o AtLeast(Atom, k[1]) \o w(2)
        [] t.node = "For"      -> <<"for">> \o w(1) \o w(2) \o <<";">> \o w(3) \o w(4)
        [] t.node = "Block"    -> <<"{">> \o All(k) \o <<"}">>
        [] t.node = "Result"   -> w(1)
        [] t.node = "Let"      ->
             <<"let">> \o w(1) \o (IF Len(k) = 2 THEN <<"=">> \o w(2) ELSE <<>>) \o <<";">>
        [] t.node = "Return"   -> <<"return">> \o w(1) \o <<";">>
        [] t.node = "Assign"   -> w(1) \o <<"=">> \o w(2) \o <<";">>
        [] t.node = "ExprStmt" ->
             w(1) \o (IF k[1].node \in {"If", "While", "For", "Block"} THEN <<>> ELSE <<";">>)

(* A file is a block without braces, and the end of the file.              *)
WrittenFile(t) == All(t.kids) \o <<"eof">>

-----------------------------------------------------------------------------
Leaf(n) == Node(n, <<>>)
Let(e)  == Node("Let", <<Leaf("a"), e>>)
BinOp(op, l, r) == Node("binary_op", <<l, Leaf(op), r>>)
Minus(e) == Node("unary_op", <<Leaf("-"), e>>)

Sums     == {BinOp("+", Leaf("a"), Leaf("num")), BinOp("*", Leaf("num"), Leaf("b"))}
Nested   == {BinOp("*", e, Leaf("a")) : e \in Sums} \union
            {BinOp("+", Leaf("a"), e) : e \in Sums} \union
            {Minus(e) : e \in Sums \union {Leaf("a")}} \union
            {BinOp("*", Leaf("b"), Minus(Leaf("a"))), BinOp("+", Minus(Leaf("a")), Leaf("b"))}
Calls(E) == {Node("Call", <<Leaf("b"), e>>) : e \in E} \union
            {Node("Call", <<Leaf("b"), e, Leaf("a")>>) : e \in E}
Simple   == {Leaf("a"), Leaf("num")} \union Sums
Plain    == Simple \union Nested \union Calls(Simple)
              \union {BinOp("+", c, Leaf("a")) : c \in Calls({Leaf("num")})}

Short(E) == {Let(e) : e \in E} \union {Node("ExprStmt", <<e>>) : e \in E}
              \union {Node("Return", <<e>>) : e \in E}
              \union {Node("Assign", <<Leaf("b"), e>>) : e \in E}
Results(E) == {Node("Result", <<e>>) : e \in E}
Blocks(S, R) ==
  {Node("Block", <<s>>) : s \in S \union R} \union
  {Node("Block", <<s, r>>) : s \in S, r \in S \union R}

CallB   == Node("Call", <<Leaf("b"), Leaf("a")>>)
Few     == {Let(Leaf("num")), Node("ExprStmt", <<CallB>>)}
Bodies  == Blocks({Node("ExprStmt", <<CallB>>)}, {})
Inner   == Bodies \union Blocks({Let(Leaf("num"))}, Results({CallB} \union Sums))
IfElse  == {Node("If", <<Leaf("a"), b, c>>) : b \in Inner, c \in Bodies \union Inner}
Ifs     == {Node("If", <<c, b>>) : c \in Plain, b \in Bodies} \union IfElse
             \union {Node("If", <<Leaf("a"), b, c>>) : b \in Bodies, c \in IfElse}
Whiles  == {Node("While", <<c, b>>) : c \in Plain, b \in Bodies}
Fors    == {Node("For", <<Let(Leaf("num")), c, Node("Assign", <<Leaf("a"), d>>), b>>) :
              c \in Simple, d \in Simple, b \in Bodies}
Braced  == Ifs \union Whiles \union Inner

Statements == Short(Plain \union Calls(Inner) \union Inner)
                \union {Node("ExprStmt", <<e>>) : e \in Braced}
                \union {Let(e) : e \in IfElse} \union {Node("Return", <<e>>) : e \in IfElse}
Fun(kwd, params, body) ==
  Node(kwd, <<Leaf("a"), Node("Params", params), body>>)
ABlock(s) == Node("Block", s)

Alone(s) == ABlock(<<Fun("fn", <<Leaf("a")>>, ABlock(<<s>>))>>)

(* Files: a function around every statement, alone or between another and  *)
(* the block's result, and a few lists of definitions.                     *)
Trees ==
  {Alone(s) : s \in Statements} \union
  {ABlock(<<Fun("fn", <<>>, ABlock(<<f, Node("ExprStmt", <<e>>), Node("Result", <<r>>)>>))>>) :
     f \in Few, e \in Braced, r \in {Leaf("a")} \union Calls({ABlock(<<Node("ExprStmt", <<CallB>>)>>)})} \union
  {ABlock(<<d, e>>) :
     d \in {Let(Leaf("num")), Node("Let", <<Leaf("b")>>)},
     e \in {Fun(kwd, p, b) : kwd \in FunctionStart,
              p \in {<<>>, <<Leaf("a")>>, <<Leaf("a"), Leaf("b")>>}, b \in Inner}}

Files    == {WrittenFile(t) : t \in Trees}
ForFiles == {WrittenFile(Alone(Node("ExprStmt", <<e>>))) : e \in Fors}

(* What is written as a file is parsed without an error into a tree that   *)
(* is written the same way: nothing is lost, moved or grouped differently. *)
RoundTrip ==
  (outcome # "running" /\ tokens \in Files) =>
    outcome = "done" /\ errors = 0 /\ WrittenFile(nodes[1]) = tokens

(* parser.cpp:570: of a for loop, "condition must be followed by           *)
(* semicolon".  A for loop written that way is parsed without an error.    *)
ForIsParsed == errors = 0
=============================================================================
