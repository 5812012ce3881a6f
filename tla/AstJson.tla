------------------------------ MODULE AstJson ------------------------------
(***************************************************************************)
(* The syntax tree as it is printed for the output kind ast: the           *)
(* toJsonString functions of source/ast.cpp, and the claim that what they  *)
(* print can be loaded again (main.cpp:36 plans a way to do so).           *)
(*                                                                         *)
(* A text is a sequence of lexemes.  The trees are those that Parser       *)
(* builds; there are no for loops among them (run parser_for).  Whether a  *)
(* function is extern is not printed, the classes below do not keep it.    *)
(***************************************************************************)
EXTENDS ParserReference

(* The objects that the nodes of Parser stand for.                         *)
RECURSIVE Classes(_)
Classes(t) ==
  Node(IF t.node \in FunctionStart THEN "fn" ELSE t.node,
       [k \in 1..Len(t.kids) |-> Classes(t.kids[k])])

-----------------------------------------------------------------------------
(* An object begins with its location and its kind.                        *)
jsonLocPrefix == <<"{", "loc", ":", "loc">>
Member(key, text) == <<",", key, ":">> \o text
Kind(kind) == jsonLocPrefix \o Member("kind", <<kind>>)

(* Mutant: the last entry has a comma as well.                             *)
ListAllCommas(texts) ==
  <<"[">> \o FlattenSeq([k \in 1..Len(texts) |-> texts[k] \o <<",">>]) \o <<"]">>

List(texts) ==
  <<"[">> \o FlattenSeq([k \in 1..Len(texts) |->
                texts[k] \o (IF k # Len(texts) THEN <<",">> ELSE <<>>)]) \o <<"]">>

RECURSIVE ToJson(_)
Texts(trees) == [k \in 1..Len(trees) |-> ToJson(trees[k])]
OrNull(is, tree) == IF is THEN ToJson(tree) ELSE <<"null">>

BinaryOpJson(t) ==
  Kind("binary_op") \o Member("op", <<t.kids[2].node>>)
    \o Member("lhs", ToJson(t.kids[1])) \o Member("rhs", ToJson(t.kids[3])) \o <<"}">>
UnaryOpJson(t) ==
  Kind("unary_op") \o Member("op", <<t.kids[1].node>>)
    \o Member("rhs", ToJson(t.kids[2])) \o <<"}">>
VarRefJson(t)   == Kind("var_ref") \o Member("name", <<t.node>>) \o <<"}">>
ConstantJson(t) == Kind("constant") \o Member("value", <<t.node>>) \o <<"}">>
FunctionCallJson(t) ==
  Kind("function_call") \o Member("name", <<t.kids[1].node>>)
    \o Member("args", List(Texts(Tail(t.kids)))) \o <<"}">>

IsResult(kid)    == kid.node = "Result"
IsStatement(kid) == ~IsResult(kid)
BlockJson(t) ==
  LET results == SelectSeq(t.kids, IsResult)
  IN  Kind("block") \o Member("statements", List(Texts(SelectSeq(t.kids, IsStatement))))
        \o Member("result", OrNull(results # <<>>, results[1].kids[1]))
        \o <<"}">>

IfJson(t) ==
  Kind("if") \o Member("condition", ToJson(t.kids[1])) \o Member("branch", ToJson(t.kids[2]))
    \o Member("else_branch", OrNull(Len(t.kids) = 3, t.kids[3])) \o <<"}">>
WhileJson(t) ==
  Kind("while") \o Member("condition", ToJson(t.kids[1]))
    \o Member("branch", ToJson(t.kids[2])) \o <<"}">>

FunctionDefJson(t) ==
  LET args == [k \in 1..Len(t.kids[2].kids) |-> <<t.kids[2].kids[k].node>>]
  IN  Kind("function_def")
        \o Member("proto", <<"{", "name", ":", t.kids[1].node>> \o Member("args", List(args)) \o <<"}">>)
        \o Member("block", ToJson(t.kids[3])) \o <<"}">>

(* Without a value the text ends behind its key, and the object is open.   *)
DeclAssignmentJson(t) ==
  Kind("decl_assignment") \o Member("name", <<t.kids[1].node>>) \o Member("value", <<>>)
    \o (IF Len(t.kids) = 2 THEN ToJson(t.kids[2]) \o <<"}">> ELSE <<>>)
AssignmentJson(t) ==
  Kind("assignment") \o Member("key", ToJson(t.kids[1])) \o Member("value", ToJson(t.kids[2]))
    \o <<"}">>
ReturnJson(t)   == Kind("return") \o Member("value", ToJson(t.kids[1])) \o <<"}">>
ExprStmtJson(t) == Kind("expr_stmt") \o Member("expr", ToJson(t.kids[1])) \o <<"}">>

ToJson(t) ==
  CASE t.node \in Name       -> VarRefJson(t)
    [] t.node = "num"        -> ConstantJson(t)
    [] t.node = "binary_op"  -> BinaryOpJson(t)
    [] t.node = "unary_op"   -> UnaryOpJson(t)
    [] t.node = "Call"       -> FunctionCallJson(t)
    [] t.node = "Block"      -> BlockJson(t)
    [] t.node = "If"         -> IfJson(t)
    [] t.node = "While"      -> WhileJson(t)
    [] t.node = "fn"         -> FunctionDefJson(t)
    [] t.node = "Let"        -> DeclAssignmentJson(t)
    [] t.node = "Assign"     -> AssignmentJson(t)
    [] t.node = "Return"     -> ReturnJson(t)
    [] t.node = "ExprStmt"   -> ExprStmtJson(t)

-----------------------------------------------------------------------------
(* A reader of JSON.  `at` is the position behind the value that is read.  *)
Malformed == [is |-> "malformed"]
Lexeme(s, p) == IF p <= Len(s) THEN s[p] ELSE "end"

RECURSIVE Read(_, _), ReadItems(_, _, _), ReadMembers(_, _, _)
Read(s, p) ==
  CASE Lexeme(s, p) = "{" -> ReadMembers(s, p + 1, <<>>)
    [] Lexeme(s, p) = "[" /\ Lexeme(s, p + 1) = "]" -> [is |-> "list", items |-> <<>>, at |-> p + 2]
    [] Lexeme(s, p) = "[" /\ Lexeme(s, p + 1) # "]" -> ReadItems(s, p + 1, <<>>)
    [] Lexeme(s, p) \in {"}", "]", ",", ":", "end"} -> Malformed
    [] OTHER -> [is |-> "scalar", text |-> s[p], at |-> p + 1]

ReadItems(s, p, before) ==
  LET item == Read(s, p)
      items == Append(before, item)
  IN  CASE item = Malformed -> Malformed
        [] Lexeme(s, item.at) = "," -> ReadItems(s, item.at + 1, items)
        [] Lexeme(s, item.at) = "]" -> [is |-> "list", items |-> items, at |-> item.at + 1]
        [] OTHER -> Malformed

ReadMembers(s, p, before) ==
  LET value == Read(s, p + 2)
      of == before @@ (Lexeme(s, p) :> value)
  IN  CASE Lexeme(s, p + 1) # ":" \/ value = Malformed -> Malformed
        [] Lexeme(s, value.at) = "," -> ReadMembers(s, value.at + 1, of)
        [] Lexeme(s, value.at) = "}" -> [is |-> "object", of |-> of, at |-> value.at + 1]
        [] OTHER -> Malformed

(* The tree that an object describes.                                      *)
RECURSIVE Loaded(_)
Loaded(object) ==
  LET of == object.of
      leaf(key)     == Leaf(of[key].text)
      one(key)      == Loaded(of[key])
      all(key)      == [k \in 1..Len(of[key].items) |-> Loaded(of[key].items[k])]
      optional(key) == IF of[key].is = "object" THEN <<one(key)>> ELSE <<>>
      leaves(list)  == [k \in 1..Len(list.items) |-> Leaf(list.items[k].text)]
  IN  CASE of["kind"].text = "var_ref"   -> leaf("name")
        [] of["kind"].text = "constant"  -> leaf("value")
        [] of["kind"].text = "binary_op" -> Node("binary_op", <<one("lhs"), leaf("op"), one("rhs")>>)
        [] of["kind"].text = "unary_op"  -> Node("unary_op", <<leaf("op"), one("rhs")>>)
        [] of["kind"].text = "function_call" -> Node("Call", <<leaf("name")>> \o all("args"))
        [] of["kind"].text = "block"     ->
             Node("Block", all("statements")
                             \o [k \in 1..Len(optional("result")) |->
                                   Node("Result", <<optional("result")[k]>>)])
        [] of["kind"].text = "if"        ->
             Node("If", <<one("condition"), one("branch")>> \o optional("else_branch"))
        [] of["kind"].text = "while"     -> Node("While", <<one("condition"), one("branch")>>)
        [] of["kind"].text = "function_def" ->
             LET proto == of["proto"].of
             IN  Node("fn", <<Leaf(proto["name"].text), Node("Params", leaves(proto["args"])),
                              one("block")>>)
        [] of["kind"].text = "decl_assignment" -> Node("Let", <<leaf("name"), one("value")>>)
        [] of["kind"].text = "assignment" -> Node("Assign", <<one("key"), one("value")>>)
        [] of["kind"].text = "return"     -> Node("Return", <<one("value")>>)
        [] of["kind"].text = "expr_stmt"  -> Node("ExprStmt", <<one("expr")>>)

(* Some declaration has no value.                                          *)
RECURSIVE CutOff(_)
CutOff(t) ==
  \/ t.node = "Let" /\ Len(t.kids) = 1
  \/ \E k \in 1..Len(t.kids) : CutOff(t.kids[k])

(* Whatever is parsed, in programs with errors too, is printed as JSON     *)
(* from which the same tree can be loaded, unless it declares a variable   *)
(* without a value: then the text is cut off there.                        *)
PrintedTreeLoads ==
  outcome = "done" /\ ~CutOff(nodes[1]) =>
    LET tree == Classes(nodes[1])
        json == Read(ToJson(tree), 1)
    IN  json # Malformed /\ json.at = Len(ToJson(tree)) + 1 /\ Loaded(json) = tree
=============================================================================
