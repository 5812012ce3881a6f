----------------------------- MODULE CodegenMC -----------------------------
(***************************************************************************)
(* Programs for Codegen: two variables that are also function names, and   *)
(* function bodies in which declarations, uses, branches, loops and blocks *)
(* with a result follow one another and are nested.                        *)
(***************************************************************************)
EXTENDS CodegenReference

Tree(node, name, kids) == [node |-> node, name |-> name, kids |-> kids]
Block(stmts, result)   ==
  [node |-> "Block", name |-> "", kids |-> stmts, result |-> result]
Fun(name, params, block) ==
  [node |-> "Fn", name |-> name, params |-> params, kids |-> <<block>>]

Num    == Tree("Constant", "", <<>>)
Ref(x) == Tree("VarRef", x, <<>>)
Plus(d, e) == Tree("Operator", "", <<d, e>>)
Call(f, args) == Tree("Call", f, args)
LetVar(x, kids) == Tree("Let", x, kids)
SetVar(x, e) == Tree("Assign", "", <<Ref(x), e>>)
Do(e)   == Tree("ExprStmt", "", <<e>>)
If(kids) == Tree("If", "", kids)
While(e, b) == Do(Tree("While", "", <<e, b>>))

A == Ref("a")
Leaves == {LetVar("a", <<>>), LetVar("b", <<A>>), SetVar("a", Num), SetVar("b", Plus(A, Num)),
           Do(Call("a", <<A>>)), Tree("Return", "", <<A>>), Tree("Assign", "", <<Num, A>>)}
Small  == {Block(<<s>>, <<>>) : s \in Leaves}
            \union {Block(<<s>>, <<e>>) : s \in {LetVar("a", <<Num>>)}, e \in {A, Ref("b")}}
            \union {Block(<<>>, <<>>)}
Nested == Small \union {Block(<<s, t>>, <<A>>) : s, t \in {LetVar("a", <<Num>>), LetVar("b", <<A>>)}}
Conds  == {A, Plus(A, Block(<<LetVar("a", <<A>>)>>, <<A>>)), Plus(A, Block(<<>>, <<>>))}
Branches ==
  {If(<<A, b>>) : b \in Small} \union {If(<<c, b, d>>) : c \in Conds, b \in {Block(<<>>, <<A>>)}, d \in Small}
    \union {If(<<A, Block(<<>>, <<A>>), If(<<e, Block(<<>>, <<>>)>>)>>) : e \in {A, Ref("b")}}
Loops  == {While(c, b) : c \in Conds, b \in {x \in Small : x.result = <<>>}}
            \union {While(A, Block(<<Do(If(<<A, b>>)), LetVar("b", <<A>>)>>, <<>>)) : b \in Small}
Statements ==
  Leaves \union {Do(e) : e \in Nested \union Branches} \union Loops
    \union {LetVar("b", <<e>>) : e \in Branches \union {Block(<<Do(x)>>, <<A>>) : x \in Branches}}
    \union {SetVar("a", e) : e \in Small} \union {Do(Call("a", <<e>>)) : e \in Small}

Bodies(S, U) == {Block(<<s, t>>, <<>>) : s \in S, t \in U}
Others == {LetVar("b", <<A>>), SetVar("b", Num), Do(If(<<A, Block(<<>>, <<A>>)>>)),
           While(A, Block(<<LetVar("a", <<Num>>)>>, <<>>))}

AllPrograms ==
  {<<Fun("a", <<"a">>, b)>> :
     b \in Bodies(Statements, Others) \union Bodies(Others, Statements)
             \union {Block(<<s, t, u>>, <<A>>) : s, u \in Others, t \in Statements}} \union
  {<<LetVar("a", kids), Fun("b", params, Block(<<s>>, <<A>>))>> :
     kids \in {<<>>, <<Num>>}, params \in {<<>>, <<"a">>, <<"a", "a">>}, s \in Statements} \union
  {<<Fun("b", <<"a">>, b), LetVar(x, <<>>), Fun(f, <<"b">>, Block(<<s>>, <<Ref("b")>>))>> :
     b \in {Block(<<>>, <<A>>)}, x \in {"a", "b"}, f \in {"a", "b"}, s \in Statements}

RECURSIVE Subtrees(_)
Subtrees(t) ==
  {t} \union UNION {Subtrees(k) : k \in ToSet(t.kids)}
      \union (IF t.node = "Block" THEN UNION {Subtrees(e) : e \in ToSet(t.result)} ELSE {})
AllTrees == UNION {UNION {Subtrees(t) : t \in ToSet(p)} : p \in AllPrograms}
=============================================================================
