------------------------ MODULE OperatorFusionProofs ------------------------
(***************************************************************************)
(* For every expression of any length, the passes of OperatorFusion keep   *)
(* every operand owned exactly once: nothing is moved out of a null        *)
(* pointer, and the list they work on refers to no moved operand.          *)
(***************************************************************************)
EXTENDS OperatorFusion, SequenceTheorems, FiniteSetTheorems, TLAPS

(* The operands that s names from position a on exist and are not moved.   *)
Owns(s, a) ==
  \A j \in a..Len(s) :
    ~IsOperator(s[j]) => s[j].idx \in (1..Len(operands)) \ moved

(* s names no operand twice from position a on.                            *)
Unique(s, a) ==
  \A j, k \in a..Len(s) :
    (j # k /\ ~IsOperator(s[j]) /\ ~IsOperator(s[k])) => s[j].idx # s[k].idx

(* What this pass has placed and what it has not reached share nothing.    *)
Apart ==
  \A j \in 1..Len(new_epnis), k \in i..Len(epnis) :
    (~IsOperator(new_epnis[j]) /\ ~IsOperator(epnis[k])) =>
      new_epnis[j].idx # epnis[k].idx

IInv ==
  /\ TypeOK
  /\ OwnedOnce
  /\ Owns(new_epnis, 1) /\ Owns(epnis, i)
  /\ Unique(new_epnis, 1) /\ Unique(epnis, i)
  /\ Apart

-----------------------------------------------------------------------------
(* Counting operands: the number grows at every operand.                   *)
LEMMA OperandsBeforeMonotonic ==
  ASSUME NEW s, NEW j \in Nat, NEW k \in Nat, j <= k
  PROVE  /\ OperandsBefore(s, j) \in Nat
         /\ OperandsBefore(s, j) <= OperandsBefore(s, k)
         /\ (j < k /\ s[k] = "x") => OperandsBefore(s, j) < OperandsBefore(s, k)
<1> DEFINE J == {n \in 1..j : s[n] = "x"}
           K == {n \in 1..k : s[n] = "x"}
<1>1. IsFiniteSet(1..k)
  BY FS_Interval
<1>2. IsFiniteSet(K)
  BY <1>1, FS_Subset
<1>3. J \in SUBSET K
  OBVIOUS
<1>4. /\ IsFiniteSet(J) /\ Cardinality(J) <= Cardinality(K)
      /\ Cardinality(K) = Cardinality(J) => K = J
  BY <1>2, <1>3, FS_Subset
<1>5. Cardinality(J) \in Nat /\ Cardinality(K) \in Nat
  BY <1>2, <1>4, FS_CardinalityType
<1>6. (j < k /\ s[k] = "x") => K # J
  OBVIOUS
<1> HIDE DEF J, K
<1>7. OperandsBefore(s, j) = Cardinality(J) /\ OperandsBefore(s, k) = Cardinality(K)
  BY DEF OperandsBefore, J, K
<1> QED
  BY <1>4, <1>5, <1>6, <1>7

(* Fusing: a new node whose children are operands not moved yet is pushed, *)
(* and its children are moved.  The forest stays a forest.                 *)
LEMMA FuseKeepsForest ==
  ASSUME IInv, NEW o \in AllOps, NEW l \in Nat, NEW r \in 1..Len(operands),
         l \in (1..Len(operands)) \/ l = 0, l # r,
         l \notin moved, r \notin moved,
         operands' = Append(operands, Node(o, l, r)),
         moved' = moved \union ({l, r} \ {0})
  PROVE  /\ operands' \in Seq(Nodes) /\ moved' \subseteq 1..Len(operands')
         /\ Len(operands') = Len(operands) + 1
         /\ OwnedOnce'
<1>1. operands \in Seq(Nodes) /\ Len(operands) \in Nat /\ moved \subseteq 1..Len(operands)
  BY DEF IInv, TypeOK
<1>2. Node(o, l, r) \in Nodes
  BY DEF Node, Nodes
<1>3. /\ operands' \in Seq(Nodes) /\ Len(operands') = Len(operands) + 1
      /\ \A n \in 1..Len(operands) : operands'[n] = operands[n]
      /\ operands'[Len(operands) + 1] = Node(o, l, r)
  BY <1>1, <1>2
<1>4. moved' \subseteq 1..Len(operands')
  <2>1. {l, r} \ {0} \subseteq 1..Len(operands)
    OBVIOUS
  <2>2. 1..Len(operands) \subseteq 1..Len(operands')
    BY <1>1, <1>3
  <2> QED
    BY <1>1, <2>1, <2>2
<1> DEFINE new == Len(operands) + 1
<1>5. Children(operands'[new]) = {l, r} \ {0}
  BY <1>3 DEF Children, Node
<1>6. \A n \in 1..Len(operands) : Children(operands'[n]) \subseteq moved
  BY <1>3 DEF IInv, OwnedOnce
<1>7. ASSUME NEW n \in 1..Len(operands')
      PROVE  /\ \A c \in Children(operands'[n]) : c < n /\ c \in moved'
             /\ operands'[n].lhs = operands'[n].rhs => operands'[n].op = "leaf"
  <2>1. CASE n = new
    BY <1>1, <1>3, <1>5, <2>1 DEF Node
  <2>2. CASE n \in 1..Len(operands)
    BY <1>3, <2>2 DEF IInv, OwnedOnce
  <2> QED
    BY <1>1, <1>3, <2>1, <2>2
<1>8. ASSUME NEW m \in 1..Len(operands'), NEW n \in 1..Len(operands'), m # n
      PROVE  Children(operands'[m]) \intersect Children(operands'[n]) = {}
  <2>1. CASE m = new
    <3>1. n \in 1..Len(operands)
      BY <1>1, <1>3, <1>8, <2>1
    <3> QED
      BY <1>5, <1>6, <2>1, <3>1
  <2>2. CASE n = new
    <3>1. m \in 1..Len(operands)
      BY <1>1, <1>3, <1>8, <2>2
    <3> QED
      BY <1>5, <1>6, <2>2, <3>1
  <2>3. CASE m \in 1..Len(operands) /\ n \in 1..Len(operands)
    <3>1. operands'[m] = operands[m] /\ operands'[n] = operands[n]
      BY <1>3, <2>3
    <3>2. Children(operands[m]) \intersect Children(operands[n]) = {}
      BY <1>8, <2>3 DEF IInv, OwnedOnce
    <3> QED
      BY <3>1, <3>2
  <2>4. (m = new \/ m \in 1..Len(operands)) /\ (n = new \/ n \in 1..Len(operands))
    BY <1>1, <1>3, <1>8
  <2> QED
    BY <2>1, <2>2, <2>3, <2>4
<1>9. OwnedOnce'
  BY <1>7, <1>8 DEF OwnedOnce
<1> QED
  BY <1>3, <1>4, <1>9

-----------------------------------------------------------------------------
LEMMA InitInv == Init => IInv
<1> SUFFICES ASSUME Init PROVE IInv
  OBVIOUS
<1>1. PICK n \in 0..MaxLen : input \in [1..n -> Op \union {"x"}]
  BY MaxLenAssumption DEF Init, Shapes, BoundedSeq, SeqOf
<1>2. input \in Seq(Op \union {"x"}) /\ Len(input) \in Nat
  BY <1>1, MaxLenAssumption
<1>3. \A k \in 1..Len(input) : input[k] \in Op \union {"x"}
  BY <1>2
<1> DEFINE c(k) == OperandsBefore(input, k)
<1>4. /\ \A k \in 0..Len(input) : c(k) \in Nat /\ c(k) <= c(Len(input))
      /\ \A j, k \in 0..Len(input) : (j < k /\ input[k] = "x") => c(j) < c(k)
  BY <1>2, OperandsBeforeMonotonic
<1>5. \A k \in 1..Len(input) : input[k] = "x" => c(k) \in 1..c(Len(input))
  <2> TAKE k \in 1..Len(input)
  <2> HAVE input[k] = "x"
  <2>1. c(0) < c(k) /\ c(0) \in Nat /\ c(k) \in Nat /\ c(k) <= c(Len(input))
          /\ c(Len(input)) \in Nat
    BY <1>2, <1>4
  <2> HIDE DEF c
  <2> QED
    BY <2>1
<1>6. c(Len(input)) \in Nat
  BY <1>2, <1>4
<1> HIDE DEF c
<1>7. operands = [k \in 1..c(Len(input)) |-> Leaf]
  BY DEF Init, c
<1>8. operands \in Seq(Nodes) /\ Len(operands) = c(Len(input))
        /\ \A k \in 1..Len(operands) : operands[k] = Leaf
  <2>1. Leaf \in Nodes
    BY DEF Leaf, Nodes
  <2> QED
    BY <1>6, <1>7, <2>1
<1>9. /\ Len(epnis) = Len(input)
      /\ \A k \in 1..Len(input) :
           epnis[k] = IF input[k] = "x" THEN Operand(c(k)) ELSE Operator(input[k])
  BY <1>2 DEF Init, Numbered, c
<1>10. \A k \in 1..Len(input) : epnis[k] \in EPNI
  <2> TAKE k \in 1..Len(input)
  <2>1. CASE input[k] = "x"
    <3>1. epnis[k] = Operand(c(k)) /\ c(k) \in Nat
      BY <1>5, <1>6, <1>9, <2>1
    <3> QED
      BY <3>1 DEF Operand, EPNI
  <2>2. CASE input[k] # "x"
    <3>1. epnis[k] = Operator(input[k]) /\ input[k] \in AllOps
      BY <1>3, <1>9, <2>2, OpAssumption DEF AllOps
    <3> QED
      BY <3>1 DEF Operator, EPNI
  <2> QED
    BY <2>1, <2>2
<1>11. epnis \in Seq(EPNI)
  <2>1. epnis = [k \in 1..Len(input) |-> epnis[k]]
    BY <1>2 DEF Init, Numbered
  <2> QED
    BY <1>2, <1>10, <2>1
<1>12. TypeOK
  BY <1>2, <1>8, <1>11 DEF Init, TypeOK, Outcomes
<1>13. \A k \in 1..Len(input) : ~IsOperator(epnis[k]) => input[k] = "x" /\ epnis[k].idx = c(k)
  <2> TAKE k \in 1..Len(input)
  <2> HAVE ~IsOperator(epnis[k])
  <2>1. CASE input[k] = "x"
    <3>1. epnis[k] = Operand(c(k))
      BY <1>9, <2>1
    <3> QED
      BY <2>1, <3>1 DEF Operand
  <2>2. CASE input[k] # "x"
    <3>1. epnis[k] = Operator(input[k]) /\ input[k] \in {"*", "/", "%", "+", "-"}
      BY <1>3, <1>9, <2>2, OpAssumption
    <3>2. epnis[k].op # "none"
      BY <3>1 DEF Operator
    <3> QED
      BY <3>2 DEF IsOperator
  <2> QED
    BY <2>1, <2>2
<1>14. Owns(epnis, 1)
  <2>1. Len(epnis) = Len(input)
    BY <1>9
  <2>2. moved = {}
    BY DEF Init
  <2>3. ASSUME NEW j \in 1..Len(input), ~IsOperator(epnis[j])
        PROVE  epnis[j].idx \in 1..Len(operands)
    <3>1. input[j] = "x" /\ epnis[j].idx = c(j)
      BY <1>13, <2>3
    <3>2. c(j) \in 1..c(Len(input))
      BY <1>5, <3>1
    <3> QED
      BY <1>8, <3>1, <3>2
  <2> QED
    BY <2>1, <2>2, <2>3 DEF Owns
<1>15. Unique(epnis, 1)
  <2>1. ASSUME NEW j \in 1..Len(input), NEW k \in 1..Len(input), j < k,
               ~IsOperator(epnis[j]), ~IsOperator(epnis[k])
        PROVE  epnis[j].idx # epnis[k].idx
    <3>1. c(j) < c(k) /\ c(j) \in Nat /\ c(k) \in Nat
      BY <1>2, <1>4, <1>13, <2>1
    <3> QED
      BY <1>13, <2>1, <3>1
  <2>2. ASSUME NEW j \in 1..Len(input), NEW k \in 1..Len(input), j # k,
               ~IsOperator(epnis[j]), ~IsOperator(epnis[k])
        PROVE  epnis[j].idx # epnis[k].idx
    <3>1. j < k \/ k < j
      BY <2>2
    <3> QED
      BY <2>1, <2>2, <3>1
  <2> QED
    BY <1>9, <2>2 DEF Unique
<1>16. OwnedOnce
  BY <1>8 DEF OwnedOnce, Leaf, Children
<1>17. new_epnis = <<>> /\ Len(new_epnis) = 0 /\ i = 1
  BY DEF Init
<1>18. Owns(new_epnis, 1) /\ Unique(new_epnis, 1) /\ Apart
  BY <1>17 DEF Owns, Unique, Apart
<1> QED
  BY <1>12, <1>14, <1>15, <1>16, <1>17, <1>18 DEF IInv

(* The parts of the invariant that speak about the lists and the forest    *)
(* are kept by a step that changes none of these.                          *)
Parts == OwnedOnce /\ Owns(new_epnis, 1) /\ Owns(epnis, i)
           /\ Unique(new_epnis, 1) /\ Unique(epnis, i) /\ Apart

LEMMA PartsUnchanged ==
  ASSUME Parts, UNCHANGED <<epnis, new_epnis, operands, moved, i>>
  PROVE  Parts'
<1>1. OwnedOnce'
  BY DEF Parts, OwnedOnce
<1>2. Owns(new_epnis, 1)' /\ Owns(epnis, i)'
  BY DEF Parts, Owns
<1>3. Unique(new_epnis, 1)' /\ Unique(epnis, i)' /\ Apart'
  BY DEF Parts, Unique, Apart
<1> QED
  BY <1>1, <1>2, <1>3 DEF Parts

(* A step that only ends the function.                                     *)
LEMMA FailPreserves ==
  ASSUME IInv, NEW how \in Outcomes, Fail(how)
  PROVE  IInv'
<1>1. TypeOK'
  BY DEF IInv, TypeOK, Fail
<1>2. Parts'
  BY PartsUnchanged DEF IInv, Parts, Fail
<1> QED
  BY <1>1, <1>2 DEF IInv, Parts

LEMMA KeepPreserves ==
  ASSUME IInv, Keep
  PROVE  IInv'
<1> DEFINE here == Len(new_epnis) + 1
<1>1. /\ Len(epnis) \in Nat /\ Len(new_epnis) \in Nat /\ i \in Nat \ {0}
      /\ epnis \in Seq(EPNI) /\ new_epnis \in Seq(EPNI)
  BY DEF IInv, TypeOK
<1>2. /\ i <= Len(epnis) /\ i' = i + 1
      /\ new_epnis' = Append(new_epnis, epnis[i])
      /\ UNCHANGED <<input, epnis, operands, moved, level, outcome>>
  BY DEF Keep, InPass, Cur
<1>3. prev_was_operator' \in BOOLEAN
  BY DEF Keep, IsOperator
<1>4. epnis[i] \in EPNI
  BY <1>1, <1>2
<1>5. /\ new_epnis' \in Seq(EPNI) /\ Len(new_epnis') = here
      /\ \A j \in 1..Len(new_epnis) : new_epnis'[j] = new_epnis[j]
      /\ new_epnis'[here] = epnis[i]
  BY <1>1, <1>2, <1>4
<1>6. TypeOK'
  BY <1>1, <1>2, <1>3, <1>5 DEF IInv, TypeOK
<1>7. /\ \A j \in 1..Len(new_epnis') : j = here \/ j \in 1..Len(new_epnis)
      /\ i \in i..Len(epnis)
      /\ \A k \in i'..Len(epnis') : k \in i..Len(epnis) /\ k # i
  BY <1>1, <1>2, <1>5
<1>8. OwnedOnce'
  BY <1>2 DEF IInv, OwnedOnce
<1> HIDE DEF here
<1>9. Owns(new_epnis, 1)'
  BY <1>2, <1>5, <1>7 DEF IInv, Owns
<1>10. Owns(epnis, i)' /\ Unique(epnis, i)'
  BY <1>2, <1>7 DEF IInv, Owns, Unique
<1>11. Unique(new_epnis, 1)'
  <2> SUFFICES ASSUME NEW j \in 1..Len(new_epnis'), NEW k \in 1..Len(new_epnis'), j # k,
                      ~IsOperator(new_epnis'[j]), ~IsOperator(new_epnis'[k])
               PROVE  new_epnis'[j].idx # new_epnis'[k].idx
    BY DEF Unique, IsOperator
  <2>1. CASE j = here
    BY <1>5, <1>7, <2>1 DEF IInv, Apart
  <2>2. CASE k = here
    BY <1>5, <1>7, <2>2 DEF IInv, Apart
  <2>3. CASE j \in 1..Len(new_epnis) /\ k \in 1..Len(new_epnis)
    BY <1>5, <2>3 DEF IInv, Unique
  <2> QED
    BY <1>7, <2>1, <2>2, <2>3
<1>12. Apart'
  <2> SUFFICES ASSUME NEW j \in 1..Len(new_epnis'), NEW k \in i'..Len(epnis'),
                      ~IsOperator(new_epnis'[j]), ~IsOperator(epnis[k])
               PROVE  new_epnis'[j].idx # epnis[k].idx
    BY <1>2 DEF Apart, IsOperator
  <2>1. CASE j = here
    BY <1>5, <1>7, <2>1 DEF IInv, Unique
  <2>2. CASE j \in 1..Len(new_epnis)
    BY <1>5, <1>7, <2>2 DEF IInv, Apart
  <2> QED
    BY <1>7, <2>1, <2>2
<1> QED
  BY <1>6, <1>8, <1>9, <1>10, <1>11, <1>12 DEF IInv

(* Both fusions: the operator at i and the operand behind it go, a new     *)
(* node takes a place in new_epnis, in front of which nothing changes.     *)
LEMMA FusePreserves ==
  ASSUME IInv, Handled, NextIsOperand,
         NEW l \in Nat, l \in (1..Len(operands)) \ moved \/ l = 0,
         l # epnis[i + 1].idx,
         operands' = Append(operands, Node(Cur.op, l, epnis[i + 1].idx)),
         moved' = moved \union ({l, epnis[i + 1].idx} \ {0}),
         NEW place \in 1..(Len(new_epnis) + 1),
         new_epnis' \in Seq(EPNI), Len(new_epnis') = place,
         new_epnis'[place] = Operand(Len(operands) + 1),
         \A j \in 1..(place - 1) :
           /\ new_epnis'[j] = new_epnis[j]
           /\ ~IsOperator(new_epnis[j]) => new_epnis[j].idx # l,
         l # 0 => \A k \in i..Len(epnis) : ~IsOperator(epnis[k]) => epnis[k].idx # l,
         prev_was_operator' = FALSE, i' = i + 2,
         UNCHANGED <<input, epnis, level, outcome>>
  PROVE  IInv'
<1> DEFINE r == epnis[i + 1].idx
           new == Len(operands) + 1
<1>1. /\ Len(epnis) \in Nat /\ Len(new_epnis) \in Nat /\ i \in Nat \ {0}
      /\ Len(operands) \in Nat /\ moved \subseteq 1..Len(operands)
      /\ epnis \in Seq(EPNI) /\ new_epnis \in Seq(EPNI) /\ operands \in Seq(Nodes)
  BY DEF IInv, TypeOK
<1>2. i \in 1..Len(epnis) /\ i + 1 \in i..Len(epnis)
  BY <1>1 DEF NextIsOperand, HasNext
<1>3. r \in 1..Len(operands) /\ r \notin moved
  BY <1>2 DEF IInv, Owns, NextIsOperand
<1>4. Cur.op \in AllOps
  BY DEF Handled, InPass, Running, Levels, Ops, AllOps
<1>5. l \in 1..Len(operands) \/ l = 0
  OBVIOUS
<1>6. l \notin moved
  BY <1>1
<1>7. /\ operands' \in Seq(Nodes) /\ moved' \subseteq 1..Len(operands')
      /\ Len(operands') = new /\ OwnedOnce'
  BY <1>3, <1>4, <1>5, <1>6, FuseKeepsForest
<1>8. prev_was_operator' \in BOOLEAN
  OBVIOUS
<1>9. TypeOK'
  BY <1>1, <1>7, <1>8 DEF IInv, TypeOK
<1>10. /\ \A k \in i'..Len(epnis') : k \in i..Len(epnis) /\ k # i + 1
       /\ \A j \in 1..Len(new_epnis') :
            j = place \/ (j \in 1..(place - 1) /\ j \in 1..Len(new_epnis))
  BY <1>1
<1>11. \A n \in (1..Len(operands)) \ moved :
         (n # l /\ n # r) => n \in (1..Len(operands')) \ moved' /\ n # new
  BY <1>1, <1>7
<1>12. new \in (1..Len(operands')) \ moved'
  BY <1>1, <1>3, <1>5, <1>7
<1>13. \A k \in i'..Len(epnis') : ~IsOperator(epnis[k]) =>
         epnis[k].idx \in (1..Len(operands)) \ moved /\ epnis[k].idx # l
           /\ epnis[k].idx # r
  <2> TAKE k \in i'..Len(epnis')
  <2> HAVE ~IsOperator(epnis[k])
  <2>1. k \in i..Len(epnis) /\ k # i + 1
    BY <1>10
  <2>2. epnis[k].idx \in (1..Len(operands)) \ moved
    BY <2>1 DEF IInv, Owns
  <2>3. epnis[k].idx # l
    BY <1>3, <2>1, <2>2
  <2>4. epnis[k].idx # r
    BY <1>2, <2>1 DEF IInv, Unique, NextIsOperand
  <2> QED
    BY <2>2, <2>3, <2>4
<1>14. \A j \in 1..(place - 1) : ~IsOperator(new_epnis'[j]) =>
         new_epnis'[j].idx \in (1..Len(operands)) \ moved /\ new_epnis'[j].idx # l
           /\ new_epnis'[j].idx # r
  <2> TAKE j \in 1..(place - 1)
  <2>1. j \in 1..Len(new_epnis) /\ new_epnis'[j] = new_epnis[j]
    BY <1>1
  <2>2. ~IsOperator(new_epnis[j]) => new_epnis[j].idx # r
    BY <1>2, <2>1 DEF IInv, Apart, NextIsOperand
  <2>3. ~IsOperator(new_epnis[j]) => new_epnis[j].idx \in (1..Len(operands)) \ moved
    BY <2>1 DEF IInv, Owns
  <2>4. ~IsOperator(new_epnis[j]) => new_epnis[j].idx # l
    OBVIOUS
  <2> QED
    BY <2>1, <2>2, <2>3, <2>4
<1>15. ~IsOperator(new_epnis'[place]) /\ new_epnis'[place].idx = new
  BY DEF Operand, IsOperator
<1> HIDE DEF r, new
<1>16. Owns(new_epnis, 1)'
  <2> SUFFICES ASSUME NEW j \in 1..Len(new_epnis'), ~IsOperator(new_epnis'[j])
               PROVE  new_epnis'[j].idx \in (1..Len(operands')) \ moved'
    BY DEF Owns, IsOperator
  <2> QED
    BY <1>10, <1>11, <1>12, <1>14, <1>15
<1>17. Owns(epnis, i)'
  <2> SUFFICES ASSUME NEW k \in i'..Len(epnis'), ~IsOperator(epnis[k])
               PROVE  epnis[k].idx \in (1..Len(operands')) \ moved'
    BY DEF Owns, IsOperator
  <2> QED
    BY <1>11, <1>13
<1>18. Unique(new_epnis, 1)'
  <2> SUFFICES ASSUME NEW j \in 1..Len(new_epnis'), NEW k \in 1..Len(new_epnis'), j # k,
                      ~IsOperator(new_epnis'[j]), ~IsOperator(new_epnis'[k])
               PROVE  new_epnis'[j].idx # new_epnis'[k].idx
    BY DEF Unique, IsOperator
  <2>1. CASE j = place
    BY <1>10, <1>11, <1>14, <1>15, <2>1
  <2>2. CASE k = place
    BY <1>10, <1>11, <1>14, <1>15, <2>2
  <2>3. CASE j # place /\ k # place
    BY <1>10, <2>3 DEF IInv, Unique
  <2> QED
    BY <2>1, <2>2, <2>3
<1>19. Unique(epnis, i)'
  <2> SUFFICES ASSUME NEW j \in i'..Len(epnis'), NEW k \in i'..Len(epnis'), j # k,
                      ~IsOperator(epnis[j]), ~IsOperator(epnis[k])
               PROVE  epnis[j].idx # epnis[k].idx
    BY DEF Unique, IsOperator
  <2>1. j \in i..Len(epnis) /\ k \in i..Len(epnis)
    BY <1>10
  <2> QED
    BY <2>1 DEF IInv, Unique
<1>20. Apart'
  <2> SUFFICES ASSUME NEW j \in 1..Len(new_epnis'), NEW k \in i'..Len(epnis'),
                      ~IsOperator(new_epnis'[j]), ~IsOperator(epnis[k])
               PROVE  new_epnis'[j].idx # epnis[k].idx
    BY DEF Apart, IsOperator
  <2>1. CASE j = place
    BY <1>11, <1>13, <1>15, <2>1
  <2>2. CASE j # place
    BY <1>10, <2>2 DEF IInv, Apart
  <2> QED
    BY <2>1, <2>2
<1> QED
  BY <1>7, <1>9, <1>16, <1>17, <1>18, <1>19, <1>20 DEF IInv

LEMMA StepInv == IInv /\ [Next]_vars => IInv'
<1> SUFFICES ASSUME IInv, [Next]_vars PROVE IInv'
  OBVIOUS
<1>1. /\ Len(epnis) \in Nat /\ Len(new_epnis) \in Nat /\ Len(operands) \in Nat
      /\ i \in Nat \ {0} /\ moved \subseteq 1..Len(operands)
      /\ epnis \in Seq(EPNI) /\ new_epnis \in Seq(EPNI) /\ operands \in Seq(Nodes)
  BY DEF IInv, TypeOK
<1>2. CASE Keep
  BY <1>2, KeepPreserves
<1>3. CASE FuseUnary
  <2> DEFINE r == epnis[i + 1].idx
             e == Operand(Len(operands) + 1)
             place == Len(new_epnis) + 1
  <2>1. /\ Handled /\ NextIsOperand
        /\ operands' = Append(operands, Node(Cur.op, 0, r)) /\ moved' = moved \union {r}
        /\ new_epnis' = Append(new_epnis, e)
        /\ prev_was_operator' = FALSE /\ i' = i + 2
        /\ UNCHANGED <<input, epnis, level, outcome>>
    BY <1>3 DEF FuseUnary, AsUnary
  <2>2. i + 1 \in i..Len(epnis)
    BY <1>1, <2>1 DEF NextIsOperand, HasNext
  <2>3. r \in 1..Len(operands)
    BY <2>1, <2>2 DEF IInv, Owns, NextIsOperand
  <2>4. 0 # r /\ {r} = {0, r} \ {0}
    BY <1>1, <2>3
  <2>5. e \in EPNI
    BY <1>1 DEF Operand, EPNI
  <2> HIDE DEF e
  <2>6. /\ new_epnis' \in Seq(EPNI) /\ Len(new_epnis') = place
        /\ new_epnis'[place] = e
        /\ \A j \in 1..(place - 1) : j \in 1..Len(new_epnis) /\ new_epnis'[j] = new_epnis[j]
    BY <1>1, <2>1, <2>5
  <2>7. \A j \in 1..(place - 1) : ~IsOperator(new_epnis[j]) => new_epnis[j].idx # 0
    BY <1>1, <2>6 DEF IInv, Owns
  <2>8. place \in 1..(Len(new_epnis) + 1)
    BY <1>1
  <2> HIDE DEF place
  <2> QED
    BY <2>1, <2>4, <2>6, <2>7, <2>8, FusePreserves DEF e
<1>4. CASE FuseBinary
  <2> DEFINE l == Last(new_epnis).idx
             r == epnis[i + 1].idx
             e == Operand(Len(operands) + 1)
             place == Len(new_epnis)
  <2>1. /\ Handled /\ NextIsOperand /\ new_epnis # <<>> /\ ~IsOperator(Last(new_epnis))
        /\ operands' = Append(operands, Node(Cur.op, l, r))
        /\ moved' = moved \union {l, r}
        /\ new_epnis' = [new_epnis EXCEPT ![Len(new_epnis)] = e]
        /\ prev_was_operator' = FALSE /\ i' = i + 2
        /\ UNCHANGED <<input, epnis, level, outcome>>
    BY <1>4 DEF FuseBinary, AsBinary
  <2>2. i + 1 \in i..Len(epnis)
    BY <1>1, <2>1 DEF NextIsOperand, HasNext
  <2>3. r \in 1..Len(operands)
    BY <2>1, <2>2 DEF IInv, Owns, NextIsOperand
  <2>4. place \in 1..Len(new_epnis) /\ Last(new_epnis) = new_epnis[place]
    BY <1>1, <2>1 DEF Last
  <2>5. l \in (1..Len(operands)) \ moved
    BY <2>1, <2>4 DEF IInv, Owns
  <2>6. \A k \in i..Len(epnis) : ~IsOperator(epnis[k]) => epnis[k].idx # l
    BY <2>1, <2>4 DEF IInv, Apart
  <2>7. l # r
    BY <2>1, <2>2, <2>6 DEF NextIsOperand
  <2>8. {l, r} = {l, r} \ {0} /\ l \in Nat
    BY <1>1, <2>3, <2>5
  <2>9. e \in EPNI
    BY <1>1 DEF Operand, EPNI
  <2>10. \A j \in 1..(place - 1) : ~IsOperator(new_epnis[j]) => new_epnis[j].idx # l
    <3> TAKE j \in 1..(place - 1)
    <3>1. j \in 1..Len(new_epnis) /\ j # place
      BY <2>4
    <3>2. ~IsOperator(new_epnis[place]) /\ l = new_epnis[place].idx
      BY <2>1, <2>4
    <3> QED
      BY <2>4, <3>1, <3>2 DEF IInv, Unique
  <2> HIDE DEF e, l
  <2>11. /\ new_epnis' \in Seq(EPNI) /\ Len(new_epnis') = place
         /\ new_epnis'[place] = e
         /\ \A j \in 1..(place - 1) : new_epnis'[j] = new_epnis[j]
    BY <1>1, <2>1, <2>4, <2>9
  <2>12. place \in 1..(Len(new_epnis) + 1)
    BY <1>1, <2>4
  <2> HIDE DEF place
  <2> QED
    BY <2>1, <2>5, <2>6, <2>7, <2>8, <2>10, <2>11, <2>12, FusePreserves DEF e
<1>5. CASE Drop
  <2>1. /\ i' = i + 2 /\ UNCHANGED <<input, epnis, new_epnis, operands, moved, level, outcome>>
    BY <1>5 DEF Drop
  <2>2. prev_was_operator' \in BOOLEAN
    BY <1>5 DEF Drop
  <2>3. TypeOK'
    BY <1>1, <2>1, <2>2 DEF IInv, TypeOK
  <2>4. \A k \in i'..Len(epnis) : k \in i..Len(epnis)
    BY <1>1, <2>1
  <2>5. Owns(new_epnis, 1)' /\ Owns(epnis, i)' /\ OwnedOnce'
    BY <2>1, <2>4 DEF IInv, Owns, OwnedOnce
  <2>6. Unique(new_epnis, 1)' /\ Unique(epnis, i)' /\ Apart'
    BY <2>1, <2>4 DEF IInv, Unique, Apart
  <2> QED
    BY <2>3, <2>5, <2>6 DEF IInv
<1>6. CASE NextPass
  <2>1. /\ epnis' = new_epnis /\ new_epnis' = <<>> /\ Len(new_epnis') = 0
        /\ level' = level + 1 /\ level \in 1..3 /\ i' = 1
        /\ UNCHANGED <<input, operands, moved, outcome>>
    BY <1>6 DEF NextPass, Running, Levels
  <2>2. prev_was_operator' \in BOOLEAN
    BY <1>6 DEF NextPass
  <2>3. <<>> \in Seq(EPNI) /\ level + 1 \in 1..4
    BY <2>1
  <2>4. TypeOK'
    BY <1>1, <2>1, <2>2, <2>3 DEF IInv, TypeOK
  <2>5. Owns(epnis, i)' /\ Unique(epnis, i)'
    BY <2>1 DEF IInv, Owns, Unique
  <2>6. OwnedOnce'
    BY <2>1 DEF IInv, OwnedOnce
  <2>7. Owns(new_epnis, 1)' /\ Unique(new_epnis, 1)' /\ Apart'
    BY <2>1 DEF Owns, Unique, Apart
  <2> QED
    BY <2>4, <2>5, <2>6, <2>7 DEF IInv
<1>7. CASE NothingToTheRight
  BY <1>7, FailPreserves DEF NothingToTheRight, Outcomes
<1>8. CASE NothingToTheLeft
  BY <1>8, FailPreserves DEF NothingToTheLeft, Outcomes
<1>9. CASE OperatorToTheRight
  BY <1>9, FailPreserves DEF OperatorToTheRight, Outcomes
<1>10. CASE OperatorToTheLeft
  BY <1>10, FailPreserves DEF OperatorToTheLeft, Outcomes
<1>11. CASE Finish
  <2>1. outcome' \in Outcomes
    BY <1>11 DEF Finish, Outcomes
  <2>2. UNCHANGED <<input, epnis, new_epnis, operands, moved, level, i, prev_was_operator>>
    BY <1>11 DEF Finish
  <2>3. TypeOK'
    BY <2>1, <2>2 DEF IInv, TypeOK
  <2>4. Parts'
    BY <2>2, PartsUnchanged DEF IInv, Parts
  <2> QED
    BY <2>3, <2>4 DEF IInv, Parts
<1>12. CASE UNCHANGED vars
  <2>1. TypeOK'
    BY <1>12 DEF vars, IInv, TypeOK
  <2>2. Parts'
    BY <1>12, PartsUnchanged DEF vars, IInv, Parts
  <2> QED
    BY <2>1, <2>2 DEF IInv, Parts
<1> QED
  BY <1>2, <1>3, <1>4, <1>5, <1>6, <1>7, <1>8, <1>9, <1>10, <1>11, <1>12 DEF Next

-----------------------------------------------------------------------------
(* The state of the passes is well typed for expressions of every length.  *)
THEOREM FusionTypeOK == Spec => []TypeOK
<1>1. IInv => TypeOK
  BY DEF IInv
<1> QED
  BY InitInv, StepInv, <1>1, PTL DEF Spec

(* The nodes built by the passes are a forest: no operand is moved twice,  *)
(* so no node gets a null child.                                           *)
THEOREM FusionOwnedOnce == Spec => []OwnedOnce
<1>1. IInv => OwnedOnce
  BY DEF IInv
<1> QED
  BY InitInv, StepInv, <1>1, PTL DEF Spec

(* The list refers to live operands only, to each at most once.            *)
THEOREM FusionListOwns == Spec => []ListOwnsItsOperands
<1>1. IInv => ListOwnsItsOperands
  <2> SUFFICES ASSUME IInv PROVE ListOwnsItsOperands
    OBVIOUS
  <2> DEFINE rest == SubSeq(epnis, i, Len(epnis))
             n == Len(new_epnis)
  <2>1. /\ Len(epnis) \in Nat /\ n \in Nat /\ i \in Nat \ {0}
        /\ epnis \in Seq(EPNI) /\ new_epnis \in Seq(EPNI)
    BY DEF IInv, TypeOK
  <2>2. \A k \in i..Len(epnis) : epnis[k] \in EPNI
    BY <2>1
  <2>3. /\ rest \in Seq(EPNI)
        /\ Len(rest) = IF i <= Len(epnis) THEN Len(epnis) - i + 1 ELSE 0
        /\ \A k \in 1..(Len(epnis) - i + 1) : rest[k] = epnis[i + k - 1]
    BY <2>1, <2>2, SubSeqProperties
  <2> HIDE DEF rest
  <2>4. /\ Len(Left) = n + Len(rest)
        /\ \A j \in 1..Len(Left) : Left[j] = IF j <= n THEN new_epnis[j] ELSE rest[j - n]
    BY <2>1, <2>3 DEF Left, rest
  <2>5. \A j \in 1..Len(Left) :
          \/ j \in 1..n /\ Left[j] = new_epnis[j]
          \/ /\ j > n /\ i + (j - n) - 1 \in i..Len(epnis)
             /\ Left[j] = epnis[i + (j - n) - 1]
    <3> TAKE j \in 1..Len(Left)
    <3>1. CASE j <= n
      BY <2>1, <2>4, <3>1
    <3>2. CASE ~(j <= n)
      <4>1. Left[j] = rest[j - n] /\ j - n \in 1..Len(rest)
        BY <2>1, <2>3, <2>4, <3>2
      <4>2. j - n \in 1..(Len(epnis) - i + 1)
        BY <2>1, <2>3, <4>1
      <4>3. rest[j - n] = epnis[i + (j - n) - 1]
        BY <2>3, <4>2
      <4>4. j > n /\ i + (j - n) - 1 \in i..Len(epnis)
        BY ONLY <2>1, <3>2, <4>2, Len(Left) \in Nat, j \in 1..Len(Left)
      <4> QED
        BY <4>1, <4>3, <4>4
    <3> QED
      BY <3>1, <3>2
  <2>6. \A j \in 1..Len(Left) :
          ~IsOperator(Left[j]) => Left[j].idx \in (1..Len(operands)) \ moved
    BY <2>5 DEF IInv, Owns
  <2>7. ASSUME NEW j \in 1..Len(Left), NEW k \in 1..Len(Left), j # k,
               ~IsOperator(Left[j]), ~IsOperator(Left[k])
        PROVE  Left[j].idx # Left[k].idx
    <3>1. CASE j \in 1..n /\ k \in 1..n
      BY <2>4, <2>7, <3>1 DEF IInv, Unique
    <3>2. CASE j \in 1..n /\ k > n
      <4>1. Left[j] = new_epnis[j]
        BY <2>1, <2>5, <3>2
      <4>2. PICK b \in i..Len(epnis) : Left[k] = epnis[b]
        BY <2>1, <2>5, <3>2
      <4> QED
        BY <2>7, <3>2, <4>1, <4>2 DEF IInv, Apart
    <3>3. CASE j > n /\ k \in 1..n
      <4>1. Left[k] = new_epnis[k]
        BY <2>1, <2>5, <3>3
      <4>2. PICK a \in i..Len(epnis) : Left[j] = epnis[a]
        BY <2>1, <2>5, <3>3
      <4> QED
        BY <2>7, <3>3, <4>1, <4>2 DEF IInv, Apart
    <3>4. CASE j > n /\ k > n
      <4> DEFINE a == i + (j - n) - 1
                 b == i + (k - n) - 1
      <4>1. a # b
        BY <2>1, <2>7
      <4>2. /\ a \in i..Len(epnis) /\ Left[j] = epnis[a]
            /\ b \in i..Len(epnis) /\ Left[k] = epnis[b]
        BY <2>1, <2>5, <3>4
      <4> HIDE DEF a, b
      <4> QED
        BY <2>7, <4>1, <4>2 DEF IInv, Unique
    <3>5. (j \in 1..n \/ j > n) /\ (k \in 1..n \/ k > n)
      BY <2>1, <2>4, <2>3
    <3> QED
      BY <3>1, <3>2, <3>3, <3>4, <3>5
  <2> QED
    BY <2>6, <2>7 DEF ListOwnsItsOperands
<1> QED
  BY InitInv, StepInv, <1>1, PTL DEF Spec

-----------------------------------------------------------------------------
(* Lists in which operators and operands take turns, none of which is a    *)
(* minus, with an operator at an end, or nothing at all.                   *)
TakesTurns(s) ==
  /\ \A k \in 1..Len(s) : s[k].op # "-"
  /\ \A k \in 1..(Len(s) - 1) : IsOperator(s[k]) <=> ~IsOperator(s[k + 1])
Dangles(s) == s = <<>> \/ IsOperator(s[1]) \/ IsOperator(s[Len(s)])

(* Behind the first entry, prev_was_operator is about the entry that has   *)
(* been placed last; there is none if the pass has dropped the first two.  *)
TurnsGoOn ==
  /\ i > 1 /\ i <= Len(epnis) => (prev_was_operator <=> ~IsOperator(epnis[i]))
  /\ i > 1 /\ IsOperator(epnis[1]) => new_epnis = <<>> \/ IsOperator(new_epnis[1])
  /\ i > 1 /\ new_epnis = <<>> => ~prev_was_operator
  /\ i > 1 /\ new_epnis # <<>> =>
       (prev_was_operator <=> IsOperator(new_epnis[Len(new_epnis)]))
  /\ i > 1 /\ i > Len(epnis) /\ new_epnis # <<>> =>
       (prev_was_operator <=> IsOperator(epnis[Len(epnis)]))
  /\ i = 1 => new_epnis = <<>> /\ prev_was_operator
  /\ epnis = <<>> => i = 1

DanglingInput ==
  /\ ~WellFormed
  /\ \A k \in 1..Len(input) : input[k] # "-"
  /\ \A k \in 1..(Len(input) - 1) : IsOperand(k) \/ IsOperand(k + 1)

StillDangles ==
  /\ TakesTurns(epnis) /\ TakesTurns(new_epnis)
  /\ Dangles(epnis) /\ TurnsGoOn

DanglingInv ==
  DanglingInput => outcome # "done" /\ (outcome = "running" => StillDangles)

LEMMA InitDangling ==
  ASSUME Init
  PROVE  DanglingInv
<1> SUFFICES ASSUME DanglingInput PROVE outcome # "done" /\ StillDangles
  BY DEF DanglingInv
<1>1. IInv
  BY InitInv
<1>2. input \in Seq(Op \union {"x"}) /\ Len(input) \in Nat
  BY <1>1 DEF IInv, TypeOK
<1>3. /\ Len(epnis) = Len(input)
      /\ \A k \in 1..Len(input) :
           epnis[k] = IF input[k] = "x" THEN Operand(OperandsBefore(input, k))
                                        ELSE Operator(input[k])
      /\ new_epnis = <<>> /\ i = 1 /\ prev_was_operator = TRUE /\ outcome = "running"
  BY <1>2 DEF Init, Numbered
<1>4. Len(input) >= 2 /\ \A k \in 1..(Len(input) - 1) : ~(input[k] = "x" /\ input[k + 1] = "x")
  BY DEF Init, Shapes
<1>5. \A k \in 1..Len(input) : /\ IsOperator(epnis[k]) <=> ~IsOperand(k)
                               /\ epnis[k].op # "-"
  <2> TAKE k \in 1..Len(input)
  <2>1. input[k] \in Op \union {"x"} /\ input[k] # "-"
    BY <1>2 DEF DanglingInput
  <2>2. input[k] # "none"
    BY <2>1, OpAssumption
  <2>3. CASE input[k] = "x"
    <3>0. epnis[k] = Operand(OperandsBefore(input, k))
      BY <1>3, <2>3
    <3>1. epnis[k].op = "none"
      BY <3>0 DEF Operand
    <3> QED
      BY <2>3, <3>1 DEF IsOperator, IsOperand
  <2>4. CASE input[k] # "x"
    <3>0. epnis[k] = Operator(input[k])
      BY <1>3, <2>4
    <3>1. epnis[k].op = input[k]
      BY <3>0 DEF Operator
    <3> QED
      BY <2>1, <2>2, <2>4, <3>1 DEF IsOperator, IsOperand
  <2> QED
    BY <2>3, <2>4
<1>6. \A k \in 1..(Len(input) - 1) : k \in 1..Len(input) /\ k + 1 \in 1..Len(input)
                                       /\ (IsOperand(k) <=> ~IsOperand(k + 1))
  BY <1>2, <1>4 DEF DanglingInput, IsOperand
<1>7. TakesTurns(epnis)
  BY <1>3, <1>5, <1>6 DEF TakesTurns
<1>8. ~IsOperand(1) \/ ~IsOperand(Len(input))
  <2>1. CASE \E k \in Binary \union Unary : ~(k < Len(input))
    <3>1. PICK k \in 1..Len(input) : ~IsOperand(k) /\ ~(k < Len(input))
      BY <1>2, <2>1 DEF Binary, Unary
    <3>2. k = Len(input)
      BY <1>2, <3>1
    <3> QED
      BY <3>1, <3>2
  <2>2. CASE \E k \in Unary : ~(input[k] = "-" /\ IsOperand(k + 1))
    <3>1. PICK k \in 1..Len(input) : ~IsOperand(k) /\ k \notin Binary
      BY <2>2 DEF Unary
    <3>2. k > 1 => IsOperand(k - 1)
      <4> HAVE k > 1
      <4>1. k - 1 \in 1..(Len(input) - 1) /\ (k - 1) + 1 = k
        BY <1>2, <3>1
      <4> QED
        BY <1>6, <3>1, <4>1
    <3>3. ~(k > 1)
      BY <1>2, <3>1, <3>2 DEF Binary
    <3>4. k = 1
      BY <1>2, <3>3
    <3> QED
      BY <3>1, <3>4
  <2> QED
    BY <2>1, <2>2 DEF DanglingInput, WellFormed
<1>9. Dangles(epnis)
  <2>1. 1 \in 1..Len(input) /\ Len(input) \in 1..Len(input)
    BY <1>2, <1>4
  <2> QED
    BY <1>3, <1>5, <1>8, <2>1 DEF Dangles
<1>10. TakesTurns(new_epnis)
  BY <1>3 DEF TakesTurns
<1>11. epnis # <<>>
  BY <1>3, <1>4
<1>12. TurnsGoOn
  BY <1>3, <1>11 DEF TurnsGoOn
<1> QED
  BY <1>3, <1>7, <1>9, <1>10, <1>12 DEF StillDangles

LEMMA KeepDangles ==
  ASSUME IInv, StillDangles, Keep
  PROVE  StillDangles'
<1>1. /\ Len(epnis) \in Nat /\ Len(new_epnis) \in Nat /\ i \in Nat \ {0}
      /\ epnis \in Seq(EPNI) /\ new_epnis \in Seq(EPNI)
  BY DEF IInv, TypeOK
<1>2. /\ i <= Len(epnis) /\ i' = i + 1 /\ epnis' = epnis
      /\ new_epnis' = Append(new_epnis, epnis[i])
      /\ prev_was_operator' = IsOperator(epnis[i])
  BY DEF Keep, InPass, Cur
<1>3. epnis[i] \in EPNI
  BY <1>1, <1>2
<1> DEFINE n == Len(new_epnis)
<1>4. /\ n \in Nat /\ Len(new_epnis') = n + 1 /\ new_epnis'[n + 1] = epnis[i]
      /\ \A k \in 1..n : new_epnis'[k] = new_epnis[k]
  BY <1>1, <1>2, <1>3
<1>5. new_epnis' # <<>>
  BY <1>1, <1>2, <1>3
<1>6. epnis # <<>>
  BY <1>1, <1>2
<1>7. n > 0 => i > 1 /\ (IsOperator(new_epnis[n]) <=> ~IsOperator(epnis[i]))
  <2>1. n > 0 => new_epnis # <<>>
    OBVIOUS
  <2>2. n > 0 => i > 1
    BY <1>1, <2>1 DEF StillDangles, TurnsGoOn
  <2> QED
    BY <1>2, <2>1, <2>2 DEF StillDangles, TurnsGoOn
<1>8. n = 0 => new_epnis = <<>>
  BY <1>1
<1> HIDE DEF n
<1>9. TakesTurns(new_epnis)'
  <2>1. \A k \in 1..(n + 1) : new_epnis'[k].op # "-"
    <3> TAKE k \in 1..(n + 1)
    <3>1. CASE k = n + 1
      BY <1>1, <1>2, <1>4, <3>1 DEF StillDangles, TakesTurns
    <3>2. CASE k # n + 1
      <4>1. k \in 1..n
        BY <1>4, <3>2
      <4> QED
        BY <1>4, <4>1 DEF StillDangles, TakesTurns, n
    <3> QED
      BY <3>1, <3>2
  <2>2. \A k \in 1..n : IsOperator(new_epnis'[k]) <=> ~IsOperator(new_epnis'[k + 1])
    <3> TAKE k \in 1..n
    <3>1. CASE k = n
      BY <1>4, <1>7, <3>1
    <3>2. CASE k # n
      <4>1. k \in 1..(n - 1) /\ k + 1 \in 1..n
        BY <1>4, <3>2
      <4> QED
        BY <1>4, <4>1 DEF StillDangles, TakesTurns, n
    <3> QED
      BY <3>1, <3>2
  <2>3. (n + 1) - 1 = n
    BY <1>4
  <2>4. \A k \in 1..(Len(new_epnis') - 1) : k \in 1..n
    BY <1>4, <2>3
  <2>5. \A k \in 1..Len(new_epnis') : k \in 1..(n + 1)
    BY <1>4
  <2> QED
    BY <2>1, <2>2, <2>4, <2>5 DEF TakesTurns, IsOperator
<1>10. TurnsGoOn'
  <2>1. i' > 1 /\ i' # 1
    BY <1>1, <1>2
  <2>2. i' <= Len(epnis') => (prev_was_operator' <=> ~IsOperator(epnis'[i']))
    <3> HAVE i' <= Len(epnis')
    <3>1. i \in 1..(Len(epnis) - 1)
      BY <1>1, <1>2
    <3> QED
      BY <1>2, <3>1 DEF StillDangles, TakesTurns
  <2>3. IsOperator(epnis'[1]) => IsOperator(new_epnis'[1])
    <3> HAVE IsOperator(epnis'[1])
    <3>1. CASE n = 0
      <4>1. i = 1 \/ epnis[i].op # "none"
        BY <1>1, <1>2, <1>8, <3>1 DEF StillDangles, TurnsGoOn, IsOperator
      <4> QED
        BY <1>2, <1>4, <3>1, <4>1 DEF IsOperator
    <3>2. CASE n > 0
      <4>1. new_epnis # <<>>
        BY <3>2 DEF n
      <4>2. IsOperator(new_epnis[1])
        BY <1>2, <1>7, <3>2, <4>1 DEF StillDangles, TurnsGoOn
      <4>3. 1 \in 1..n
        BY <1>4, <3>2
      <4> QED
        BY <1>4, <4>2, <4>3
    <3> QED
      BY <1>4, <3>1, <3>2
  <2>4. prev_was_operator' <=> IsOperator(new_epnis'[Len(new_epnis')])
    BY <1>2, <1>4
  <2>5. i' > Len(epnis') => (prev_was_operator' <=> IsOperator(epnis'[Len(epnis')]))
    <3> HAVE i' > Len(epnis')
    <3>1. i = Len(epnis)
      BY <1>1, <1>2
    <3> QED
      BY <1>2, <3>1
  <2>6. epnis' # <<>>
    BY <1>2, <1>6
  <2> QED
    BY <1>5, <2>1, <2>2, <2>3, <2>4, <2>5, <2>6 DEF TurnsGoOn, IsOperator
<1>11. TakesTurns(epnis)' /\ Dangles(epnis)'
  BY <1>2 DEF StillDangles, TakesTurns, Dangles
<1> QED
  BY <1>9, <1>10, <1>11 DEF StillDangles

LEMMA FuseBinaryDangles ==
  ASSUME IInv, StillDangles, FuseBinary
  PROVE  StillDangles'
<1> DEFINE n == Len(new_epnis)
           e == Operand(Len(operands) + 1)
<1>1. /\ Len(epnis) \in Nat /\ n \in Nat /\ i \in Nat \ {0}
      /\ epnis \in Seq(EPNI) /\ new_epnis \in Seq(EPNI) /\ Len(operands) \in Nat
  BY DEF IInv, TypeOK
<1>2. /\ i < Len(epnis) /\ i' = i + 2 /\ epnis' = epnis /\ new_epnis # <<>>
      /\ ~IsOperator(epnis[i + 1]) /\ ~IsOperator(Last(new_epnis))
      /\ new_epnis' = [new_epnis EXCEPT ![n] = e]
      /\ prev_was_operator' = FALSE
  BY DEF FuseBinary, NextIsOperand, HasNext
<1>3. e \in EPNI /\ ~IsOperator(e) /\ e.op # "-"
  BY <1>1 DEF Operand, EPNI, IsOperator
<1> HIDE DEF e
<1>4. n \in 1..n /\ Last(new_epnis) = new_epnis[n] /\ i > 1
  BY <1>1, <1>2 DEF Last, StillDangles, TurnsGoOn
<1>5. /\ Len(new_epnis') = n /\ new_epnis'[n] = e
      /\ \A k \in 1..n : k # n => new_epnis'[k] = new_epnis[k]
  BY <1>1, <1>2, <1>3, <1>4
<1>6. new_epnis' # <<>>
  BY <1>4, <1>5
<1> HIDE DEF n
<1>7. \A k \in 1..n : /\ IsOperator(new_epnis'[k]) <=> IsOperator(new_epnis[k])
                      /\ new_epnis'[k].op # "-"
  <2> TAKE k \in 1..n
  <2>1. CASE k = n
    BY <1>2, <1>3, <1>4, <1>5, <2>1
  <2>2. CASE k # n
    BY <1>5, <2>2 DEF StillDangles, TakesTurns, n
  <2> QED
    BY <2>1, <2>2
<1>8. TakesTurns(new_epnis)'
  <2>1. \A k \in 1..(n - 1) : k \in 1..n /\ k + 1 \in 1..n
    BY <1>1 DEF n
  <2>2. \A k \in 1..(n - 1) : IsOperator(new_epnis'[k]) <=> ~IsOperator(new_epnis'[k + 1])
    BY <1>7, <2>1 DEF StillDangles, TakesTurns, n
  <2> QED
    BY <1>5, <1>7, <2>2 DEF TakesTurns, IsOperator
<1>9. TurnsGoOn'
  <2>1. i' > 1 /\ i' # 1
    BY <1>1, <1>2
  <2>2. i' <= Len(epnis') => (prev_was_operator' <=> ~IsOperator(epnis'[i']))
    <3> HAVE i' <= Len(epnis')
    <3>1. i + 1 \in 1..(Len(epnis) - 1) /\ (i + 1) + 1 = i + 2
      BY <1>1, <1>2
    <3>2. IsOperator(epnis[i + 2])
      BY <1>2, <3>1 DEF StillDangles, TakesTurns
    <3> QED
      BY <1>2, <3>2
  <2>3. IsOperator(epnis'[1]) => IsOperator(new_epnis'[1])
    <3>1. 1 \in 1..n
      BY <1>4
    <3> QED
      BY <1>2, <1>4, <1>7, <3>1 DEF StillDangles, TurnsGoOn
  <2>4. prev_was_operator' <=> IsOperator(new_epnis'[Len(new_epnis')])
    BY <1>2, <1>3, <1>5
  <2>5. i' > Len(epnis') => (prev_was_operator' <=> IsOperator(epnis'[Len(epnis')]))
    <3> HAVE i' > Len(epnis')
    <3>1. i + 1 = Len(epnis)
      BY <1>1, <1>2
    <3> QED
      BY <1>2, <3>1
  <2>6. epnis' # <<>>
    BY <1>1, <1>2
  <2> QED
    BY <1>6, <2>1, <2>2, <2>3, <2>4, <2>5, <2>6 DEF TurnsGoOn, IsOperator
<1>10. TakesTurns(epnis)' /\ Dangles(epnis)'
  BY <1>2 DEF StillDangles, TakesTurns, Dangles
<1> QED
  BY <1>8, <1>9, <1>10 DEF StillDangles

(* Only an operator at the beginning is dropped, with its operand.         *)
LEMMA DropDangles ==
  ASSUME IInv, StillDangles, Drop
  PROVE  StillDangles'
<1>1. Len(epnis) \in Nat /\ i \in Nat \ {0} /\ epnis \in Seq(EPNI)
  BY DEF IInv, TypeOK
<1>2. /\ i <= Len(epnis) /\ i' = i + 2 /\ UNCHANGED <<epnis, new_epnis>>
      /\ prev_was_operator' = FALSE /\ level \in 1..3 /\ Cur.op \in Ops[level]
      /\ prev_was_operator \/ Cur.op \notin Binops[level]
  BY DEF Drop, Handled, InPass, Running, Levels, AsBinary
<1>3. epnis[i].op # "-" /\ Cur = epnis[i]
  BY <1>1, <1>2 DEF StillDangles, TakesTurns, Cur
<1>4. Cur.op \in Binops[level] /\ IsOperator(epnis[i])
  <2>1. CASE level = 1
    BY <1>2, <1>3, <2>1 DEF Ops
  <2>2. CASE level = 2
    BY <1>2, <1>3, <2>2 DEF Ops, Binops, IsOperator
  <2>3. CASE level = 3
    BY <1>2, <1>3, <2>3 DEF Ops, Binops, IsOperator
  <2> QED
    BY <1>2, <2>1, <2>2, <2>3
<1>5. i = 1 /\ new_epnis = <<>>
  BY <1>1, <1>2, <1>4 DEF StillDangles, TurnsGoOn
<1>6. 3 <= Len(epnis) => IsOperator(epnis[3])
  <2> HAVE 3 <= Len(epnis)
  <2>1. 1 \in 1..(Len(epnis) - 1) /\ 2 \in 1..(Len(epnis) - 1)
    BY <1>1
  <2> QED
    BY <1>4, <1>5, <2>1 DEF StillDangles, TakesTurns
<1>7. epnis # <<>>
  BY <1>1, <1>2
<1>8. TurnsGoOn'
  BY <1>1, <1>2, <1>5, <1>6, <1>7 DEF TurnsGoOn, IsOperator
<1>9. TakesTurns(epnis)' /\ Dangles(epnis)' /\ TakesTurns(new_epnis)'
  BY <1>2 DEF StillDangles, TakesTurns, Dangles
<1> QED
  BY <1>8, <1>9 DEF StillDangles

LEMMA NextPassDangles ==
  ASSUME IInv, StillDangles, NextPass
  PROVE  StillDangles'
<1>1. Len(epnis) \in Nat /\ Len(new_epnis) \in Nat /\ i \in Nat \ {0}
        /\ new_epnis \in Seq(EPNI) /\ prev_was_operator \in BOOLEAN
  BY DEF IInv, TypeOK
<1>2. /\ i > Len(epnis) /\ epnis' = new_epnis /\ new_epnis' = <<>>
      /\ i' = 1 /\ prev_was_operator' = TRUE
  BY DEF NextPass
<1>3. Dangles(new_epnis)
  <2> SUFFICES ASSUME new_epnis # <<>>
               PROVE  IsOperator(new_epnis[1]) \/ IsOperator(new_epnis[Len(new_epnis)])
    BY DEF Dangles
  <2>1. i > 1
    BY <1>1 DEF StillDangles, TurnsGoOn
  <2>2. epnis # <<>>
    BY <2>1 DEF StillDangles, TurnsGoOn
  <2> QED
    BY <1>2, <2>1, <2>2 DEF StillDangles, TurnsGoOn, Dangles
<1>4. TakesTurns(epnis)' /\ Dangles(epnis)' /\ TakesTurns(new_epnis)'
  BY <1>2, <1>3 DEF StillDangles, TakesTurns, Dangles
<1>5. TurnsGoOn'
  BY <1>2 DEF TurnsGoOn
<1> QED
  BY <1>4, <1>5 DEF StillDangles

LEMMA StepDangling == IInv /\ DanglingInv /\ [Next]_vars => DanglingInv'
<1> SUFFICES ASSUME IInv, DanglingInv, [Next]_vars, DanglingInput'
             PROVE  outcome' # "done" /\ (outcome' = "running" => StillDangles')
  BY DEF DanglingInv
<1>1. input' = input
  BY DEF Next, vars, Keep, FuseUnary, FuseBinary, Drop, Fail, NothingToTheRight,
         NothingToTheLeft, OperatorToTheRight, OperatorToTheLeft, NextPass, Finish
<1>2. outcome # "done" /\ (outcome = "running" => StillDangles)
  BY <1>1 DEF DanglingInv, DanglingInput, WellFormed, Binary, Unary, IsOperand
<1>3. CASE Keep
  <2>1. outcome = "running" /\ outcome' = outcome
    BY <1>3 DEF Keep, InPass, Running
  <2> QED
    BY <1>2, <1>3, <2>1, KeepDangles
<1>4. CASE FuseBinary
  <2>1. outcome = "running" /\ outcome' = outcome
    BY <1>4 DEF FuseBinary, AsBinary, Handled, InPass, Running
  <2> QED
    BY <1>2, <1>4, <2>1, FuseBinaryDangles
<1>5. CASE Drop
  <2>1. outcome = "running" /\ outcome' = outcome
    BY <1>5 DEF Drop, Handled, InPass, Running
  <2> QED
    BY <1>2, <1>5, <2>1, DropDangles
<1>6. CASE NextPass
  <2>1. outcome = "running" /\ outcome' = outcome
    BY <1>6 DEF NextPass, Running
  <2> QED
    BY <1>2, <1>6, <2>1, NextPassDangles
<1>7. CASE FuseUnary
  <2>1. /\ outcome = "running" /\ level \in 1..3 /\ i <= Len(epnis)
        /\ epnis[i].op \in Unops[level]
    BY <1>7 DEF FuseUnary, AsUnary, Handled, InPass, Running, Levels, Cur
  <2>2. epnis[i].op = "-"
    BY <2>1 DEF Unops
  <2>3. i \in 1..Len(epnis)
    BY <2>1 DEF IInv, TypeOK
  <2> QED
    BY <1>2, <2>1, <2>2, <2>3 DEF StillDangles, TakesTurns
<1>8. CASE NothingToTheRight \/ NothingToTheLeft \/ OperatorToTheRight \/ OperatorToTheLeft
  BY <1>8 DEF NothingToTheRight, NothingToTheLeft, OperatorToTheRight, OperatorToTheLeft, Fail
<1>9. CASE Finish
  <2>1. outcome = "running" /\ outcome' # "running"
    BY <1>9 DEF Finish
  <2>2. ASSUME Len(epnis) = 1 PROVE IsOperator(epnis[1])
    <3>1. epnis # <<>>
      BY <2>2
    <3> QED
      BY <1>2, <2>1, <2>2, <3>1 DEF StillDangles, Dangles
  <2>3. outcome' # "done"
    BY <1>9, <2>2 DEF Finish
  <2> QED
    BY <2>1, <2>3
<1>10. CASE UNCHANGED vars
  <2>1. UNCHANGED <<epnis, new_epnis, i, prev_was_operator, outcome>>
    BY <1>10 DEF vars
  <2> QED
    BY <1>2, <2>1 DEF StillDangles, TakesTurns, Dangles, TurnsGoOn, IsOperator
<1> QED
  BY <1>3, <1>4, <1>5, <1>6, <1>7, <1>8, <1>9, <1>10 DEF Next

(* An expression that begins or ends with an operator is not fused to a    *)
(* tree in silence, however long it is: if operators and operands take     *)
(* turns in it, it is refused, or ends the program.                        *)
THEOREM DanglingIsRefused == Spec => []DanglingIsNotFused
<1>1. DanglingInv => DanglingIsNotFused
  BY DEF DanglingInv, DanglingInput, DanglingIsNotFused
<1>2. Init => IInv /\ DanglingInv
  BY InitInv, InitDangling
<1>3. (IInv /\ DanglingInv) /\ [Next]_vars => (IInv /\ DanglingInv)'
  BY StepInv, StepDangling
<1> QED
  BY <1>1, <1>2, <1>3, PTL DEF Spec
=============================================================================
