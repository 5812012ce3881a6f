--------------------------- MODULE ExprScanProofs ---------------------------
(***************************************************************************)
(* For token lists of every length over every set of types, the loop of    *)
(* parser::parseExpression ends where the closed form says, with the same  *)
(* operands, and never strips a parenthesis that is not there.             *)
(***************************************************************************)
EXTENDS ExprScan, FunctionTheorems, SequenceTheorems, FiniteSetTheorems, TLAPS

End     == Len(tokens) + 1
D(p)    == Depth(tokens, 1, p)
Tops    == TopOperators(tokens, 1, at)
Starts  == FirstTokens(tokens, 1, at)
Done    == {p \in Starts : p < operand_start}

(* s lists the numbers of S from the smallest to the greatest.             *)
Lists(s, S) ==
  /\ \A i, j \in 1..Len(s) : i < j => s[i] < s[j]
  /\ S = {s[i] : i \in 1..Len(s)}

Ranges == [from : Nat, to : Nat]

Types ==
  /\ tokens \in Seq(TokenType)
  /\ parse_states \in Seq(Ranges)
  /\ epnis \in Seq(Operators \union {"x"})

(* The parentheses on the stack are the ones that are open.                *)
StackIsOpen ==
  /\ D(at) = Len(paren_stack)
  /\ \A k \in 1..Len(paren_stack) : \E q \in 1..(at - 1) :
       /\ D(q) = k - 1 /\ tokens[q] = paren_stack[k]
       /\ \A r \in (q + 1)..(at - 1) : D(r) >= k

NotEndedBefore ==
  \A p \in 1..(at - 1) : ~Stops(tokens, 1, p) /\ ~Mismatched(tokens, 1, p)

(* What entirely_wrapped_in_parens says of the tokens that are consumed.   *)
OnlyParens == \A p \in 1..(at - 1) : D(p) = 0 => tokens[p] = "("

OperandsCut ==
  /\ operand_start = 1 \/ operand_start - 1 \in Tops
  /\ \A p \in Tops : p < operand_start
  /\ Lists([k \in DOMAIN parse_states |-> parse_states[k].from], Done)
  /\ \A k \in DOMAIN parse_states :
       LET r == parse_states[k] IN
       r.from < r.to /\ r.to \in Tops /\ \A p \in Tops : ~(r.from <= p /\ p < r.to)

ShapeListed ==
  LET places == InOrder(Tops \union Done) IN
  /\ Lists(places, Tops \union Done)
  /\ epnis = [k \in 1..Len(places) |->
                IF places[k] \in Tops THEN tokens[places[k]] ELSE "x"]

Walking ==
  /\ StackIsOpen
  /\ NotEndedBefore
  /\ OperandsCut
  /\ ShapeListed
  /\ last_ty = IF at = 1 THEN "invalid" ELSE tokens[at - 1]
  /\ entirely_wrapped_in_parens => OnlyParens
  /\ entirely_wrapped_in_parens /\ Top /\ at > 1 => tokens[at - 1] = ")"

(* The loop goes on, or has been left at the right place.                  *)
GoesOn ==
  /\ last_was_operator <=> operand_start = at
  /\ OnlyParens => entirely_wrapped_in_parens

HasEnded ==
  /\ at < End => Stops(tokens, 1, at)
  /\ at < End /\ tokens[at] \in Puncts \ Closers => operand_start < at
  /\ entirely_wrapped_in_parens <=> WrappedInParens(tokens, 1, End, at)

IInv ==
  /\ TypeOK /\ Types
  /\ outcome \in {"scanning", "end"} => Walking
  /\ outcome = "scanning" => GoesOn
  /\ outcome = "end" => HasEnded
  /\ WrappedCanBeStripped
  /\ MatchesScanResult
-----------------------------------------------------------------------------
(* An ascending list of k - 1 numbers has k - 1 members.                   *)
LEMMA CountListed ==
  ASSUME NEW s \in Seq(Int), NEW n \in 0..Len(s),
         \A i, j \in 1..Len(s) : i < j => s[i] < s[j]
  PROVE  /\ IsFiniteSet({s[i] : i \in 1..n})
         /\ Cardinality({s[i] : i \in 1..n}) = n
<1> DEFINE T == {s[i] : i \in 1..n}
           f == [i \in 1..n |-> s[i]]
<1>1. n \in Nat /\ 1..n \subseteq 1..Len(s) /\ \A i \in 1..Len(s) : s[i] \in Int
  BY ElementOfSeq
<1>2. f \in [1..n -> T]
  OBVIOUS
<1>3. \A i, j \in 1..n : f[i] = f[j] => i = j
  BY <1>1
<1>4. \A x \in T : \E i \in 1..n : f[i] = x
  OBVIOUS
<1> HIDE DEF f, T
<1>5. f \in Bijection(1..n, T)
  BY <1>2, <1>3, <1>4, Fun_IsBij
<1>6. ExistsBijection(1..n, T)
  BY <1>5, Fun_ExistsBij
<1>7. IsFiniteSet(T) /\ Cardinality(T) = n
  BY <1>1, <1>6, FS_NatBijection, FS_CountingElements
<1> QED
  BY <1>7 DEF T

(* A set of numbers has one list in ascending order.                       *)
LEMMA ListedInOrder ==
  ASSUME NEW s \in Seq(Int), NEW S, Lists(s, S)
  PROVE  InOrder(S) = s /\ Cardinality(S) = Len(s)
<1>1. /\ Len(s) \in Nat /\ s \in [1..Len(s) -> Int]
      /\ \A i, j \in 1..Len(s) : i < j => s[i] < s[j]
      /\ S = {s[i] : i \in 1..Len(s)}
  BY LenProperties DEF Lists
<1>2. Cardinality(S) = Len(s)
  <2>1. Len(s) \in 0..Len(s)
    BY <1>1
  <2> QED
    BY <1>1, <2>1, CountListed
<1>3. ASSUME NEW k \in 1..Len(s)
      PROVE  Cardinality({q \in S : q < s[k]}) = k - 1
  <2>1. {q \in S : q < s[k]} = {s[i] : i \in 1..(k - 1)}
    BY <1>1
  <2>2. k - 1 \in 0..Len(s)
    BY <1>1
  <2> QED
    BY <1>1, <2>1, <2>2, CountListed
<1>4. ASSUME NEW k \in 1..Len(s)
      PROVE  (CHOOSE p \in S : Cardinality({q \in S : q < p}) = k - 1) = s[k]
  <2>1. s[k] \in S /\ Cardinality({q \in S : q < s[k]}) = k - 1
    BY <1>1, <1>3
  <2>2. ASSUME NEW p \in S, Cardinality({q \in S : q < p}) = k - 1
        PROVE  p = s[k]
    <3>1. PICK j \in 1..Len(s) : p = s[j]
      BY <1>1
    <3>2. j - 1 = k - 1
      BY <1>3, <2>2, <3>1
    <3> QED
      BY <1>1, <3>1, <3>2
  <2> QED
    BY <2>1, <2>2
<1>5. InOrder(S) = [k \in 1..Len(s) |-> s[k]]
  BY <1>2, <1>4 DEF InOrder
<1> QED
  BY <1>1, <1>2, <1>5

(* The list of a set grows at its end with a number above all of them.     *)
LEMMA ListedAppend ==
  ASSUME NEW s \in Seq(Int), NEW S, Lists(s, S),
         NEW m \in Int, \A p \in S : p < m
  PROVE  Append(s, m) \in Seq(Int) /\ Lists(Append(s, m), S \union {m})
<1> DEFINE u == Append(s, m)
<1>1. /\ u \in Seq(Int) /\ Len(u) = Len(s) + 1 /\ Len(s) \in Nat
      /\ \A i \in 1..Len(s) : u[i] = s[i]
      /\ u[Len(s) + 1] = m
  BY AppendProperties
<1>2. /\ \A i, j \in 1..Len(s) : i < j => s[i] < s[j]
      /\ S = {s[i] : i \in 1..Len(s)}
  BY DEF Lists
<1> HIDE DEF u
<1>3. ASSUME NEW i \in 1..Len(u), NEW j \in 1..Len(u), i < j
      PROVE  u[i] < u[j]
  <2>1. i \in 1..Len(s) /\ u[i] = s[i] /\ s[i] \in S
    BY <1>1, <1>2, <1>3, SMTT(30)
  <2>2. CASE j = Len(s) + 1
    BY <1>1, <2>1, <2>2
  <2>3. CASE j # Len(s) + 1
    <3>1. j \in 1..Len(s) /\ u[j] = s[j]
      BY <1>1, <2>3
    <3> QED
      BY <1>2, <1>3, <2>1, <3>1
  <2> QED
    BY <2>2, <2>3
<1>4. S \union {m} = {u[i] : i \in 1..Len(u)}
  BY <1>1, <1>2
<1>5. u \in Seq(Int) /\ Lists(u, S \union {m})
  BY <1>1, <1>3, <1>4 DEF Lists
<1> QED
  BY <1>5 DEF u

LEMMA FrontProperties ==
  ASSUME NEW S, NEW s \in Seq(S), Len(s) > 0
  PROVE  /\ Front(s) \in Seq(S) /\ Len(Front(s)) = Len(s) - 1
         /\ \A k \in 1..(Len(s) - 1) : Front(s)[k] = s[k]
<1> DEFINE n == Len(s) - 1
<1>1. n \in Nat /\ \A k \in 1..n : s[k] \in S
  BY ElementOfSeq
<1> HIDE DEF n
<1> DEFINE r == SubSeq(s, 1, n)
<1>2. /\ r \in Seq(S)
      /\ Len(r) = IF 1 <= n THEN n - 1 + 1 ELSE 0
      /\ \A k \in 1..(n - 1 + 1) : r[k] = s[1 + k - 1]
  BY <1>1, SubSeqProperties
<1> HIDE DEF r
<1>3. Len(r) = n
  BY <1>1, <1>2
<1>4. ASSUME NEW k \in 1..n
      PROVE  r[k] = s[k]
  <2>1. k \in 1..(n - 1 + 1) /\ 1 + k - 1 = k
    BY <1>1
  <2> QED
    BY <1>2, <2>1
<1> QED
  BY <1>2, <1>3, <1>4 DEF Front, n, r

LEMMA SeqFacts ==
  ASSUME NEW S, NEW s \in Seq(S)
  PROVE  /\ Len(s) \in Nat /\ DOMAIN s = 1..Len(s)
         /\ \A k \in 1..Len(s) : s[k] \in S
  BY ElementOfSeq, LenProperties

LEMMA AppendFacts ==
  ASSUME NEW S, NEW s \in Seq(S), NEW e \in S
  PROVE  /\ Append(s, e) \in Seq(S) /\ Len(Append(s, e)) = Len(s) + 1
         /\ DOMAIN Append(s, e) = 1..(Len(s) + 1)
         /\ \A k \in 1..Len(s) : Append(s, e)[k] = s[k]
         /\ Append(s, e)[Len(s) + 1] = e
  BY AppendProperties, LenProperties

LEMMA AppendTwo ==
  ASSUME NEW S, NEW s \in Seq(S), NEW a \in S, NEW b \in S
  PROVE  s \o <<a, b>> = Append(Append(s, a), b) /\ s \o <<a, b>> \in Seq(S)
  OBVIOUS

(* How a token changes the height of the stack.                            *)
Rise(x) == IF x \in Openers THEN 1 ELSE IF x \in Closers THEN -1 ELSE 0

LEMMA CountStep ==
  ASSUME NEW t, NEW S, NEW p \in Nat \ {0}
  PROVE  LET before == {q \in 1..(p - 1) : t[q] \in S}
             upto   == {q \in 1..p : t[q] \in S}
         IN  /\ Cardinality(before) \in Nat
             /\ Cardinality(upto) = Cardinality(before) + (IF t[p] \in S THEN 1 ELSE 0)
<1> DEFINE before == {q \in 1..(p - 1) : t[q] \in S}
           upto   == {q \in 1..p : t[q] \in S}
<1>1. IsFiniteSet(1..(p - 1))
  BY FS_Interval
<1>2. IsFiniteSet(before)
  BY <1>1, FS_Subset
<1>3. Cardinality(before) \in Nat
  BY <1>2, FS_CardinalityType
<1>4. upto = IF t[p] \in S THEN before \union {p} ELSE before
  OBVIOUS
<1>5. p \notin before
  OBVIOUS
<1> HIDE DEF before, upto
<1>6. Cardinality(before \union {p}) = Cardinality(before) + 1
  BY <1>2, <1>5, FS_AddElement
<1>7. Cardinality(upto) = Cardinality(before) + (IF t[p] \in S THEN 1 ELSE 0)
  BY <1>3, <1>4, <1>6
<1> QED
  BY <1>3, <1>7 DEF before, upto

LEMMA DepthStep ==
  ASSUME NEW t, NEW p \in Nat \ {0}
  PROVE  /\ Depth(t, 1, 1) = 0 /\ Depth(t, 1, p) \in Int
         /\ Depth(t, 1, p + 1) = Depth(t, 1, p) + Rise(t[p])
<1>1. ASSUME NEW S
      PROVE  Cardinality({q \in 1..(1 - 1) : t[q] \in S}) = 0
  BY FS_EmptySet
<1>2. Depth(t, 1, 1) = 0
  BY <1>1 DEF Depth
<1>3. (p + 1) - 1 = p
  OBVIOUS
<1>4. /\ Cardinality({q \in 1..(p - 1) : t[q] \in Openers}) \in Nat
      /\ Cardinality({q \in 1..p : t[q] \in Openers}) =
           Cardinality({q \in 1..(p - 1) : t[q] \in Openers}) + (IF t[p] \in Openers THEN 1 ELSE 0)
  BY CountStep
<1>5. /\ Cardinality({q \in 1..(p - 1) : t[q] \in Closers}) \in Nat
      /\ Cardinality({q \in 1..p : t[q] \in Closers}) =
           Cardinality({q \in 1..(p - 1) : t[q] \in Closers}) + (IF t[p] \in Closers THEN 1 ELSE 0)
  BY CountStep
<1>6. ~(t[p] \in Openers /\ t[p] \in Closers)
  BY DEF Openers, Closers
<1> QED
  BY <1>2, <1>3, <1>4, <1>5, <1>6 DEF Depth, Rise
LEMMA MinIs ==
  ASSUME NEW S \in SUBSET Int, NEW m \in S, \A x \in S : m <= x
  PROVE  Min(S) = m
<1>1. ASSUME NEW y \in S, \A x \in S : y <= x
      PROVE  y = m
  <2>1. y \in Int /\ m \in Int /\ y <= m /\ m <= y
    BY <1>1
  <2> QED
    BY <2>1
<1> QED
  BY <1>1 DEF Min

LEMMA MaxIs ==
  ASSUME NEW S \in SUBSET Int, NEW m \in S, \A x \in S : x <= m
  PROVE  Max(S) = m
<1>1. ASSUME NEW y \in S, \A x \in S : y >= x
      PROVE  y = m
  <2>1. y \in Int /\ m \in Int /\ y >= m /\ m >= y
    BY <1>1
  <2> QED
    BY <2>1
<1>2. \A x \in S : m >= x
  OBVIOUS
<1> QED
  BY <1>1, <1>2 DEF Max

-----------------------------------------------------------------------------
(* The two ways in which the closed form ends at the token looked at are   *)
(* the ones in which the loop is left.                                     *)
LEMMA StackTypes ==
  ASSUME TypeOK
  PROVE  /\ Len(paren_stack) \in Nat
         /\ Top <=> Len(paren_stack) = 0
         /\ \A k \in 1..Len(paren_stack) : paren_stack[k] \in Openers
         /\ at \in Nat \ {0} /\ operand_start \in Nat \ {0} /\ operand_start <= at
<1>1. paren_stack \in Seq(Openers)
  BY DEF TypeOK
<1>2. Len(paren_stack) \in Nat /\ (paren_stack = <<>> <=> Len(paren_stack) = 0)
  BY <1>1, EmptySeq
<1>3. \A k \in 1..Len(paren_stack) : paren_stack[k] \in Openers
  BY <1>1, ElementOfSeq
<1>4. at \in Nat \ {0} /\ operand_start \in Nat \ {0} /\ operand_start <= at
  BY DEF TypeOK
<1> QED
  BY <1>2, <1>3, <1>4 DEF Top

LEMMA StopsWhen ==
  ASSUME TypeOK, Types, StackIsOpen,
         last_ty = IF at = 1 THEN "invalid" ELSE tokens[at - 1]
  PROVE  Stops(tokens, 1, at) <=> AfterBlock \/ (Top /\ ty \in Puncts)
<1>1. Depth(tokens, 1, at) = 0 <=> Top
  BY StackTypes DEF StackIsOpen, D
<1>2. BlockEnded(tokens, 1, at) <=> last_ty = "}" /\ ty \notin Continues
  <2>1. at \in Nat \ {0}
    BY StackTypes
  <2>2. CASE at = 1
    <3>1. last_ty # "}" /\ ~(at > 1)
      BY <2>2
    <3> QED
      BY <3>1 DEF BlockEnded
  <2>3. CASE at # 1
    <3>1. last_ty = tokens[at - 1] /\ at > 1
      BY <2>1, <2>3
    <3> QED
      BY <3>1 DEF BlockEnded, ty
  <2> QED
    BY <2>2, <2>3
<1>3. CASE Top
  BY <1>1, <1>2, <1>3, Zenon DEF Stops, AfterBlock, ty
<1>4. CASE ~Top
  BY <1>1, <1>4, Zenon DEF Stops, AfterBlock
<1> QED
  BY <1>3, <1>4

LEMMA MismatchedWhen ==
  ASSUME TypeOK, StackIsOpen
  PROVE  Mismatched(tokens, 1, at) <=>
           ty \in Closers /\ ~Top /\ ~Closes(Last(paren_stack), ty)
<1>1. Depth(tokens, 1, at) = Len(paren_stack)
  BY DEF StackIsOpen, D
<1>2. CASE Top
  <2>1. ~(Depth(tokens, 1, at) > 0)
    BY <1>1, <1>2, StackTypes
  <2> QED
    BY <1>2, <2>1, Zenon DEF Mismatched
<1>3. CASE ~Top
  <2> DEFINE n == Len(paren_stack)
             S == {q \in 1..(at - 1) : Depth(tokens, 1, q) = n - 1}
  <2>1. n \in Nat \ {0} /\ n \in 1..n
    BY <1>3, StackTypes
  <2>2. PICK q \in 1..(at - 1) :
          /\ D(q) = n - 1 /\ tokens[q] = paren_stack[n]
          /\ \A r \in (q + 1)..(at - 1) : D(r) >= n
    BY <2>1 DEF StackIsOpen
  <2>3. S \in SUBSET Int /\ q \in S
    BY <2>2, StackTypes DEF D
  <2>4. \A r \in S : r <= q
    BY <2>1, <2>2, StackTypes DEF D
  <2>5. Max(S) = q
    BY <2>3, <2>4, MaxIs
  <2>6. tokens[Max(S)] = Last(paren_stack) /\ Last(paren_stack) \in Openers
    BY <2>1, <2>2, <2>5, StackTypes DEF Last
  <2>7. Mismatched(tokens, 1, at) <=>
          /\ tokens[at] \in Closers /\ n > 0
          /\ tokens[Max(S)] # (IF tokens[at] = ")" THEN "(" ELSE "{")
    BY <1>1 DEF Mismatched
  <2>8. ASSUME tokens[at] \in Closers
        PROVE  Last(paren_stack) # (IF tokens[at] = ")" THEN "(" ELSE "{") <=>
                 ~Closes(Last(paren_stack), tokens[at])
    BY <2>6, <2>8 DEF Closes, Closers, Openers
  <2>9. n > 0
    BY <2>1
  <2> HIDE DEF n, S
  <2> QED
    BY <1>3, <2>6, <2>7, <2>8, <2>9, Zenon DEF ty
<1> QED
  BY <1>2, <1>3
-----------------------------------------------------------------------------
(* What a token that is consumed leaves true.                              *)
Consumes == at <= Len(tokens) /\ at' = at + 1 /\ UNCHANGED tokens

LEMMA HeightAdvances ==
  ASSUME TypeOK, Consumes, StackIsOpen
  PROVE  D(at)' = Len(paren_stack) + Rise(ty)
<1>1. at \in Nat \ {0} /\ at' = at + 1 /\ tokens' = tokens
  BY StackTypes DEF Consumes
<1>2. Depth(tokens, 1, at + 1) = Depth(tokens, 1, at) + Rise(tokens[at])
  BY <1>1, DepthStep
<1> QED
  BY <1>1, <1>2 DEF D, StackIsOpen, ty

LEMMA StackGrows ==
  ASSUME TypeOK, Consumes, StackIsOpen,
         ty \in Openers, paren_stack' = Append(paren_stack, ty)
  PROVE  StackIsOpen'
<1>1. /\ at \in Nat \ {0} /\ at' = at + 1 /\ tokens' = tokens
      /\ Len(paren_stack) \in Nat /\ paren_stack \in Seq(Openers)
  BY StackTypes DEF Consumes, TypeOK
<1>2. /\ Len(paren_stack') = Len(paren_stack) + 1
      /\ \A k \in 1..Len(paren_stack) : paren_stack'[k] = paren_stack[k]
      /\ paren_stack'[Len(paren_stack) + 1] = tokens[at]
  BY <1>1, AppendProperties DEF ty
<1>3. D(at)' = Len(paren_stack')
  BY <1>1, <1>2, HeightAdvances DEF Rise
<1>4. Depth(tokens, 1, at) = Len(paren_stack)
  BY DEF StackIsOpen, D
<1>5. ASSUME NEW k \in 1..Len(paren_stack')
      PROVE  \E q \in 1..at :
               /\ Depth(tokens, 1, q) = k - 1 /\ tokens[q] = paren_stack'[k]
               /\ \A r \in (q + 1)..at : Depth(tokens, 1, r) >= k
  <2>1. CASE k = Len(paren_stack) + 1
    <3>1. at \in 1..at /\ Depth(tokens, 1, at) = k - 1 /\ tokens[at] = paren_stack'[k]
      BY <1>1, <1>2, <1>4, <2>1
    <3>2. \A r \in (at + 1)..at : FALSE
      BY <1>1
    <3> QED
      BY <3>1, <3>2
  <2>2. CASE k # Len(paren_stack) + 1
    <3>1. k \in 1..Len(paren_stack)
      BY <1>1, <1>2, <2>2
    <3>2. PICK q \in 1..(at - 1) :
            /\ Depth(tokens, 1, q) = k - 1 /\ tokens[q] = paren_stack[k]
            /\ \A r \in (q + 1)..(at - 1) : Depth(tokens, 1, r) >= k
      BY <3>1 DEF StackIsOpen, D
    <3>3. \A r \in (q + 1)..at : Depth(tokens, 1, r) >= k
      BY <1>1, <1>4, <3>1, <3>2
    <3> QED
      BY <1>1, <1>2, <3>1, <3>2, <3>3
  <2> QED
    BY <2>1, <2>2
<1> QED
  BY <1>1, <1>3, <1>5 DEF StackIsOpen, D

LEMMA StackShrinks ==
  ASSUME TypeOK, Consumes, StackIsOpen,
         \/ ty \in Closers /\ ~Top /\ paren_stack' = Front(paren_stack)
         \/ ty \notin Openers \union Closers /\ paren_stack' = paren_stack
  PROVE  StackIsOpen' /\ paren_stack' \in Seq(Openers) /\ Len(paren_stack') \in Nat
<1>1. /\ at \in Nat \ {0} /\ at' = at + 1 /\ tokens' = tokens
      /\ Len(paren_stack) \in Nat /\ paren_stack \in Seq(Openers)
      /\ Top <=> Len(paren_stack) = 0
  BY StackTypes DEF Consumes, TypeOK
<1>2. /\ paren_stack' \in Seq(Openers)
      /\ Len(paren_stack') = Len(paren_stack) + Rise(ty)
      /\ \A k \in 1..Len(paren_stack') : paren_stack'[k] = paren_stack[k]
  <2>1. CASE ty \in Closers /\ ~Top /\ paren_stack' = Front(paren_stack)
    <3>1. Rise(ty) = -1
      BY <2>1 DEF Rise, Openers, Closers
    <3>2. paren_stack # <<>>
      BY <2>1 DEF Top
    <3>3. /\ paren_stack' \in Seq(Openers)
          /\ Len(paren_stack') = Len(paren_stack) - 1
          /\ \A k \in 1..(Len(paren_stack) - 1) : paren_stack'[k] = paren_stack[k]
      BY <1>1, <2>1, <3>2, FrontProperties
    <3> QED
      BY <1>1, <3>1, <3>3
  <2>2. CASE ty \notin Openers \union Closers /\ paren_stack' = paren_stack
    <3>1. Rise(ty) = 0
      BY <2>2 DEF Rise
    <3> QED
      BY <1>1, <2>2, <3>1
  <2> QED
    BY <2>1, <2>2
<1>3. D(at)' = Len(paren_stack') /\ Len(paren_stack') <= Len(paren_stack)
  <2>1. Rise(ty) \in {0, -1}
    BY DEF Rise, Openers, Closers
  <2> QED
    BY <1>1, <1>2, <2>1, HeightAdvances
<1>4. Depth(tokens, 1, at) = Len(paren_stack) /\ Len(paren_stack') \in Nat
  BY <1>2, LenProperties DEF StackIsOpen, D
<1>5. ASSUME NEW k \in 1..Len(paren_stack')
      PROVE  \E q \in 1..at :
               /\ Depth(tokens, 1, q) = k - 1 /\ tokens[q] = paren_stack'[k]
               /\ \A r \in (q + 1)..at : Depth(tokens, 1, r) >= k
  <2>1. k \in 1..Len(paren_stack)
    BY <1>1, <1>3, <1>4
  <2>2. PICK q \in 1..(at - 1) :
          /\ Depth(tokens, 1, q) = k - 1 /\ tokens[q] = paren_stack[k]
          /\ \A r \in (q + 1)..(at - 1) : Depth(tokens, 1, r) >= k
    BY <2>1 DEF StackIsOpen, D
  <2>3. \A r \in (q + 1)..at : Depth(tokens, 1, r) >= k
    BY <1>1, <1>4, <2>1, <2>2
  <2> QED
    BY <1>1, <1>2, <2>2, <2>3
<1> QED
  BY <1>1, <1>2, <1>3, <1>4, <1>5 DEF StackIsOpen, D

LEMMA NotEndedAdvances ==
  ASSUME TypeOK, Consumes, NotEndedBefore,
         ~Stops(tokens, 1, at), ~Mismatched(tokens, 1, at)
  PROVE  NotEndedBefore'
<1>1. at \in Nat \ {0} /\ at' = at + 1 /\ tokens' = tokens
  BY StackTypes DEF Consumes
<1>2. \A p \in 1..at : p = at \/ p \in 1..(at - 1)
  BY <1>1
<1>3. \A p \in 1..at : ~Stops(tokens, 1, p) /\ ~Mismatched(tokens, 1, p)
  BY <1>2 DEF NotEndedBefore
<1> QED
  BY <1>1, <1>3 DEF NotEndedBefore

LEMMA OnlyParensAdvances ==
  ASSUME TypeOK, Consumes, StackIsOpen
  PROVE  OnlyParens' <=> OnlyParens /\ (Top => ty = "(")
<1>1. at \in Nat \ {0} /\ at' = at + 1 /\ tokens' = tokens
  BY StackTypes DEF Consumes
<1>2. \A p : p \in 1..at <=> p = at \/ p \in 1..(at - 1)
  BY <1>1
<1>3. D(at) = 0 <=> Top
  BY StackTypes DEF StackIsOpen
<1>4. OnlyParens' <=> \A p \in 1..at : D(p) = 0 => tokens[p] = "("
  BY <1>1 DEF OnlyParens, D
<1>5. OnlyParens <=> \A p \in 1..(at - 1) : D(p) = 0 => tokens[p] = "("
  BY DEF OnlyParens
<1> QED
  BY <1>2, <1>3, <1>4, <1>5, Zenon DEF ty
-----------------------------------------------------------------------------
(* The operators and the operands found so far.                            *)
LEMMA TopsAdvance ==
  ASSUME TypeOK, Consumes, StackIsOpen
  PROVE  Tops' = IF Top /\ ty \in Operators THEN Tops \union {at} ELSE Tops
<1>1. at \in Nat \ {0} /\ at' = at + 1 /\ tokens' = tokens /\ (at + 1) - 1 = at
  BY StackTypes DEF Consumes
<1>2. Depth(tokens, 1, at) = 0 <=> Top
  BY StackTypes DEF StackIsOpen, D
<1>3. Tops' = {p \in 1..at : tokens[p] \in Operators /\ Depth(tokens, 1, p) = 0}
  BY <1>1 DEF Tops, TopOperators
<1>4. Tops = {p \in 1..(at - 1) : tokens[p] \in Operators /\ Depth(tokens, 1, p) = 0}
  BY DEF Tops, TopOperators
<1>5. \A p : p \in 1..at <=> p = at \/ p \in 1..(at - 1)
  BY <1>1
<1>6. CASE Top /\ ty \in Operators
  BY <1>2, <1>3, <1>4, <1>5, <1>6 DEF ty
<1>7. CASE ~(Top /\ ty \in Operators)
  BY <1>2, <1>3, <1>4, <1>5, <1>7 DEF ty
<1> QED
  BY <1>6, <1>7

(* A first token is that of an operand that is cut, or of the open one.    *)
LEMMA StartsAre ==
  ASSUME TypeOK, OperandsCut
  PROVE  /\ Starts = Done \union (IF operand_start < at THEN {operand_start} ELSE {})
         /\ Tops \subseteq 1..(at - 1) /\ Done \subseteq 1..(at - 1)
         /\ \A p \in Tops \union Done : p < operand_start
<1>1. at \in Nat \ {0} /\ operand_start \in Nat \ {0} /\ operand_start <= at
  BY StackTypes
<1>2. Starts = {p \in 1..(at - 1) : p \notin Tops /\ (p = 1 \/ p - 1 \in Tops)}
  BY DEF Starts, FirstTokens, Tops
<1>3. Tops \subseteq 1..(at - 1)
  BY DEF Tops, TopOperators
<1>4. /\ operand_start = 1 \/ operand_start - 1 \in Tops
      /\ \A p \in Tops : p < operand_start
  BY DEF OperandsCut
<1>5. ASSUME NEW p \in Starts, ~(p < operand_start)
      PROVE  p = operand_start /\ operand_start < at
  BY <1>1, <1>2, <1>3, <1>4, <1>5
<1>6. operand_start < at => operand_start \in Starts
  BY <1>1, <1>2, <1>3, <1>4
<1>7. Done \subseteq Starts /\ \A p \in Done : p < operand_start
  BY DEF Done
<1>8. Starts = Done \union (IF operand_start < at THEN {operand_start} ELSE {})
  BY <1>5, <1>6, <1>7 DEF Done
<1> QED
  BY <1>2, <1>3, <1>4, <1>7, <1>8

LEMMA InOrderIsSeq ==
  ASSUME NEW n \in Nat, NEW S \in SUBSET (1..n), Lists(InOrder(S), S)
  PROVE  InOrder(S) \in Seq(Int)
<1>1. IsFiniteSet(1..n)
  BY FS_Interval
<1>2. Cardinality(S) \in Nat
  BY <1>1, FS_Subset, FS_CardinalityType
<1>3. DOMAIN InOrder(S) = 1..Cardinality(S) /\ Len(InOrder(S)) = Cardinality(S)
  BY <1>2 DEF InOrder
<1>4. ASSUME NEW k \in 1..Cardinality(S)
      PROVE  InOrder(S)[k] \in Int
  <2>1. S = {InOrder(S)[i] : i \in 1..Cardinality(S)}
    BY <1>3 DEF Lists
  <2>2. InOrder(S)[k] \in S
    BY <2>1
  <2>3. S \subseteq Int
    OBVIOUS
  <2> QED
    BY <2>2, <2>3, Zenon
<1>5. ASSUME NEW k \in 1..Cardinality(S)
      PROVE  (CHOOSE p \in S : Cardinality({q \in S : q < p}) = k - 1) \in Int
  BY <1>4 DEF InOrder
<1>6. InOrder(S) \in [1..Cardinality(S) -> Int]
  BY <1>5 DEF InOrder
<1> QED
  BY <1>2, <1>6

(* The list for the fusion, over any operators T and any places S.         *)
ShapeOf(T, S) ==
  [k \in 1..Len(InOrder(S)) |->
     IF InOrder(S)[k] \in T THEN tokens[InOrder(S)[k]] ELSE "x"]

LEMMA ShapeGrows ==
  ASSUME NEW n \in Nat, NEW S \in SUBSET (1..n), Lists(InOrder(S), S),
         NEW m \in Nat, \A p \in S : p < m,
         NEW T, NEW U, \A p \in S : p \in T <=> p \in U
  PROVE  /\ Lists(InOrder(S \union {m}), S \union {m})
         /\ ShapeOf(U, S \union {m}) =
              Append(ShapeOf(T, S), IF m \in U THEN tokens[m] ELSE "x")
<1> DEFINE s == InOrder(S)
           u == Append(s, m)
<1>1. s \in Seq(Int) /\ Lists(s, S)
  BY InOrderIsSeq
<1> HIDE DEF s
<1>2. u \in Seq(Int) /\ Lists(u, S \union {m})
  <2>1. m \in Int
    OBVIOUS
  <2> HIDE DEF Lists
  <2> QED
    BY <1>1, <2>1, ListedAppend, Zenon
<1>3. /\ Len(u) = Len(s) + 1 /\ Len(s) \in Nat
      /\ \A k \in 1..Len(s) : u[k] = s[k]
      /\ u[Len(s) + 1] = m
  BY <1>1, AppendProperties
<1> HIDE DEF u
<1>4. InOrder(S \union {m}) = u
  BY <1>2, ListedInOrder
<1>5. \A k \in 1..Len(s) : s[k] \in S
  BY <1>1 DEF Lists
<1>6. ShapeOf(T, S) = [k \in 1..Len(s) |-> IF s[k] \in T THEN tokens[s[k]] ELSE "x"]
  BY DEF ShapeOf, s
<1>7. ShapeOf(U, S \union {m}) =
        [k \in 1..(Len(s) + 1) |-> IF u[k] \in U THEN tokens[u[k]] ELSE "x"]
  BY <1>3, <1>4 DEF ShapeOf
<1>8. Append(ShapeOf(T, S), IF m \in U THEN tokens[m] ELSE "x") =
        [k \in 1..(Len(s) + 1) |->
           IF k = Len(s) + 1 THEN IF m \in U THEN tokens[m] ELSE "x"
           ELSE ShapeOf(T, S)[k]]
  BY <1>3, <1>6
<1>9. ASSUME NEW k \in 1..(Len(s) + 1)
      PROVE  (IF u[k] \in U THEN tokens[u[k]] ELSE "x") =
               IF k = Len(s) + 1 THEN IF m \in U THEN tokens[m] ELSE "x"
               ELSE ShapeOf(T, S)[k]
  <2>1. CASE k = Len(s) + 1
    BY <1>3, <2>1
  <2>2. CASE k # Len(s) + 1
    <3>1. k \in 1..Len(s) /\ u[k] = s[k] /\ s[k] \in S
      BY <1>3, <1>5, <2>2
    <3>2. ShapeOf(T, S)[k] = IF s[k] \in T THEN tokens[s[k]] ELSE "x"
      BY <1>6, <3>1
    <3>3. s[k] \in T <=> s[k] \in U
      BY <3>1
    <3> QED
      BY <2>2, <3>1, <3>2, <3>3
  <2> QED
    BY <2>1, <2>2
<1>10. ShapeOf(U, S \union {m}) =
         Append(ShapeOf(T, S), IF m \in U THEN tokens[m] ELSE "x")
  BY <1>7, <1>8, <1>9
<1> QED
  BY <1>2, <1>4, <1>10
(* A token that is no operator outside parentheses changes no operand.     *)
LEMMA OperandsAdvance ==
  ASSUME TypeOK, Consumes, StackIsOpen, OperandsCut, ShapeListed,
         ~(Top /\ ty \in Operators),
         UNCHANGED <<operand_start, parse_states, epnis>>
  PROVE  OperandsCut' /\ ShapeListed'
<1>1. /\ at \in Nat \ {0} /\ at' = at + 1 /\ tokens' = tokens
      /\ operand_start \in Nat \ {0} /\ operand_start <= at
  BY StackTypes DEF Consumes
<1>2. Tops' = Tops
  BY TopsAdvance
<1>3. Done = {p \in 1..(at - 1) : (p \notin Tops /\ (p = 1 \/ p - 1 \in Tops)) /\ p < operand_start}
  BY DEF Done, Starts, FirstTokens, Tops
<1>4. Done' = {p \in 1..at : (p \notin Tops /\ (p = 1 \/ p - 1 \in Tops)) /\ p < operand_start}
  <2>1. Done' = {p \in 1..(at' - 1) :
                   (p \notin Tops' /\ (p = 1 \/ p - 1 \in Tops')) /\ p < operand_start'}
    BY DEF Done, Starts, FirstTokens, Tops
  <2>2. at' - 1 = at /\ operand_start' = operand_start
    BY <1>1
  <2> QED
    BY <1>2, <2>1, <2>2
<1>5. Done' = Done
  BY <1>1, <1>3, <1>4
<1>6. OperandsCut'
  BY <1>2, <1>5 DEF OperandsCut
<1>7. ShapeListed'
  BY <1>1, <1>2, <1>5 DEF ShapeListed
<1> QED
  BY <1>6, <1>7

(* An operator outside parentheses ends the open operand, if there is one. *)
LEMMA DoneSplit ==
  ASSUME TypeOK, Consumes, StackIsOpen, OperandsCut,
         Top, ty \in Operators, operand_start' = at + 1
  PROVE  /\ Tops' = Tops \union {at}
         /\ Done' = Done \union (IF operand_start < at THEN {operand_start} ELSE {})
<1>1. /\ at \in Nat \ {0} /\ at' = at + 1 /\ tokens' = tokens
  BY StackTypes DEF Consumes
<1>2. Tops' = Tops \union {at}
  BY TopsAdvance
<1>3. Done' = {p \in 1..at :
                 (p \notin Tops' /\ (p = 1 \/ p - 1 \in Tops')) /\ p < at + 1}
  <2>1. Done' = {p \in 1..(at' - 1) :
                   (p \notin Tops' /\ (p = 1 \/ p - 1 \in Tops')) /\ p < operand_start'}
    BY DEF Done, Starts, FirstTokens, Tops
  <2>2. at' - 1 = at
    BY <1>1
  <2> QED
    BY <2>1, <2>2
<1>4. Starts = {p \in 1..(at - 1) : p \notin Tops /\ (p = 1 \/ p - 1 \in Tops)}
  BY DEF Starts, FirstTokens, Tops
<1>5. Done' = Starts
  BY <1>1, <1>2, <1>3, <1>4
<1> QED
  BY <1>2, <1>5, StartsAre

LEMMA OperandsSplit ==
  ASSUME TypeOK, Types, Consumes, StackIsOpen, OperandsCut,
         Top, ty \in Operators, operand_start' = at + 1,
         parse_states' = IF operand_start = at THEN parse_states
                         ELSE Append(parse_states, Span(operand_start, at))
  PROVE  OperandsCut' /\ parse_states' \in Seq(Ranges)
<1> DEFINE froms == [k \in DOMAIN parse_states |-> parse_states[k].from]
           n == Len(parse_states)
<1>1. /\ at \in Nat \ {0} /\ operand_start \in Nat \ {0} /\ operand_start <= at
      /\ at' = at + 1
  BY StackTypes DEF Consumes
<1>2. /\ Tops' = Tops \union {at}
      /\ Done' = Done \union (IF operand_start < at THEN {operand_start} ELSE {})
  BY DoneSplit
<1>3. /\ Tops \subseteq 1..(at - 1) /\ Done \subseteq 1..(at - 1)
      /\ \A p \in Tops \union Done : p < operand_start
  BY StartsAre
<1>4. /\ parse_states \in Seq(Ranges) /\ n \in Nat /\ DOMAIN parse_states = 1..n
      /\ \A k \in 1..n : parse_states[k] \in Ranges
                        /\ parse_states[k].from \in Nat /\ parse_states[k].to \in Nat
  <2>1. parse_states \in Seq(Ranges)
    BY DEF Types
  <2>2. /\ n \in Nat /\ DOMAIN parse_states = 1..n
        /\ \A k \in 1..n : parse_states[k] \in Ranges
    BY <2>1, SeqFacts
  <2> QED
    BY <2>1, <2>2 DEF Ranges
<1>5. froms \in Seq(Int) /\ Len(froms) = n /\ Lists(froms, Done)
  BY <1>4 DEF OperandsCut
<1>6. (operand_start' = 1 \/ operand_start' - 1 \in Tops') /\ \A p \in Tops' : p < operand_start'
  BY <1>1, <1>2, <1>3
<1>7. \A k \in 1..n :
        /\ parse_states[k].from < parse_states[k].to /\ parse_states[k].to \in Tops
        /\ \A p \in Tops : ~(parse_states[k].from <= p /\ p < parse_states[k].to)
  BY <1>4 DEF OperandsCut
<1>8. \A k \in 1..n :
        /\ parse_states[k].to \in Tops'
        /\ \A p \in Tops' : ~(parse_states[k].from <= p /\ p < parse_states[k].to)
  BY <1>1, <1>2, <1>3, <1>4, <1>7
<1>9. CASE operand_start = at
  <2>1. parse_states' = parse_states /\ Done' = Done
    BY <1>1, <1>2, <1>9
  <2>2. OperandsCut'
    BY <1>4, <1>5, <1>6, <1>7, <1>8, <2>1 DEF OperandsCut
  <2> QED
    BY <1>4, <2>1, <2>2
<1>10. CASE operand_start # at
  <2> DEFINE r == Span(operand_start, at)
             news == [k \in DOMAIN parse_states' |-> parse_states'[k].from]
  <2>1. r \in Ranges /\ r.from = operand_start /\ r.to = at
    BY <1>1 DEF Span, Ranges
  <2>2. parse_states' = Append(parse_states, r) /\ Done' = Done \union {operand_start}
    BY <1>1, <1>2, <1>10
  <2> HIDE DEF r
  <2>3. /\ parse_states' \in Seq(Ranges)
        /\ Len(parse_states') = n + 1 /\ DOMAIN parse_states' = 1..(n + 1)
        /\ \A k \in 1..n : parse_states'[k] = parse_states[k]
        /\ parse_states'[n + 1] = r
    BY <1>4, <2>1, <2>2, AppendFacts
  <2>4. /\ Append(froms, operand_start) \in Seq(Int)
        /\ Lists(Append(froms, operand_start), Done')
    <3>1. operand_start \in Int /\ \A p \in Done : p < operand_start
      BY <1>1, <1>3
    <3> HIDE DEF froms, Lists
    <3> QED
      BY <1>5, <2>2, <3>1, ListedAppend
  <2>5. news = Append(froms, operand_start)
    <3>1. Append(froms, operand_start) =
            [k \in 1..(n + 1) |-> IF k = n + 1 THEN operand_start ELSE froms[k]]
      BY <1>4, <1>5
    <3>2. \A k \in 1..(n + 1) :
            parse_states'[k].from = IF k = n + 1 THEN operand_start ELSE froms[k]
      BY <1>4, <2>1, <2>3
    <3> QED
      BY <2>3, <3>1, <3>2, ZenonT(60)
  <2>6. Lists(news, Done')
    BY <2>4, <2>5
  <2>7. ASSUME NEW k \in 1..(n + 1)
        PROVE  /\ parse_states'[k].from < parse_states'[k].to
               /\ parse_states'[k].to \in Tops'
               /\ \A p \in Tops' : ~(parse_states'[k].from <= p /\ p < parse_states'[k].to)
    <3>1. CASE k = n + 1
      <4>1. parse_states'[k].from = operand_start /\ parse_states'[k].to = at
        BY <2>1, <2>3, <3>1
      <4>2. \A p \in Tops' : ~(operand_start <= p /\ p < at)
        BY <1>1, <1>2, <1>3
      <4> QED
        BY <1>1, <1>2, <1>10, <4>1, <4>2
    <3>2. CASE k # n + 1
      <4>1. k \in 1..n /\ parse_states'[k] = parse_states[k]
        BY <1>4, <2>3, <3>2
      <4> QED
        BY <1>7, <1>8, <4>1
    <3> QED
      BY <3>1, <3>2
  <2>8. OperandsCut'
    BY <1>6, <2>3, <2>6, <2>7 DEF OperandsCut
  <2> QED
    BY <2>3, <2>8
<1> QED
  BY <1>9, <1>10

LEMMA ShapeSplit ==
  ASSUME TypeOK, Types, Consumes, StackIsOpen, OperandsCut, ShapeListed,
         Top, ty \in Operators, operand_start' = at + 1,
         epnis' = IF operand_start = at THEN Append(epnis, ty) ELSE epnis \o <<"x", ty>>
  PROVE  ShapeListed' /\ epnis' \in Seq(Operators \union {"x"})
<1> DEFINE S == Tops \union Done
<1>1. /\ at \in Nat \ {0} /\ operand_start \in Nat \ {0} /\ operand_start <= at
      /\ at' = at + 1 /\ tokens' = tokens /\ at - 1 \in Nat
  BY StackTypes DEF Consumes
<1>2. /\ Tops' = Tops \union {at}
      /\ Done' = Done \union (IF operand_start < at THEN {operand_start} ELSE {})
  BY DoneSplit
<1>3. /\ Tops \subseteq 1..(at - 1) /\ S \subseteq 1..(at - 1)
      /\ \A p \in S : p < operand_start
  BY StartsAre
<1>4. Lists(InOrder(S), S) /\ epnis = ShapeOf(Tops, S)
  BY DEF ShapeListed, ShapeOf
<1>5. epnis \in Seq(Operators \union {"x"}) /\ ty \in Operators \union {"x"}
  BY DEF Types
<1>6. \A p \in S : p < at /\ (p \in Tops <=> p \in Tops')
  BY <1>1, <1>2, <1>3
<1>7. CASE operand_start = at
  <2>1. Tops' \union Done' = S \union {at} /\ epnis' = Append(epnis, ty)
    BY <1>1, <1>2, <1>7
  <2>2. at \in Tops' /\ at \in Nat
    BY <1>1, <1>2
  <2> HIDE DEF S
  <2>3. /\ Lists(InOrder(S \union {at}), S \union {at})
        /\ ShapeOf(Tops', S \union {at}) = Append(ShapeOf(Tops, S), ty)
    <3>1. (IF at \in Tops' THEN tokens[at] ELSE "x") = ty
      BY <2>2 DEF ty
    <3> DEFINE U == Tops'
    <3>2. /\ S \in SUBSET (1..at) /\ \A p \in S : p < at
          /\ \A p \in S : p \in Tops <=> p \in U
      BY <1>1, <1>3, <1>6
    <3>3. (IF at \in U THEN tokens[at] ELSE "x") = ty
      BY <3>1
    <3> HIDE DEF Lists, ShapeOf, U
    <3>4. /\ Lists(InOrder(S \union {at}), S \union {at})
          /\ ShapeOf(U, S \union {at}) = Append(ShapeOf(Tops, S), ty)
      BY <1>4, <2>2, <3>2, <3>3, ShapeGrows, ZenonT(60)
    <3> QED
      BY <3>4 DEF U
  <2>4. ShapeOf(Tops', S \union {at}) = epnis'
    BY <1>4, <2>1, <2>3
  <2>5. ShapeListed'
    BY <1>1, <2>1, <2>3, <2>4 DEF ShapeListed, ShapeOf
  <2> QED
    BY <1>5, <2>1, <2>5, AppendFacts
<1>8. CASE operand_start # at
  <2> DEFINE T == S \union {operand_start}
  <2>1. Tops' \union Done' = T \union {at} /\ epnis' = epnis \o <<"x", ty>>
    BY <1>1, <1>2, <1>8
  <2>2. /\ at \in Tops' /\ at \in Nat /\ operand_start \in Nat
        /\ operand_start \notin Tops' /\ operand_start \notin Tops
    BY <1>1, <1>2, <1>3, <1>8
  <2>3. T \subseteq 1..at /\ \A p \in T : p < at /\ (p \in Tops' <=> p \in Tops)
    BY <1>1, <1>2, <1>3, <1>6, <1>8, <2>2
  <2> HIDE DEF S
  <2>4. /\ Lists(InOrder(T), T)
        /\ ShapeOf(Tops, T) = Append(ShapeOf(Tops, S), "x")
    <3>1. (IF operand_start \in Tops THEN tokens[operand_start] ELSE "x") = "x"
      BY <2>2
    <3> HIDE DEF Lists, ShapeOf
    <3> QED
      BY <1>1, <1>3, <1>4, <1>6, <2>2, <3>1, ShapeGrows, ZenonT(60)
  <2> HIDE DEF T
  <2>5. /\ Lists(InOrder(T \union {at}), T \union {at})
        /\ ShapeOf(Tops', T \union {at}) = Append(ShapeOf(Tops, T), ty)
    <3>1. (IF at \in Tops' THEN tokens[at] ELSE "x") = ty
      BY <2>2 DEF ty
    <3> HIDE DEF Lists, ShapeOf
    <3> QED
      BY <1>1, <2>2, <2>3, <2>4, <3>1, ShapeGrows, ZenonT(60)
  <2>6. /\ epnis' = Append(Append(epnis, "x"), ty)
        /\ epnis' \in Seq(Operators \union {"x"})
    <3> DEFINE Epni == Operators \union {"x"}
    <3>1. epnis \in Seq(Epni) /\ "x" \in Epni /\ ty \in Epni
      BY <1>5
    <3> HIDE DEF Epni
    <3>2. /\ epnis \o <<"x", ty>> = Append(Append(epnis, "x"), ty)
          /\ epnis \o <<"x", ty>> \in Seq(Epni)
      BY <3>1, AppendTwo
    <3> QED
      BY <2>1, <3>2 DEF Epni
  <2>7. ShapeOf(Tops', T \union {at}) = epnis'
    BY <1>4, <2>4, <2>5, <2>6
  <2>8. ShapeListed'
    BY <1>1, <2>1, <2>5, <2>7 DEF ShapeListed, ShapeOf
  <2> QED
    BY <2>6, <2>8
<1> QED
  BY <1>7, <1>8
-----------------------------------------------------------------------------
(* The steps that consume a token.                                         *)
LEMMA HeadIsParen ==
  ASSUME TypeOK, StackIsOpen, OnlyParens, ~Top
  PROVE  paren_stack[1] = "(" /\ Head(paren_stack) = paren_stack[1]
<1>1. 1 \in 1..Len(paren_stack) /\ at \in Nat
  BY StackTypes
<1>2. PICK q \in 1..(at - 1) : D(q) = 0 /\ tokens[q] = paren_stack[1]
  BY <1>1 DEF StackIsOpen
<1> QED
  BY <1>1, <1>2 DEF OnlyParens, Top

LEMMA Consumed ==
  ASSUME IInv, outcome = "scanning", Consumes, outcome' = outcome, last_ty' = ty,
         ~Stops(tokens, 1, at), ~Mismatched(tokens, 1, at),
         StackIsOpen', OperandsCut', ShapeListed', Types',
         paren_stack' \in Seq(Openers), operand_start' \in 1..at',
         last_was_operator' \in BOOLEAN, entirely_wrapped_in_parens' \in BOOLEAN,
         last_was_operator' <=> operand_start' = at',
         entirely_wrapped_in_parens' <=> OnlyParens',
         entirely_wrapped_in_parens' /\ Top' => ty = ")"
  PROVE  IInv'
<1>1. /\ TypeOK /\ Types /\ Walking /\ at \in Nat \ {0}
      /\ at' = at + 1 /\ tokens' = tokens /\ Len(tokens) \in Nat /\ at <= Len(tokens)
  BY StackTypes, SeqFacts DEF IInv, Consumes, Types
<1>2. NotEndedBefore'
  BY <1>1, NotEndedAdvances DEF Walking
<1>3. at' # 1 /\ at' - 1 = at /\ last_ty' = tokens'[at' - 1]
  BY <1>1 DEF ty
<1>4. Walking'
  BY <1>2, <1>3 DEF Walking, ty
<1>5. outcome' = "scanning" /\ ~Ended'
  BY DEF Ended
<1>6. TypeOK'
  <2>1. at' \in 1..(Len(tokens') + 1)
    BY <1>1
  <2>2. \A k \in DOMAIN parse_states' : parse_states'[k].from < parse_states'[k].to
    BY DEF OperandsCut
  <2> QED
    BY <1>5, <2>1, <2>2 DEF TypeOK, Outcomes
<1>7. WrappedCanBeStripped' /\ MatchesScanResult'
  BY <1>5 DEF WrappedCanBeStripped, MatchesScanResult
<1>8. GoesOn'
  BY DEF GoesOn
<1> QED
  BY <1>4, <1>5, <1>6, <1>7, <1>8 DEF IInv

(* The facts that the proofs of these steps begin with.                    *)
LEMMA LookingFacts ==
  ASSUME IInv, Looking
  PROVE  /\ TypeOK /\ Types /\ Walking /\ GoesOn /\ outcome = "scanning"
         /\ StackIsOpen /\ OperandsCut /\ ShapeListed /\ at <= Len(tokens)
         /\ Stops(tokens, 1, at) <=> Top /\ ty \in Puncts
         /\ Mismatched(tokens, 1, at) <=>
              ty \in Closers /\ ~Top /\ ~Closes(Last(paren_stack), ty)
         /\ entirely_wrapped_in_parens <=> OnlyParens
<1>1. /\ TypeOK /\ Types /\ Walking /\ GoesOn /\ outcome = "scanning"
      /\ at <= Len(tokens) /\ ~AfterBlock
  BY DEF IInv, Looking, Scanning
<1>2. StackIsOpen /\ OperandsCut /\ ShapeListed
  BY <1>1 DEF Walking
<1>3. Stops(tokens, 1, at) <=> Top /\ ty \in Puncts
  BY <1>1, <1>2, StopsWhen DEF Walking
<1>4. entirely_wrapped_in_parens <=> OnlyParens
  BY <1>1 DEF Walking, GoesOn
<1> QED
  BY <1>1, <1>2, <1>3, <1>4, MismatchedWhen

LEMMA PushParenKeeps ==
  ASSUME IInv, PushParen
  PROVE  IInv'
<1>1. Looking /\ ty \in Openers
  BY DEF PushParen
<1>2. /\ TypeOK /\ Types /\ Walking /\ GoesOn /\ outcome = "scanning"
      /\ StackIsOpen /\ OperandsCut /\ ShapeListed /\ at <= Len(tokens)
      /\ entirely_wrapped_in_parens <=> OnlyParens
      /\ ~Stops(tokens, 1, at) /\ ~Mismatched(tokens, 1, at)
  <2>1. ty \notin Puncts /\ ty \notin Closers
    BY <1>1 DEF Openers, Puncts, Closers
  <2> QED
    BY <1>1, <2>1, LookingFacts
<1>3. /\ Consumes /\ outcome' = outcome /\ last_ty' = ty
      /\ UNCHANGED <<operand_start, parse_states, epnis>>
      /\ paren_stack' = Append(paren_stack, ty) /\ last_was_operator' = FALSE
      /\ entirely_wrapped_in_parens' = (entirely_wrapped_in_parens /\ Head(paren_stack') = "(")
  BY <1>2 DEF PushParen, Advance, Consumes
<1>4. StackIsOpen'
  BY <1>1, <1>2, <1>3, StackGrows
<1>5. ty \notin Operators
  BY <1>1 DEF Openers, Operators
<1>6. OperandsCut' /\ ShapeListed'
  BY <1>2, <1>3, <1>5, OperandsAdvance
<1>7. Types'
  BY <1>2, <1>3 DEF Types, Consumes
<1>8. /\ paren_stack' \in Seq(Openers)
      /\ Len(paren_stack') = Len(paren_stack) + 1 /\ Len(paren_stack) \in Nat
      /\ Head(paren_stack') = IF Top THEN ty ELSE paren_stack[1]
  <2>1. paren_stack \in Seq(Openers)
    BY <1>2 DEF TypeOK
  <2> QED
    BY <1>1, <1>2, <1>3, <2>1, AppendFacts, StackTypes
<1>9. operand_start' \in 1..at' /\ operand_start' # at'
  BY <1>2, <1>3, StackTypes DEF Consumes
<1>10. entirely_wrapped_in_parens' <=> OnlyParens'
  <2>1. OnlyParens' <=> OnlyParens /\ (Top => ty = "(")
    BY <1>2, <1>3, OnlyParensAdvances
  <2>2. OnlyParens /\ ~Top => paren_stack[1] = "("
    BY <1>2, HeadIsParen
  <2> QED
    BY <1>2, <1>3, <1>8, <2>1, <2>2
<1>11. ~Top'
  BY <1>8 DEF Top
<1>12. entirely_wrapped_in_parens' \in BOOLEAN /\ last_was_operator' \in BOOLEAN
  BY <1>2, <1>3 DEF TypeOK
<1> QED
  BY <1>2, <1>3, <1>4, <1>6, <1>7, <1>8, <1>9, <1>10, <1>11, <1>12, Consumed

LEMMA PopParenKeeps ==
  ASSUME IInv, PopParen
  PROVE  IInv'
<1>1. Looking /\ ty \in Closers /\ ~Top /\ Closes(Last(paren_stack), ty)
  BY DEF PopParen
<1>2. /\ TypeOK /\ Types /\ Walking /\ GoesOn /\ outcome = "scanning"
      /\ StackIsOpen /\ OperandsCut /\ ShapeListed /\ at <= Len(tokens)
      /\ entirely_wrapped_in_parens <=> OnlyParens
      /\ ~Stops(tokens, 1, at) /\ ~Mismatched(tokens, 1, at)
  BY <1>1, LookingFacts
<1>3. /\ Consumes /\ outcome' = outcome /\ last_ty' = ty
      /\ UNCHANGED <<operand_start, parse_states, epnis>>
      /\ paren_stack' = Front(paren_stack) /\ last_was_operator' = FALSE
      /\ entirely_wrapped_in_parens' = entirely_wrapped_in_parens
  BY <1>2 DEF PopParen, Advance, Consumes
<1>4. StackIsOpen' /\ paren_stack' \in Seq(Openers)
  BY <1>1, <1>2, <1>3, StackShrinks
<1>5. OperandsCut' /\ ShapeListed'
  BY <1>1, <1>2, <1>3, OperandsAdvance
<1>6. Types'
  BY <1>2, <1>3 DEF Types, Consumes
<1>7. operand_start' \in 1..at' /\ operand_start' # at'
  BY <1>2, <1>3, StackTypes DEF Consumes
<1>8. OnlyParens' <=> OnlyParens
  BY <1>1, <1>2, <1>3, OnlyParensAdvances
<1>9. ASSUME OnlyParens, Top'
      PROVE  ty = ")"
  <2>1. paren_stack[1] = "("
    BY <1>1, <1>2, <1>9, HeadIsParen
  <2>2. Len(paren_stack) = 1
    <3>1. paren_stack \in Seq(Openers) /\ Len(paren_stack) \in Nat /\ Len(paren_stack) > 0
      BY <1>1, <1>2, StackTypes DEF TypeOK
    <3>2. Len(paren_stack') = Len(paren_stack) - 1
      BY <1>3, <3>1, FrontProperties
    <3>3. Len(paren_stack') = 0
      BY <1>9 DEF Top
    <3> QED
      BY <3>1, <3>2, <3>3
  <2> QED
    BY <1>1, <2>1, <2>2 DEF Last, Closes
<1>10. entirely_wrapped_in_parens' \in BOOLEAN /\ last_was_operator' \in BOOLEAN
  BY <1>2, <1>3 DEF TypeOK
<1> QED
  BY <1>2, <1>3, <1>4, <1>5, <1>6, <1>7, <1>8, <1>9, <1>10, Consumed
(* What the two steps on a token that is no bracket have in common.        *)
LEMMA PlainFacts ==
  ASSUME IInv, Plain, ~(Top /\ ty \in Puncts), Consumes, paren_stack' = paren_stack,
         StillWrapped
  PROVE  /\ ~Stops(tokens, 1, at) /\ ~Mismatched(tokens, 1, at)
         /\ StackIsOpen' /\ paren_stack' \in Seq(Openers)
         /\ entirely_wrapped_in_parens' \in BOOLEAN
         /\ entirely_wrapped_in_parens' <=> OnlyParens'
         /\ entirely_wrapped_in_parens' => ~Top'
<1>1. Looking /\ ty \notin Openers \union Closers
  BY DEF Plain
<1>2. /\ TypeOK /\ StackIsOpen
      /\ entirely_wrapped_in_parens <=> OnlyParens
      /\ ~Stops(tokens, 1, at) /\ ~Mismatched(tokens, 1, at)
  BY <1>1, LookingFacts
<1>3. StackIsOpen' /\ paren_stack' \in Seq(Openers)
  BY <1>1, <1>2, StackShrinks
<1>4. OnlyParens' <=> OnlyParens /\ (Top => ty = "(")
  BY <1>2, OnlyParensAdvances
<1>5. ty # "("
  BY <1>1 DEF Openers
<1>6. OnlyParens /\ ~Top => Head(paren_stack) = "("
  BY <1>2, HeadIsParen
<1>7. entirely_wrapped_in_parens' =
        (entirely_wrapped_in_parens /\ ~Top /\ Head(paren_stack) = "(")
  BY DEF StillWrapped
<1>8. entirely_wrapped_in_parens \in BOOLEAN
  BY <1>2 DEF TypeOK
<1>9. entirely_wrapped_in_parens' <=> OnlyParens'
  BY <1>2, <1>4, <1>5, <1>6, <1>7, <1>8
<1>10. entirely_wrapped_in_parens' \in BOOLEAN /\ (entirely_wrapped_in_parens' => ~Top')
  BY <1>7 DEF Top
<1> QED
  BY <1>2, <1>3, <1>9, <1>10

LEMMA PartOfOperandKeeps ==
  ASSUME IInv, PartOfOperand
  PROVE  IInv'
<1>1. /\ Looking /\ Plain /\ StillWrapped
      /\ ~(Top /\ ty \in Operators) /\ ~(Top /\ ty \in Puncts)
  BY DEF PartOfOperand, Plain
<1>2. /\ TypeOK /\ Types /\ outcome = "scanning"
      /\ StackIsOpen /\ OperandsCut /\ ShapeListed /\ at <= Len(tokens)
  BY <1>1, LookingFacts
<1>3. /\ Consumes /\ outcome' = outcome /\ last_ty' = ty
      /\ UNCHANGED <<paren_stack, operand_start, parse_states, epnis>>
      /\ last_was_operator' = FALSE
  BY <1>2 DEF PartOfOperand, Advance, Consumes
<1>4. /\ ~Stops(tokens, 1, at) /\ ~Mismatched(tokens, 1, at)
      /\ StackIsOpen' /\ paren_stack' \in Seq(Openers)
      /\ entirely_wrapped_in_parens' \in BOOLEAN
      /\ entirely_wrapped_in_parens' <=> OnlyParens'
      /\ entirely_wrapped_in_parens' => ~Top'
  BY <1>1, <1>3, PlainFacts
<1>5. OperandsCut' /\ ShapeListed'
  BY <1>1, <1>2, <1>3, OperandsAdvance
<1>6. Types'
  BY <1>2, <1>3 DEF Types, Consumes
<1>7. operand_start' \in 1..at' /\ operand_start' # at'
  BY <1>2, <1>3, StackTypes DEF Consumes
<1> QED
  BY <1>2, <1>3, <1>4, <1>5, <1>6, <1>7, Consumed

LEMMA SplitAtOperatorKeeps ==
  ASSUME IInv, SplitAtOperator
  PROVE  IInv'
<1>1. Looking /\ Plain /\ StillWrapped /\ Top /\ ty \in Operators /\ ty \notin Puncts
  BY DEF SplitAtOperator, Plain, Operators, Puncts
<1>2. /\ TypeOK /\ Types /\ outcome = "scanning" /\ GoesOn
      /\ StackIsOpen /\ OperandsCut /\ ShapeListed /\ at <= Len(tokens)
  BY <1>1, LookingFacts
<1>3. /\ Consumes /\ outcome' = outcome /\ last_ty' = ty
      /\ paren_stack' = paren_stack /\ operand_start' = at + 1
      /\ last_was_operator' = TRUE
  BY <1>2 DEF SplitAtOperator, Advance, Consumes
<1>4. last_was_operator <=> operand_start = at
  BY <1>2 DEF GoesOn
<1>5. /\ parse_states' = IF operand_start = at THEN parse_states
                         ELSE Append(parse_states, Span(operand_start, at))
      /\ epnis' = IF operand_start = at THEN Append(epnis, ty) ELSE epnis \o <<"x", ty>>
  BY <1>4 DEF SplitAtOperator
<1>6. /\ ~Stops(tokens, 1, at) /\ ~Mismatched(tokens, 1, at)
      /\ StackIsOpen' /\ paren_stack' \in Seq(Openers)
      /\ entirely_wrapped_in_parens' \in BOOLEAN
      /\ entirely_wrapped_in_parens' <=> OnlyParens'
      /\ entirely_wrapped_in_parens' => ~Top'
  BY <1>1, <1>3, PlainFacts
<1>7. OperandsCut' /\ parse_states' \in Seq(Ranges)
  BY <1>1, <1>2, <1>3, <1>5, OperandsSplit
<1>8. ShapeListed' /\ epnis' \in Seq(Operators \union {"x"})
  BY <1>1, <1>2, <1>3, <1>5, ShapeSplit
<1>9. Types'
  BY <1>2, <1>3, <1>7, <1>8 DEF Types, Consumes
<1>10. operand_start' \in 1..at' /\ operand_start' = at'
  BY <1>2, <1>3, StackTypes DEF Consumes
<1> QED
  BY <1>2, <1>3, <1>6, <1>7, <1>8, <1>9, <1>10, Consumed

-----------------------------------------------------------------------------
(* The steps that leave the loop.                                          *)
LEMMA ScanEndIs ==
  ASSUME TypeOK, Types, NotEndedBefore,
         at < End => Stops(tokens, 1, at) \/ Mismatched(tokens, 1, at)
  PROVE  at = ScanEnd(tokens, 1, End)
<1> DEFINE S == {p \in 1..(End - 1) : Stops(tokens, 1, p) \/ Mismatched(tokens, 1, p)}
                  \union {End}
<1>1. Len(tokens) \in Nat /\ End \in Nat /\ at \in 1..End
  BY SeqFacts DEF Types, TypeOK, End
<1>2. S \in SUBSET Int
  BY <1>1
<1>3. at \in S
  BY <1>1
<1>4. ASSUME NEW p \in S
      PROVE  at <= p
  <2>1. ~(p \in 1..(at - 1))
    BY <1>1, <1>4 DEF NotEndedBefore
  <2> QED
    BY <1>1, <1>4, <2>1
<1>5. Min(S) = at
  BY <1>2, <1>3, <1>4, MinIs
<1> QED
  BY <1>5 DEF ScanEnd

(* A step that leaves the loop, and the expression may be complete.        *)
LEMMA LeftAtEnd ==
  ASSUME IInv, outcome = "scanning", Leave("end"),
         last_was_operator' \in BOOLEAN, entirely_wrapped_in_parens' \in BOOLEAN,
         entirely_wrapped_in_parens' => entirely_wrapped_in_parens,
         HasEnded'
  PROVE  IInv'
<1>1. TypeOK /\ Types /\ Walking
  BY DEF IInv
<1>2. /\ UNCHANGED <<tokens, at, paren_stack, last_ty, operand_start, parse_states, epnis>>
      /\ outcome' = "end"
  BY DEF Leave
<1>3. TypeOK' /\ Types'
  BY <1>1, <1>2 DEF TypeOK, Types, Outcomes
<1>4. StackIsOpen' /\ NotEndedBefore'
  BY <1>1, <1>2 DEF Walking, StackIsOpen, NotEndedBefore, D
<1>5. OnlyParens' <=> OnlyParens
  BY <1>2 DEF OnlyParens, D
<1>6. Tops' = Tops /\ Done' = Done
  BY <1>2 DEF Tops, Done, Starts
<1>7. OperandsCut' /\ ShapeListed'
  BY <1>1, <1>2, <1>6 DEF Walking, OperandsCut, ShapeListed
<1>8. Walking'
  BY <1>1, <1>2, <1>4, <1>5, <1>7 DEF Walking, Top
<1> QED
  BY <1>2, <1>3, <1>8 DEF IInv, WrappedCanBeStripped, MatchesScanResult, Ended

(* A step that leaves the loop with an error.                              *)
LEMMA LeftByError ==
  ASSUME IInv, outcome = "scanning", Leave("throws"),
         last_was_operator' \in BOOLEAN, entirely_wrapped_in_parens' \in BOOLEAN,
         at < End => Stops(tokens, 1, at) \/ Mismatched(tokens, 1, at),
         ScanThrows(tokens, 1, End, at)
  PROVE  IInv'
<1>1. TypeOK /\ Types /\ NotEndedBefore
  BY DEF IInv, Walking
<1>2. /\ UNCHANGED <<tokens, at, paren_stack, last_ty, operand_start, parse_states, epnis>>
      /\ outcome' = "throws"
  BY DEF Leave
<1>3. TypeOK' /\ Types'
  BY <1>1, <1>2 DEF TypeOK, Types, Outcomes
<1>4. at = ScanEnd(tokens, 1, End)
  BY <1>1, ScanEndIs
<1>5. MatchesScanResult'
  BY <1>2, <1>4 DEF MatchesScanResult, Accepted, End
<1>6. WrappedCanBeStripped'
  BY <1>2 DEF WrappedCanBeStripped
<1> QED
  BY <1>2, <1>3, <1>5, <1>6 DEF IInv

LEMMA LeavingKeeps ==
  ASSUME IInv,
         BreakAfterBlock \/ BreakAtCloser \/ ThrowUnmatched \/ StopAtPunct \/ OutOfTokens
  PROVE  IInv'
<1>1. /\ TypeOK /\ Types /\ outcome = "scanning"
      /\ last_was_operator \in BOOLEAN /\ entirely_wrapped_in_parens \in BOOLEAN
  BY DEF IInv, TypeOK, BreakAfterBlock, BreakAtCloser, ThrowUnmatched, StopAtPunct,
         OutOfTokens, Looking, Plain, Scanning
<1>2. /\ Walking /\ GoesOn /\ StackIsOpen /\ OperandsCut
      /\ entirely_wrapped_in_parens <=> OnlyParens
  BY <1>1 DEF IInv, Walking, GoesOn
<1>3. /\ at \in Nat \ {0} /\ Len(tokens) \in Nat /\ End = Len(tokens) + 1
      /\ at <= End /\ operand_start \in Nat /\ operand_start <= at
  BY <1>1, StackTypes, SeqFacts DEF TypeOK, Types, End
<1>4. Stops(tokens, 1, at) <=> AfterBlock \/ (Top /\ ty \in Puncts)
  BY <1>1, <1>2, StopsWhen DEF Walking
<1>5. WrappedInParens(tokens, 1, End, at) <=>
        OnlyParens /\ ~(at < End /\ ty \in Puncts \ Closers)
  BY DEF WrappedInParens, OnlyParens, D, ty
<1>6. ASSUME UNCHANGED <<tokens, at, operand_start>>
      PROVE  HasEnded' <=>
               /\ at < End => Stops(tokens, 1, at)
               /\ at < End /\ ty \in Puncts \ Closers => operand_start < at
               /\ entirely_wrapped_in_parens' <=> WrappedInParens(tokens, 1, End, at)
  BY <1>6 DEF HasEnded, End, ty
<1>7. CASE BreakAfterBlock
  <2>1. AfterBlock /\ Leave("end") /\ UNCHANGED <<last_was_operator, entirely_wrapped_in_parens>>
    BY <1>7 DEF BreakAfterBlock
  <2>2. ty \notin Puncts
    BY <2>1 DEF AfterBlock, Continues
  <2>3. HasEnded'
    BY <1>2, <1>4, <1>5, <1>6, <2>1, <2>2 DEF Leave
  <2> QED
    BY <1>1, <2>1, <2>3, LeftAtEnd
<1>8. CASE BreakAtCloser
  <2>1. /\ ty \in Closers /\ Top /\ Leave("end") /\ last_was_operator' = FALSE
        /\ UNCHANGED entirely_wrapped_in_parens
    BY <1>8 DEF BreakAtCloser
  <2>2. ty \in Puncts
    BY <2>1 DEF Closers, Puncts
  <2>3. HasEnded'
    BY <1>2, <1>4, <1>5, <1>6, <2>1, <2>2 DEF Leave
  <2> QED
    BY <1>1, <2>1, <2>3, LeftAtEnd
<1>9. CASE ThrowUnmatched
  <2>1. /\ ty \in Closers /\ ~Top /\ ~Closes(Last(paren_stack), ty) /\ Leave("throws")
        /\ UNCHANGED <<last_was_operator, entirely_wrapped_in_parens>> /\ at <= Len(tokens)
    BY <1>9 DEF ThrowUnmatched, Looking, Scanning
  <2>2. Mismatched(tokens, 1, at)
    BY <1>1, <1>2, <2>1, MismatchedWhen
  <2>3. ScanThrows(tokens, 1, End, at)
    BY <1>3, <2>1, <2>2 DEF ScanThrows
  <2> QED
    BY <1>1, <2>1, <2>2, <2>3, LeftByError
<1>10. CASE StopAtPunct
  <2>1. /\ Top /\ ty \in Puncts \ Closers /\ StillWrapped /\ at <= Len(tokens)
        /\ Leave(IF last_was_operator THEN "throws" ELSE "end")
        /\ last_was_operator' = (last_was_operator /\ outcome' = "throws")
    BY <1>10 DEF StopAtPunct, Plain, Looking, Scanning
  <2>2. Stops(tokens, 1, at) /\ at < End
    BY <1>3, <1>4, <2>1
  <2>3. entirely_wrapped_in_parens' = FALSE /\ last_was_operator' \in BOOLEAN
    BY <2>1 DEF StillWrapped
  <2>4. last_was_operator <=> operand_start = at
    BY <1>2 DEF GoesOn
  <2>5. CASE last_was_operator
    <3>1. at = 1 \/ at - 1 \in TopOperators(tokens, 1, at)
      BY <1>2, <2>4, <2>5 DEF OperandsCut, Tops
    <3>2. ScanThrows(tokens, 1, End, at)
      BY <2>1, <2>2, <3>1 DEF ScanThrows, ty
    <3> QED
      BY <1>1, <2>1, <2>2, <2>3, <2>5, <3>2, LeftByError
  <2>6. CASE ~last_was_operator
    <3>1. Leave("end")
      BY <2>1, <2>6
    <3>2. HasEnded'
      BY <1>3, <1>5, <1>6, <2>1, <2>2, <2>3, <2>4, <2>6, <3>1 DEF Leave
    <3> QED
      BY <1>1, <2>3, <3>1, <3>2, LeftAtEnd
  <2> QED
    BY <2>5, <2>6
<1>11. CASE OutOfTokens
  <2>1. /\ at > Len(tokens) /\ Leave("end")
        /\ UNCHANGED <<last_was_operator, entirely_wrapped_in_parens>>
    BY <1>11 DEF OutOfTokens
  <2>2. ~(at < End)
    BY <1>3, <2>1
  <2>3. HasEnded'
    BY <1>2, <1>5, <1>6, <2>1, <2>2 DEF Leave
  <2> QED
    BY <1>1, <2>1, <2>3, LeftAtEnd
<1> QED
  BY <1>7, <1>8, <1>9, <1>10, <1>11
-----------------------------------------------------------------------------
(* After the loop the last operand is added, and the operands are the ones *)
(* of the closed form.                                                     *)
Concluded == IF operand_start < at THEN Append(parse_states, Span(operand_start, at))
                                   ELSE parse_states

LEMMA RangesConcluded ==
  ASSUME TypeOK, Types, OperandsCut
  PROVE  /\ Concluded = OperandRanges(tokens, 1, at)
         /\ Concluded \in Seq(Ranges)
         /\ \A k \in DOMAIN Concluded : Concluded[k].from < Concluded[k].to
<1> DEFINE froms == [k \in DOMAIN parse_states |-> parse_states[k].from]
           n == Len(parse_states)
           all == [k \in DOMAIN Concluded |-> Concluded[k].from]
           m == Len(Concluded)
           upto(p) == {q \in Tops : q > p} \union {at}
<1>1. at \in Nat \ {0} /\ operand_start \in Nat \ {0} /\ operand_start <= at
  BY StackTypes
<1>2. /\ Starts = Done \union (IF operand_start < at THEN {operand_start} ELSE {})
      /\ Tops \subseteq 1..(at - 1) /\ Done \subseteq 1..(at - 1)
      /\ \A p \in Tops \union Done : p < operand_start
  BY StartsAre
<1>3. /\ parse_states \in Seq(Ranges) /\ n \in Nat /\ DOMAIN parse_states = 1..n
      /\ \A k \in 1..n : parse_states[k] \in Ranges
                        /\ parse_states[k].from \in Nat /\ parse_states[k].to \in Nat
  <2>1. parse_states \in Seq(Ranges)
    BY DEF Types
  <2>2. /\ n \in Nat /\ DOMAIN parse_states = 1..n
        /\ \A k \in 1..n : parse_states[k] \in Ranges
    BY <2>1, SeqFacts
  <2> QED
    BY <2>1, <2>2 DEF Ranges
<1>4. froms \in Seq(Int) /\ Len(froms) = n /\ Lists(froms, Done)
  BY <1>3 DEF OperandsCut
<1>5. \A k \in 1..n :
        /\ parse_states[k].from < parse_states[k].to /\ parse_states[k].to \in Tops
        /\ \A p \in Tops : ~(parse_states[k].from <= p /\ p < parse_states[k].to)
  BY <1>3 DEF OperandsCut
<1>6. /\ Concluded \in Seq(Ranges) /\ m \in Nat /\ DOMAIN Concluded = 1..m
      /\ all \in Seq(Int) /\ Len(all) = m /\ Lists(all, Starts)
      /\ \A k \in 1..m :
           \/ k \in 1..n /\ Concluded[k] = parse_states[k]
           \/ operand_start < at /\ Concluded[k] = Span(operand_start, at)
  <2>1. CASE operand_start < at
    <3> DEFINE r == Span(operand_start, at)
    <3>1. r \in Ranges /\ r.from = operand_start
      BY <1>1 DEF Span, Ranges
    <3>2. Concluded = Append(parse_states, r) /\ Starts = Done \union {operand_start}
      BY <1>2, <2>1 DEF Concluded
    <3> HIDE DEF r
    <3>3. /\ Concluded \in Seq(Ranges) /\ m = n + 1 /\ DOMAIN Concluded = 1..(n + 1)
          /\ \A k \in 1..n : Concluded[k] = parse_states[k]
          /\ Concluded[n + 1] = r
      BY <1>3, <3>1, <3>2, AppendFacts
    <3>4. /\ Append(froms, operand_start) \in Seq(Int)
          /\ Lists(Append(froms, operand_start), Starts)
      <4>1. operand_start \in Int /\ \A p \in Done : p < operand_start
        BY <1>1, <1>2
      <4> HIDE DEF froms, Lists
      <4> QED
        BY <1>4, <3>2, <4>1, ListedAppend
    <3>5. all = Append(froms, operand_start)
      <4>1. Append(froms, operand_start) =
              [k \in 1..(n + 1) |-> IF k = n + 1 THEN operand_start ELSE froms[k]]
        BY <1>3, <1>4
      <4>2. \A k \in 1..(n + 1) :
              Concluded[k].from = IF k = n + 1 THEN operand_start ELSE froms[k]
        BY <1>3, <3>1, <3>3
      <4> QED
        BY <3>3, <4>1, <4>2
    <3>6. Lists(all, Starts) /\ all \in Seq(Int)
      BY <3>4, <3>5
    <3>7. Len(all) = n + 1
      BY <1>3, <3>3
    <3> QED
      BY <1>3, <2>1, <3>3, <3>6, <3>7 DEF r
  <2>2. CASE ~(operand_start < at)
    <3>1. Concluded = parse_states /\ Starts = Done
      BY <1>2, <2>2 DEF Concluded
    <3> QED
      BY <1>3, <1>4, <3>1
  <2> QED
    BY <2>1, <2>2
<1> HIDE DEF all, m
<1>7. InOrder(Starts) = all
  BY <1>6, ListedInOrder
<1>8. ASSUME NEW k \in 1..m
      PROVE  /\ Concluded[k].from < Concluded[k].to
             /\ Concluded[k] = Span(all[k], Min(upto(all[k])))
  <2>1. Concluded[k] \in Ranges /\ all[k] = Concluded[k].from
    BY <1>6, SeqFacts DEF all
  <2> DEFINE S == upto(all[k])
             to == Concluded[k].to
  <2>2. to \in Nat /\ all[k] \in Nat /\ Concluded[k] = Span(all[k], to)
    BY <2>1 DEF Ranges, Span
  <2>3. S \in SUBSET Int
    <3>1. S \subseteq Tops \union {at}
      OBVIOUS
    <3>2. Tops \union {at} \subseteq Int
      BY <1>1, <1>2
    <3> QED
      BY <3>1, <3>2, Zenon
  <2>4. to \in S /\ all[k] < to /\ \A q \in S : to <= q
    <3>1. CASE k \in 1..n /\ Concluded[k] = parse_states[k]
      <4>1. /\ all[k] < to /\ to \in Tops
            /\ \A p \in Tops : ~(all[k] <= p /\ p < to)
        BY <1>5, <2>1, <3>1
      <4>2. ASSUME NEW q \in S
            PROVE  to <= q
        <5>1. q \in Int /\ to \in Int /\ all[k] \in Int
          BY <2>2, <2>3
        <5>2. CASE q = at
          BY <1>1, <1>2, <4>1, <5>1, <5>2
        <5>3. CASE q \in Tops /\ q > all[k]
          BY <4>1, <5>1, <5>3
        <5> QED
          BY <5>2, <5>3
      <4> QED
        BY <4>1, <4>2
    <3>2. CASE operand_start < at /\ Concluded[k] = Span(operand_start, at)
      <4>1. all[k] = operand_start /\ to = at
        BY <2>1, <3>2 DEF Span
      <4>2. \A q \in S : q = at
        BY <1>1, <1>2, <4>1
      <4> QED
        BY <1>1, <3>2, <4>1, <4>2
    <3> QED
      BY <1>6, <3>1, <3>2
  <2> HIDE DEF S
  <2>5. Min(S) = to
    BY <2>3, <2>4, MinIs
  <2> QED
    BY <2>1, <2>2, <2>4, <2>5 DEF S
<1>9. OperandRanges(tokens, 1, at) = [k \in 1..m |-> Span(all[k], Min(upto(all[k])))]
  BY <1>6, <1>7 DEF OperandRanges, Starts, Tops
<1>10. Concluded = [k \in 1..m |-> Concluded[k]]
  BY <1>6, LenProperties
<1>11. Concluded = OperandRanges(tokens, 1, at)
  BY <1>8, <1>9, <1>10
<1> QED
  BY <1>6, <1>8, <1>11

ConcludedShape == IF operand_start < at THEN Append(epnis, "x") ELSE epnis

LEMMA ShapeConcluded ==
  ASSUME TypeOK, Types, OperandsCut, ShapeListed
  PROVE  /\ ConcludedShape = ScanShape(tokens, 1, at)
         /\ ConcludedShape \in Seq(Operators \union {"x"})
<1> DEFINE S == Tops \union Done
           e == ConcludedShape
<1>1. at \in Nat \ {0} /\ operand_start \in Nat \ {0} /\ operand_start <= at
  BY StackTypes
<1>2. /\ Starts = Done \union (IF operand_start < at THEN {operand_start} ELSE {})
      /\ S \subseteq 1..(at - 1)
      /\ \A p \in S : p < operand_start
  BY StartsAre
<1>3. Lists(InOrder(S), S) /\ epnis = ShapeOf(Tops, S)
  BY DEF ShapeListed, ShapeOf
<1>4. ScanShape(tokens, 1, at) = ShapeOf(Tops, Tops \union Starts)
  BY DEF ScanShape, ShapeOf, Tops, Starts
<1>5. epnis \in Seq(Operators \union {"x"})
  BY DEF Types
<1>6. CASE operand_start < at
  <2>1. e = Append(epnis, "x") /\ Tops \union Starts = S \union {operand_start}
    BY <1>2, <1>6 DEF ConcludedShape
  <2>2. operand_start \notin Tops
    BY <1>1, <1>2
  <2> DEFINE U == Tops
  <2>3. (IF operand_start \in U THEN tokens[operand_start] ELSE "x") = "x"
    BY <2>2
  <2>4. /\ S \in SUBSET (1..at) /\ operand_start \in Nat /\ at \in Nat
        /\ \A p \in S : p < operand_start
        /\ \A p \in S : p \in Tops <=> p \in U
    BY <1>1, <1>2
  <2>5. ShapeOf(Tops, S \union {operand_start}) = ShapeOf(U, S \union {operand_start})
    OBVIOUS
  <2> HIDE DEF S, Lists, ShapeOf, U
  <2>6. /\ Lists(InOrder(S \union {operand_start}), S \union {operand_start})
        /\ ShapeOf(U, S \union {operand_start}) = Append(ShapeOf(Tops, S), "x")
    <3>1. Lists(InOrder(S), S)
      BY <1>3
    <3>2. S \in SUBSET (1..at) /\ (\A p \in S : p < operand_start) /\ at \in Nat /\ operand_start \in Nat
      BY <2>4
    <3>3. \A p \in S : p \in Tops <=> p \in U
      BY <2>4
    <3>4. /\ Lists(InOrder(S \union {operand_start}), S \union {operand_start})
          /\ ShapeOf(U, S \union {operand_start}) =
               Append(ShapeOf(Tops, S), IF operand_start \in U THEN tokens[operand_start] ELSE "x")
      BY <3>1, <3>2, <3>3, ShapeGrows, ZenonT(60)
    <3> QED
      BY <2>3, <3>4
  <2>7. e \in Seq(Operators \union {"x"})
    BY <1>5, <2>1, AppendFacts
  <2> QED
    BY <1>3, <1>4, <2>1, <2>5, <2>6, <2>7
<1>7. CASE ~(operand_start < at)
  <2>1. e = epnis /\ Starts = Done
    BY <1>2, <1>7 DEF ConcludedShape
  <2> QED
    BY <1>3, <1>4, <1>5, <2>1
<1> QED
  BY <1>6, <1>7
LEMMA ConcludeKeeps ==
  ASSUME IInv, Conclude
  PROVE  IInv'
<1>1. /\ TypeOK /\ Types /\ Walking /\ HasEnded
      /\ StackIsOpen /\ OperandsCut /\ ShapeListed /\ NotEndedBefore
  BY DEF IInv, Conclude, Walking
<1>2. /\ UNCHANGED <<tokens, at, paren_stack, last_was_operator, last_ty,
                     entirely_wrapped_in_parens, operand_start>>
      /\ parse_states' = Concluded
      /\ epnis' = ConcludedShape
  BY DEF Conclude, Concluded, ConcludedShape
<1>3. /\ parse_states' = OperandRanges(tokens, 1, at)
      /\ parse_states' \in Seq(Ranges)
      /\ \A k \in DOMAIN parse_states' : parse_states'[k].from < parse_states'[k].to
  BY <1>1, <1>2, RangesConcluded
<1>4. epnis' = ScanShape(tokens, 1, at) /\ epnis' \in Seq(Operators \union {"x"})
  BY <1>1, <1>2, ShapeConcluded
<1>5. /\ at \in Nat \ {0} /\ Len(tokens) \in Nat /\ End = Len(tokens) + 1
      /\ at <= End /\ operand_start \in Nat \ {0} /\ operand_start <= at
      /\ D(at) = 0 <=> Top
  BY <1>1, StackTypes, SeqFacts DEF TypeOK, Types, End, StackIsOpen
<1>6. at = ScanEnd(tokens, 1, End)
  BY <1>1, ScanEndIs DEF HasEnded
<1>7. outcome' = "throws" <=> ~Top \/ parse_states' = <<>>
  BY DEF Conclude
<1>8. /\ outcome' \in Outcomes \ {"scanning", "end"}
      /\ outcome' \in {"wrapped", "unreachable: wrapped"} =>
           /\ Top /\ parse_states' # <<>> /\ entirely_wrapped_in_parens
           /\ outcome' = "unreachable: wrapped" => Len(parse_states') # 1
  BY DEF Conclude, Outcomes
<1>9. ~Mismatched(tokens, 1, at) \/ ~(at < End)
  <2>1. at < End => Top
    BY <1>1, <1>5 DEF HasEnded, Stops, D
  <2> QED
    BY <1>1, <2>1, MismatchedWhen
<1>10. ~(/\ at < End /\ tokens[at] \in Puncts \ Closers
         /\ at = 1 \/ at - 1 \in TopOperators(tokens, 1, at))
  <2>1. ASSUME at < End, tokens[at] \in Puncts \ Closers
        PROVE  ~(at = 1 \/ at - 1 \in Tops)
    <3>1. operand_start < at
      BY <1>1, <2>1 DEF HasEnded
    <3> QED
      BY <1>1, <1>5, <3>1, StartsAre
  <2> QED
    BY <2>1 DEF Tops
<1>11. outcome' = "throws" <=> ScanThrows(tokens, 1, End, at)
  <2>1. at # End => Top
    BY <1>1, <1>5 DEF HasEnded, Stops, D
  <2> QED
    BY <1>3, <1>5, <1>7, <1>9, <1>10, <2>1 DEF ScanThrows, D
<1>12. MatchesScanResult'
  BY <1>1, <1>2, <1>3, <1>4, <1>6, <1>11 DEF MatchesScanResult, Accepted, End, HasEnded
<1>13. ASSUME Top, parse_states' # <<>>, entirely_wrapped_in_parens
       PROVE  /\ Len(parse_states') = 1 /\ parse_states'[1] = Span(1, at) /\ at >= 3
              /\ tokens[1] = "(" /\ tokens[at - 1] = ")"
  <2>1. OnlyParens
    BY <1>1, <1>13 DEF Walking
  <2>2. Tops = {}
    <3>1. ASSUME NEW p \in Tops
          PROVE  FALSE
      <4>1. p \in 1..(at - 1) /\ tokens[p] \in Operators /\ D(p) = 0
        BY DEF Tops, TopOperators, D
      <4>2. tokens[p] = "("
        BY <2>1, <4>1 DEF OnlyParens
      <4> QED
        BY <4>1, <4>2 DEF Operators
    <3> QED
      BY <3>1
  <2>3. operand_start = 1 /\ DOMAIN parse_states = {}
    BY <1>1, <2>2 DEF OperandsCut
  <2>4. parse_states = <<>>
    BY <1>1, <2>3, SeqFacts DEF Types
  <2>5. 1 < at /\ parse_states' = <<Span(1, at)>>
    BY <1>2, <1>13, <2>3, <2>4 DEF Concluded
  <2> DEFINE r == Span(1, at)
  <2> HIDE DEF r
  <2>6. parse_states' = <<r>>
    BY <2>5 DEF r
  <2>7. Len(parse_states') = 1 /\ parse_states'[1] = r
    BY <2>6
  <2>8. tokens[1] = "("
    <3>1. D(1) = 0
      BY DepthStep DEF D
    <3> QED
      BY <1>5, <2>1, <2>5, <3>1 DEF OnlyParens
  <2>9. tokens[at - 1] = ")"
    BY <1>1, <1>13, <2>5 DEF Walking
  <2>10. at # 2
    BY <2>8, <2>9
  <2> QED
    BY <1>5, <2>5, <2>8, <2>9, <2>10, <2>7 DEF r
<1>14. WrappedCanBeStripped'
  <2>1. ASSUME outcome' \in {"wrapped", "unreachable: wrapped"}
        PROVE  /\ Len(parse_states') = 1 /\ parse_states'[1] = Span(1, at)
               /\ at >= 3 /\ tokens[1] = "(" /\ tokens[at - 1] = ")"
    BY <1>8, <1>13, <2>1
  <2>2. Span(1, at).from = 1 /\ Span(1, at).to = at
    BY DEF Span
  <2>3. outcome' # "unreachable: wrapped"
    BY <1>8, <2>1
  <2>4. ASSUME outcome' = "wrapped"
        PROVE  /\ parse_states'[1].to - parse_states'[1].from >= 2
               /\ tokens'[parse_states'[1].from] = "("
               /\ tokens'[parse_states'[1].to - 1] = ")"
    <3>1. parse_states'[1].from = 1 /\ parse_states'[1].to = at
      BY <2>1, <2>2, <2>4
    <3> QED
      BY <1>2, <1>5, <2>1, <2>4, <3>1
  <2> QED
    BY <2>3, <2>4 DEF WrappedCanBeStripped
<1>15. TypeOK' /\ Types'
  BY <1>1, <1>2, <1>3, <1>4, <1>8 DEF TypeOK, Types
<1> QED
  BY <1>8, <1>12, <1>14, <1>15 DEF IInv

-----------------------------------------------------------------------------
LEMMA InitInv == Init => IInv
<1> SUFFICES ASSUME Init PROVE IInv
  OBVIOUS
<1>1. /\ tokens \in Seq(TokenType) /\ Len(tokens) \in Nat
  <2>1. PICK m \in 0..MaxLen : tokens \in [1..m -> TokenType]
    BY DEF Init, BoundedSeq, SeqOf
  <2> QED
    BY <2>1, MaxLenAssumption
<1>2. /\ at = 1 /\ paren_stack = <<>> /\ last_was_operator = TRUE /\ last_ty = "invalid"
      /\ entirely_wrapped_in_parens = TRUE /\ operand_start = 1
      /\ parse_states = <<>> /\ epnis = <<>> /\ outcome = "scanning"
  BY DEF Init
<1>3. TypeOK /\ Types
  BY <1>1, <1>2 DEF TypeOK, Types, Outcomes
<1>4. D(at) = 0
  BY <1>2, DepthStep DEF D
<1>5. StackIsOpen /\ NotEndedBefore /\ OnlyParens
  BY <1>2, <1>4 DEF StackIsOpen, NotEndedBefore, OnlyParens
<1>6. Tops = {} /\ Done = {}
  BY <1>2 DEF Tops, TopOperators, Done, Starts, FirstTokens
<1>7. OperandsCut
  <2>1. DOMAIN parse_states = {} /\ Len([k \in DOMAIN parse_states |-> parse_states[k].from]) = 0
    BY <1>2
  <2>2. Lists([k \in DOMAIN parse_states |-> parse_states[k].from], Done)
    BY <1>6, <2>1 DEF Lists
  <2> QED
    BY <1>2, <1>6, <2>1, <2>2 DEF OperandsCut
<1>8. InOrder({}) = <<>> /\ Lists(<<>>, {})
  <2>1. Lists(<<>>, {}) /\ <<>> \in Seq(Int)
    BY DEF Lists
  <2> QED
    BY <2>1, ListedInOrder
<1>9. ShapeListed
  BY <1>2, <1>6, <1>8 DEF ShapeListed
<1>10. Walking /\ GoesOn
  BY <1>2, <1>5, <1>7, <1>9 DEF Walking, GoesOn, Top
<1> QED
  BY <1>2, <1>3, <1>10 DEF IInv, WrappedCanBeStripped, MatchesScanResult, Ended

LEMMA NextInv == IInv /\ [Next]_vars => IInv'
<1>1. ASSUME IInv, UNCHANGED vars
      PROVE  IInv'
  <2>1. UNCHANGED <<tokens, at, paren_stack, last_was_operator, last_ty, outcome,
                    entirely_wrapped_in_parens, operand_start, parse_states, epnis>>
    BY <1>1 DEF vars
  <2>2. TypeOK' /\ Types' /\ WrappedCanBeStripped'
    BY <1>1, <2>1 DEF IInv, TypeOK, Types, WrappedCanBeStripped
  <2>3. MatchesScanResult'
    BY <1>1, <2>1 DEF IInv, MatchesScanResult, Ended, Accepted
  <2>4. (OnlyParens' <=> OnlyParens) /\ Tops' = Tops /\ Done' = Done
    BY <2>1 DEF OnlyParens, D, Tops, Done, Starts
  <2>5. Walking => StackIsOpen' /\ NotEndedBefore' /\ OperandsCut' /\ ShapeListed'
    BY <2>1, <2>4 DEF Walking, StackIsOpen, D, NotEndedBefore, OperandsCut, ShapeListed
  <2>6. Walking => Walking'
    BY <2>1, <2>4, <2>5 DEF Walking, Top
  <2>7. (GoesOn => GoesOn') /\ (HasEnded => HasEnded')
    BY <2>1, <2>4 DEF GoesOn, HasEnded, End
  <2> QED
    BY <1>1, <2>1, <2>2, <2>3, <2>6, <2>7 DEF IInv
<1> QED
  BY <1>1, PushParenKeeps, PopParenKeeps, SplitAtOperatorKeeps, PartOfOperandKeeps,
     LeavingKeeps, ConcludeKeeps DEF Next

LEMMA Invariance == Spec => []IInv
  BY InitInv, NextInv, PTL DEF Spec

-----------------------------------------------------------------------------
(* For expressions of every length, the loop keeps its counters in bounds, *)
(* and no operand that it cuts is empty.                                   *)
THEOREM ScanTypeOK == Spec => []TypeOK
<1>1. IInv => TypeOK
  BY DEF IInv
<1> QED
  BY <1>1, Invariance, PTL

(* The brackets of an expression that is stripped of them are a matching   *)
(* pair around one operand, so that the two errors behind it in            *)
(* parser::parseExpression cannot happen for it.                           *)
THEOREM ScanStripsParens == Spec => []WrappedCanBeStripped
<1>1. IInv => WrappedCanBeStripped
  BY DEF IInv
<1> QED
  BY <1>1, Invariance, PTL

(* The loop of parser::parseExpression and the closed form that module     *)
(* Parser uses in its place agree on every list of tokens.                 *)
THEOREM ScanMatchesClosedForm == Spec => []MatchesScanResult
<1>1. IInv => MatchesScanResult
  BY DEF IInv
<1> QED
  BY <1>1, Invariance, PTL
=============================================================================
