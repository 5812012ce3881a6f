---------------------------- MODULE ParserProofs ----------------------------
(***************************************************************************)
(* What the parser keeps for every token sequence: its iterators stay      *)
(* nested in the token vector, each error it throws is caught, each block  *)
(* has its end if the braces of the file match, and one node is left.      *)
(*                                                                         *)
(* The invariant behind it, IInv, says of the control stack `todo` that    *)
(* there are heights h and g for each instruction, the ParseStates and the *)
(* nodes that are there when it is reached, which every instruction changes*)
(* as it should (Heights); that behind whatever throws there is a catch,   *)
(* which was entered with no more of both than are there now; and that the *)
(* ranges still to be entered lie in front of what their ParseState has    *)
(* left.  Of each ParseState it says that the braces in it never close     *)
(* more than they opened, counted from its end (LevelOn).                  *)
(***************************************************************************)
EXTENDS Parser, FunctionTheorems, SequenceTheorems, FiniteSetTheorems, TLAPS

(* s lists the numbers of S from the smallest to the greatest.             *)
Lists(s, S) ==
  /\ \A i, j \in 1..Len(s) : i < j => s[i] < s[j]
  /\ S = {s[i] : i \in 1..Len(s)}

Ranges == [from : Nat, to : Nat]
States == [at : Nat, to : Nat]

-----------------------------------------------------------------------------
(* Induction over the natural numbers, for a set of them.                  *)
LEMMA Induction ==
  ASSUME NEW S, 0 \in S, \A n \in Nat : n \in S => n + 1 \in S
  PROVE  Nat \subseteq S
<1> SUFFICES ASSUME NEW m \in Nat, m \notin S
             PROVE  FALSE
  OBVIOUS
<1> DEFINE U == (0..m) \ S
           f == [x \in U |-> x - 1]
<1>1. IsFiniteSet(U) /\ m \in U
  <2>1. IsFiniteSet(0..m) /\ U \subseteq 0..m /\ m \in 0..m
    BY FS_Interval
  <2> QED
    BY <2>1, FS_Subset
<1>2. ASSUME NEW x \in U
      PROVE  x - 1 \in U \ {m} /\ x \in Nat
  <2>1. x \in 0..m /\ x # 0
    OBVIOUS
  <2>2. x - 1 \in Nat /\ x - 1 \in 0..m /\ x - 1 # m
    BY <2>1
  <2>3. x - 1 \notin S
    BY <2>1, <2>2
  <2> QED
    BY <2>1, <2>2, <2>3
<1>3. f \in [U -> U \ {m}]
  BY <1>2
<1>4. \A x, y \in U : f[x] = f[y] => x = y
  BY <1>2
<1> HIDE DEF U, f
<1>5. f \in Injection(U, U \ {m})
  BY <1>3, <1>4 DEF Injection, IsInjective
<1>6. Cardinality(U) <= Cardinality(U \ {m})
  BY <1>1, <1>5, FS_RemoveElement, FS_Injection
<1>7. Cardinality(U) \in Nat /\ Cardinality(U \ {m}) = Cardinality(U) - 1
  BY <1>1, FS_CardinalityType, FS_RemoveElement
<1> QED
  BY <1>6, <1>7

LEMMA MinIs ==
  ASSUME NEW S \in SUBSET Int, NEW m \in S, \A x \in S : m <= x
  PROVE  Min(S) = m
<1>1. ASSUME NEW y \in S, \A x \in S : y <= x
      PROVE  y = m
  <2>1. y \in Int /\ m \in Int /\ y <= m /\ m <= y
    BY <1>1
  <2> QED
    BY <2>1
<1> QED
  BY <1>1 DEF Min

LEMMA MaxIs ==
  ASSUME NEW S \in SUBSET Int, NEW m \in S, \A x \in S : x <= m
  PROVE  Max(S) = m
<1>1. ASSUME NEW y \in S, \A x \in S : y >= x
      PROVE  y = m
  <2>1. y \in Int /\ m \in Int /\ y >= m /\ m >= y
    BY <1>1
  <2> QED
    BY <2>1
<1>2. \A x \in S : m >= x
  OBVIOUS
<1> QED
  BY <1>1, <1>2 DEF Max

(* A set of integers that is bounded below has a least member.             *)
LEMMA LeastOf ==
  ASSUME NEW S \in SUBSET Int, S # {}, NEW a \in Int, \A x \in S : a <= x
  PROVE  Min(S) \in S /\ \A x \in S : Min(S) <= x
<1>1. \E m \in S : \A x \in S : m <= x
  <2> SUFFICES ASSUME \A m \in S : \E x \in S : x < m
               PROVE  FALSE
    OBVIOUS
  <2> DEFINE T == {n \in Nat : \A x \in S : a + n <= x}
  <2>1. 0 \in T
    OBVIOUS
  <2>2. ASSUME NEW n \in Nat, n \in T
        PROVE  n + 1 \in T
    <3>1. a + n \notin S
      BY <2>2
    <3>2. ASSUME NEW x \in S
          PROVE  a + (n + 1) <= x
      <4>1. x \in Int /\ a + n <= x /\ x # a + n
        BY <2>2, <3>1
      <4> QED
        BY <4>1
    <3> QED
      BY <3>2
  <2> HIDE DEF T
  <2>3. Nat \subseteq T
    BY <2>1, <2>2, Induction
  <2>4. PICK x \in S : TRUE
    OBVIOUS
  <2>5. x \in Int /\ a <= x /\ x - a + 1 \in Nat
    OBVIOUS
  <2>6. a + (x - a + 1) <= x
    BY <2>3, <2>5 DEF T
  <2> QED
    BY <2>5, <2>6
<1>2. PICK m \in S : \A x \in S : m <= x
  BY <1>1
<1>3. Min(S) = m
  BY <1>2, MinIs
<1> QED
  BY <1>2, <1>3

LEMMA CountListed ==
  ASSUME NEW s \in Seq(Int), NEW n \in 0..Len(s),
         \A i, j \in 1..Len(s) : i < j => s[i] < s[j]
  PROVE  /\ IsFiniteSet({s[i] : i \in 1..n})
         /\ Cardinality({s[i] : i \in 1..n}) = n
<1> DEFINE T == {s[i] : i \in 1..n}
           f == [i \in 1..n |-> s[i]]
<1>1. n \in Nat /\ 1..n \subseteq 1..Len(s) /\ \A i \in 1..Len(s) : s[i] \in Int
  BY ElementOfSeq
<1>2. f \in [1..n -> T]
  OBVIOUS
<1>3. \A i, j \in 1..n : f[i] = f[j] => i = j
  BY <1>1
<1>4. \A x \in T : \E i \in 1..n : f[i] = x
  OBVIOUS
<1> HIDE DEF f, T
<1>5. f \in Bijection(1..n, T)
  BY <1>2, <1>3, <1>4, Fun_IsBij
<1>6. ExistsBijection(1..n, T)
  BY <1>5, Fun_ExistsBij
<1>7. IsFiniteSet(T) /\ Cardinality(T) = n
  BY <1>1, <1>6, FS_NatBijection, FS_CountingElements
<1> QED
  BY <1>7 DEF T

(* A set of numbers has one list in ascending order.                       *)
LEMMA ListedInOrder ==
  ASSUME NEW s \in Seq(Int), NEW S, Lists(s, S)
  PROVE  InOrder(S) = s /\ Cardinality(S) = Len(s)
<1>1. /\ Len(s) \in Nat /\ s \in [1..Len(s) -> Int]
      /\ \A i, j \in 1..Len(s) : i < j => s[i] < s[j]
      /\ S = {s[i] : i \in 1..Len(s)}
  BY LenProperties DEF Lists
<1>2. Cardinality(S) = Len(s)
  <2>1. Len(s) \in 0..Len(s)
    BY <1>1
  <2> QED
    BY <1>1, <2>1, CountListed
<1>3. ASSUME NEW k \in 1..Len(s)
      PROVE  Cardinality({q \in S : q < s[k]}) = k - 1
  <2>1. {q \in S : q < s[k]} = {s[i] : i \in 1..(k - 1)}
    BY <1>1
  <2>2. k - 1 \in 0..Len(s)
    BY <1>1
  <2> QED
    BY <1>1, <2>1, <2>2, CountListed
<1>4. ASSUME NEW k \in 1..Len(s)
      PROVE  (CHOOSE p \in S : Cardinality({q \in S : q < p}) = k - 1) = s[k]
  <2>1. s[k] \in S /\ Cardinality({q \in S : q < s[k]}) = k - 1
    BY <1>1, <1>3
  <2>2. ASSUME NEW p \in S, Cardinality({q \in S : q < p}) = k - 1
        PROVE  p = s[k]
    <3>1. PICK j \in 1..Len(s) : p = s[j]
      BY <1>1
    <3>2. j - 1 = k - 1
      BY <1>3, <2>2, <3>1
    <3> QED
      BY <1>1, <3>1, <3>2
  <2> QED
    BY <2>1, <2>2
<1>5. InOrder(S) = [k \in 1..Len(s) |-> s[k]]
  BY <1>2, <1>4 DEF InOrder
<1> QED
  BY <1>1, <1>2, <1>5

(* The list of a set grows at its end with a number above all of them.     *)
LEMMA ListedAppend ==
  ASSUME NEW s \in Seq(Int), NEW S, Lists(s, S),
         NEW m \in Int, \A p \in S : p < m
  PROVE  Append(s, m) \in Seq(Int) /\ Lists(Append(s, m), S \union {m})
<1> DEFINE u == Append(s, m)
<1>1. /\ u \in Seq(Int) /\ Len(u) = Len(s) + 1 /\ Len(s) \in Nat
      /\ \A i \in 1..Len(s) : u[i] = s[i]
      /\ u[Len(s) + 1] = m
  BY AppendProperties
<1>2. /\ \A i, j \in 1..Len(s) : i < j => s[i] < s[j]
      /\ S = {s[i] : i \in 1..Len(s)}
  BY DEF Lists
<1> HIDE DEF u
<1>3. ASSUME NEW i \in 1..Len(u), NEW j \in 1..Len(u), i < j
      PROVE  u[i] < u[j]
  <2>1. i \in 1..Len(s) /\ u[i] = s[i] /\ s[i] \in S
    BY <1>1, <1>2, <1>3
  <2>2. CASE j = Len(s) + 1
    BY <1>1, <2>1, <2>2
  <2>3. CASE j # Len(s) + 1
    <3>1. j \in 1..Len(s) /\ u[j] = s[j]
      BY <1>1, <2>3
    <3> QED
      BY <1>2, <1>3, <2>1, <3>1
  <2> QED
    BY <2>2, <2>3
<1>4. S \union {m} = {u[i] : i \in 1..Len(u)}
  BY <1>1, <1>2, SMTT(30)
<1>5. u \in Seq(Int) /\ Lists(u, S \union {m})
  BY <1>1, <1>3, <1>4 DEF Lists
<1> QED
  BY <1>5 DEF u

(* Every finite set of numbers has a list.                                 *)
LEMMA InOrderLists ==
  ASSUME NEW a \in Int, NEW b \in Int, NEW S \in SUBSET (a..b)
  PROVE  /\ InOrder(S) \in Seq(Int) /\ Lists(InOrder(S), S)
         /\ Len(InOrder(S)) = Cardinality(S)
<1> DEFINE T == {n \in Nat : \A U \in SUBSET (a..(a + n - 1)) :
                               \E s \in Seq(Int) : Lists(s, U)}
<1>1. 0 \in T
  <2>1. \A U \in SUBSET (a..(a + 0 - 1)) : U = {}
    OBVIOUS
  <2>2. <<>> \in Seq(Int) /\ Lists(<<>>, {})
    BY EmptySeq DEF Lists
  <2> QED
    BY <2>1, <2>2
<1>2. ASSUME NEW n \in Nat, n \in T
      PROVE  n + 1 \in T
  <2>1. ASSUME NEW U \in SUBSET (a..(a + (n + 1) - 1))
        PROVE  \E s \in Seq(Int) : Lists(s, U)
    <3> DEFINE W == U \ {a + n}
    <3>1. W \in SUBSET (a..(a + n - 1)) /\ \A p \in W : p < a + n
      OBVIOUS
    <3>2. PICK s \in Seq(Int) : Lists(s, W)
      BY <1>2, <3>1
    <3>3. CASE a + n \in U
      <4>1. U = W \union {a + n}
        BY <3>3
      <4> HIDE DEF W
      <4>2. a + n \in Int /\ \A p \in W : p < a + n
        BY <3>1
      <4>3. Append(s, a + n) \in Seq(Int) /\ Lists(Append(s, a + n), W \union {a + n})
        BY <3>2, <4>2, ListedAppend
      <4> QED
        BY <4>1, <4>3
    <3>4. CASE a + n \notin U
      BY <3>2, <3>4
    <3> QED
      BY <3>3, <3>4
  <2>2. n + 1 \in Nat
    OBVIOUS
  <2> QED
    BY ONLY <2>1, <2>2
<1> HIDE DEF T
<1>3. Nat \subseteq T
  BY <1>1, <1>2, Induction
<1>4. \E n \in Nat : a..b \subseteq a..(a + n - 1)
  <2>1. CASE a <= b
    <3>1. b - a + 1 \in Nat /\ a..b \subseteq a..(a + (b - a + 1) - 1)
      BY <2>1
    <3> QED
      BY <3>1
  <2>2. CASE b < a
    <3>1. a..b \subseteq a..(a + 0 - 1)
      BY <2>2
    <3> QED
      BY <3>1
  <2> QED
    BY <2>1, <2>2
<1>5. PICK n \in Nat : S \in SUBSET (a..(a + n - 1))
  BY <1>4
<1>6. PICK s \in Seq(Int) : Lists(s, S)
  BY <1>3, <1>5 DEF T
<1>7. InOrder(S) = s /\ Cardinality(S) = Len(s)
  BY <1>6, ListedInOrder
<1> QED
  BY <1>6, <1>7

-----------------------------------------------------------------------------
(* The tokens of the types S in front of p.                                *)
Tokens(t, S, from, p) == Cardinality({q \in from..(p - 1) : t[q] \in S})

LEMMA CountStep ==
  ASSUME NEW t, NEW S, NEW a \in Int, NEW p \in Int, a <= p
  PROVE  /\ Tokens(t, S, a, a) = 0 /\ Tokens(t, S, a, p) \in Nat
         /\ t[p] \in S => Tokens(t, S, a, p + 1) = Tokens(t, S, a, p) + 1
         /\ t[p] \notin S => Tokens(t, S, a, p + 1) = Tokens(t, S, a, p)
<1> DEFINE before == {q \in a..(p - 1) : t[q] \in S}
           upto   == {q \in a..((p + 1) - 1) : t[q] \in S}
<1>1. IsFiniteSet(a..(p - 1))
  BY FS_Interval
<1>2. IsFiniteSet(before)
  BY <1>1, FS_Subset
<1>3. Cardinality(before) \in Nat
  BY <1>2, FS_CardinalityType
<1>4. upto = IF t[p] \in S THEN before \union {p} ELSE before
  OBVIOUS
<1>5. p \notin before
  OBVIOUS
<1>6. {q \in a..(a - 1) : t[q] \in S} = {}
  OBVIOUS
<1>7. Tokens(t, S, a, a) = 0
  BY <1>6, FS_EmptySet DEF Tokens
<1>8. Tokens(t, S, a, p) = Cardinality(before) /\ Tokens(t, S, a, p + 1) = Cardinality(upto)
  BY DEF Tokens
<1> HIDE DEF before, upto
<1>9. Cardinality(before \union {p}) = Cardinality(before) + 1
  BY <1>2, <1>5, FS_AddElement
<1> QED
  BY <1>3, <1>4, <1>7, <1>8, <1>9

LEMMA DepthStep ==
  ASSUME NEW t, NEW a \in Int, NEW p \in Int, a <= p
  PROVE  /\ Depth(t, a, a) = 0 /\ Depth(t, a, p) \in Int
         /\ t[p] \in Openers => Depth(t, a, p + 1) = Depth(t, a, p) + 1
         /\ t[p] \in Closers => Depth(t, a, p + 1) = Depth(t, a, p) - 1
         /\ t[p] \notin Openers \union Closers => Depth(t, a, p + 1) = Depth(t, a, p)
<1>1. \A q : Depth(t, a, q) = Tokens(t, Openers, a, q) - Tokens(t, Closers, a, q)
  BY DEF Depth, Tokens
<1>2. ASSUME NEW S
      PROVE  /\ Tokens(t, S, a, a) = 0 /\ Tokens(t, S, a, p) \in Nat
             /\ t[p] \in S => Tokens(t, S, a, p + 1) = Tokens(t, S, a, p) + 1
             /\ t[p] \notin S => Tokens(t, S, a, p + 1) = Tokens(t, S, a, p)
  BY CountStep
<1>3. ~(t[p] \in Openers /\ t[p] \in Closers)
  BY DEF Openers, Closers
<1> QED
  BY <1>1, <1>2, <1>3

LEMMA DepthIs ==
  ASSUME NEW t, NEW a \in Int
  PROVE  Depth(t, a, a) = 0 /\ \A p \in Int : a <= p => Depth(t, a, p) \in Int
<1>1. ASSUME NEW p \in Int, a <= p
      PROVE  Depth(t, a, a) = 0 /\ Depth(t, a, p) \in Int
  BY <1>1, DepthStep
<1>2. a <= a
  OBVIOUS
<1> QED
  BY <1>1, <1>2

OpeningBrace == {"{"}
ClosingBrace == {"}"}

(* Braces opened and not closed before p.                                  *)
Braces(t, from, p) == Tokens(t, OpeningBrace, from, p) - Tokens(t, ClosingBrace, from, p)

LEMMA BracesStep ==
  ASSUME NEW t, NEW a \in Int, NEW p \in Int, a <= p
  PROVE  /\ Braces(t, a, a) = 0 /\ Braces(t, a, p) \in Int
         /\ t[p] \in OpeningBrace => Braces(t, a, p + 1) = Braces(t, a, p) + 1
         /\ t[p] \in ClosingBrace => Braces(t, a, p + 1) = Braces(t, a, p) - 1
         /\ t[p] \notin OpeningBrace \union ClosingBrace => Braces(t, a, p + 1) = Braces(t, a, p)
<1>1. \A q : Braces(t, a, q) = Tokens(t, OpeningBrace, a, q) - Tokens(t, ClosingBrace, a, q)
  BY DEF Braces
<1>2. ASSUME NEW S
      PROVE  /\ Tokens(t, S, a, a) = 0 /\ Tokens(t, S, a, p) \in Nat
             /\ t[p] \in S => Tokens(t, S, a, p + 1) = Tokens(t, S, a, p) + 1
             /\ t[p] \notin S => Tokens(t, S, a, p + 1) = Tokens(t, S, a, p)
  BY CountStep
<1>3. ~(t[p] \in OpeningBrace /\ t[p] \in ClosingBrace)
  BY DEF OpeningBrace, ClosingBrace
<1> QED
  BY <1>1, <1>2, <1>3

LEMMA BracesIs ==
  ASSUME NEW t, NEW a \in Int
  PROVE  Braces(t, a, a) = 0 /\ \A p \in Int : a <= p => Braces(t, a, p) \in Int
<1>1. ASSUME NEW p \in Int, a <= p
      PROVE  Braces(t, a, a) = 0 /\ Braces(t, a, p) \in Int
  BY <1>1, BracesStep
<1>2. a <= a
  OBVIOUS
<1> QED
  BY <1>1, <1>2

(* Braces are counted from where one likes.                                *)
LEMMA BracesFrom ==
  ASSUME NEW t, NEW a \in Int, NEW b \in Int, NEW p \in Int, a <= b, b <= p
  PROVE  Braces(t, a, p) = Braces(t, a, b) + Braces(t, b, p)
<1> DEFINE T == {n \in Nat : Braces(t, a, b + n) = Braces(t, a, b) + Braces(t, b, b + n)}
<1>1. 0 \in T
  <2>1. Braces(t, b, b) = 0 /\ Braces(t, a, b) \in Int /\ b + 0 = b
    BY BracesIs
  <2> QED
    BY <2>1
<1>2. ASSUME NEW n \in Nat, n \in T
      PROVE  n + 1 \in T
  <2> DEFINE q == b + n
  <2>1. q \in Int /\ a <= q /\ b <= q /\ b + (n + 1) = q + 1 /\ n + 1 \in Nat
    OBVIOUS
  <2>2. Braces(t, a, q) = Braces(t, a, b) + Braces(t, b, q)
    BY <1>2
  <2> HIDE DEF q
  <2>3. Braces(t, a, q) \in Int /\ Braces(t, b, q) \in Int /\ Braces(t, a, b) \in Int
    BY <2>1, BracesIs
  <2>4. ASSUME NEW c \in {a, b}
        PROVE  /\ t[q] \in OpeningBrace => Braces(t, c, q + 1) = Braces(t, c, q) + 1
               /\ t[q] \in ClosingBrace => Braces(t, c, q + 1) = Braces(t, c, q) - 1
               /\ t[q] \notin OpeningBrace \union ClosingBrace =>
                    Braces(t, c, q + 1) = Braces(t, c, q)
    <3>1. c \in Int /\ c <= q
      BY <2>1
    <3> QED
      BY <2>1, <3>1, BracesStep
  <2>5. \/ \A c \in {a, b} : Braces(t, c, q + 1) = Braces(t, c, q) + 1
        \/ \A c \in {a, b} : Braces(t, c, q + 1) = Braces(t, c, q) - 1
        \/ \A c \in {a, b} : Braces(t, c, q + 1) = Braces(t, c, q)
    BY <2>4
  <2>6. Braces(t, a, q + 1) = Braces(t, a, b) + Braces(t, b, q + 1)
    BY <2>2, <2>3, <2>5
  <2> QED
    BY <2>1, <2>6
<1> HIDE DEF T
<1>3. p - b \in T
  <2>1. p - b \in Nat
    OBVIOUS
  <2> QED
    BY <1>1, <1>2, <2>1, Induction
<1>4. b + (p - b) = p
  OBVIOUS
<1> QED
  BY <1>3, <1>4 DEF T

-----------------------------------------------------------------------------
(* As long as no closing token comes too early or closes the wrong one,    *)
(* the brackets up to p are properly nested.                               *)
NothingWrong(t, a, end) ==
  \A p \in a..(end - 1) :
    ~Mismatched(t, a, p) /\ ~(Depth(t, a, p) = 0 /\ t[p] \in Closers)

(* The brackets that are open before p.                                    *)
Open(t, a, p) ==
  {q \in a..(p - 1) : t[q] \in Openers
                        /\ \A r \in (q + 1)..p : Depth(t, a, r) > Depth(t, a, q)}
OpenBraces(t, a, p) == {q \in Open(t, a, p) : t[q] \in OpeningBrace}

Nested(t, a, p) ==
  /\ \A q \in a..p : Depth(t, a, q) >= 0
  /\ \A k \in 0..(Depth(t, a, p) - 1) : \E q \in Open(t, a, p) : Depth(t, a, q) = k
  /\ IsFiniteSet(OpenBraces(t, a, p))
  /\ Cardinality(OpenBraces(t, a, p)) = Braces(t, a, p)
  /\ \A q \in a..(p - 1) : t[q] \in ClosingBrace =>
       \E r \in a..(q - 1) : t[r] \in OpeningBrace /\ Depth(t, a, r) = Depth(t, a, q) - 1

LEMMA OpenFacts ==
  ASSUME NEW t, NEW a \in Int, NEW p \in Int
  PROVE  /\ Open(t, a, p) \subseteq a..(p - 1) /\ OpenBraces(t, a, p) \subseteq Open(t, a, p)
         /\ p \notin Open(t, a, p)
<1>1. Open(t, a, p) \subseteq a..(p - 1)
  BY DEF Open
<1>2. p \notin a..(p - 1)
  OBVIOUS
<1>3. OpenBraces(t, a, p) \subseteq Open(t, a, p)
  BY DEF OpenBraces
<1> QED
  BY <1>1, <1>2, <1>3

LEMMA OpenGrows ==
  ASSUME NEW t, NEW a \in Int, NEW p \in Int, a <= p, t[p] \in Openers
  PROVE  Open(t, a, p + 1) = Open(t, a, p) \union {p}
<1> DEFINE D(q) == Depth(t, a, q)
<1>1. \A q \in a..p : D(q) \in Int
  BY DepthStep
<1>2. D(p + 1) = D(p) + 1
  BY DepthStep
<1>3. (p + 1) - 1 = p /\ p \in Int
  OBVIOUS
<1> HIDE DEF D
<1>4. ASSUME NEW q \in a..(p - 1)
      PROVE  (\A r \in (q + 1)..(p + 1) : D(r) > D(q)) <=> (\A r \in (q + 1)..p : D(r) > D(q))
  <2>1. ASSUME \A r \in (q + 1)..p : D(r) > D(q), NEW r \in (q + 1)..(p + 1)
        PROVE  D(r) > D(q)
    <3>1. CASE r = p + 1
      <4>1. D(p) > D(q) /\ D(p) \in Int /\ D(q) \in Int
        BY <1>1, <2>1
      <4> QED
        BY <1>2, <3>1, <4>1
    <3>2. CASE r # p + 1
      BY <2>1, <3>2
    <3> QED
      BY <3>1, <3>2
  <2> QED
    BY <2>1
<1>5. \A r \in (p + 1)..(p + 1) : D(r) > D(p)
  BY <1>1, <1>2
<1>6. Open(t, a, p + 1) =
        {q \in a..p : t[q] \in Openers /\ \A r \in (q + 1)..(p + 1) : D(r) > D(q)}
  BY <1>3 DEF Open, D
<1>7. Open(t, a, p) =
        {q \in a..(p - 1) : t[q] \in Openers /\ \A r \in (q + 1)..p : D(r) > D(q)}
  BY DEF Open, D
<1>8. ASSUME NEW q
      PROVE  q \in Open(t, a, p + 1) <=> q \in Open(t, a, p) \union {p}
  <2>1. CASE q = p
    BY <1>5, <1>6, <2>1
  <2>2. CASE q # p
    <3>1. q \in a..p <=> q \in a..(p - 1)
      BY <2>2
    <3> QED
      BY <1>4, <1>6, <1>7, <2>2, <3>1
  <2> QED
    BY <2>1, <2>2
<1> QED
  BY <1>8

LEMMA OpenStays ==
  ASSUME NEW t, NEW a \in Int, NEW p \in Int, a <= p, t[p] \notin Openers \union Closers
  PROVE  Open(t, a, p + 1) = Open(t, a, p)
<1> DEFINE D(q) == Depth(t, a, q)
<1>1. D(p + 1) = D(p)
  BY DepthStep
<1>2. (p + 1) - 1 = p /\ p \in Int
  OBVIOUS
<1> HIDE DEF D
<1>3. ASSUME NEW q \in a..(p - 1)
      PROVE  (\A r \in (q + 1)..(p + 1) : D(r) > D(q)) <=> (\A r \in (q + 1)..p : D(r) > D(q))
  <2>1. (q + 1)..(p + 1) = ((q + 1)..p) \union {p + 1} /\ p \in (q + 1)..p
    OBVIOUS
  <2> QED
    BY <1>1, <2>1
<1>4. Open(t, a, p + 1) =
        {q \in a..p : t[q] \in Openers /\ \A r \in (q + 1)..(p + 1) : D(r) > D(q)}
  BY <1>2 DEF Open, D
<1>5. Open(t, a, p) =
        {q \in a..(p - 1) : t[q] \in Openers /\ \A r \in (q + 1)..p : D(r) > D(q)}
  BY DEF Open, D
<1>6. ASSUME NEW q
      PROVE  q \in Open(t, a, p + 1) <=> q \in Open(t, a, p)
  <2>1. CASE q = p
    BY <1>4, <1>5, <2>1
  <2>2. CASE q # p
    <3>1. q \in a..p <=> q \in a..(p - 1)
      BY <2>2
    <3> QED
      BY <1>3, <1>4, <1>5, <3>1
  <2> QED
    BY <2>1, <2>2
<1> QED
  BY <1>6

(* The token that is closed at p is the last one that is open.             *)
LEMMA OpenShrinks ==
  ASSUME NEW t, NEW a \in Int, NEW p \in Int, a <= p, t[p] \in Closers,
         NEW o \in Open(t, a, p), Depth(t, a, o) = Depth(t, a, p) - 1
  PROVE  /\ Open(t, a, p + 1) = Open(t, a, p) \ {o}
         /\ Max({q \in a..(p - 1) : Depth(t, a, q) = Depth(t, a, p) - 1}) = o
<1> DEFINE D(q) == Depth(t, a, q)
<1>1. \A q \in a..p : D(q) \in Int
  BY DepthStep
<1>2. D(p + 1) = D(p) - 1
  <2>1. t[p] \notin Openers
    BY DEF Openers, Closers
  <2> QED
    BY <2>1, DepthStep
<1>3. (p + 1) - 1 = p /\ p \in Int /\ D(p) \in Int
  BY <1>1
<1>4. o \in a..(p - 1) /\ D(o) = D(p) - 1 /\ \A r \in (o + 1)..p : D(r) > D(o)
  BY DEF Open
<1> HIDE DEF D
<1>5. Open(t, a, p + 1) =
        {q \in a..p : t[q] \in Openers /\ \A r \in (q + 1)..(p + 1) : D(r) > D(q)}
  BY <1>3 DEF Open, D
<1>6. Open(t, a, p) =
        {q \in a..(p - 1) : t[q] \in Openers /\ \A r \in (q + 1)..p : D(r) > D(q)}
  BY DEF Open, D
<1>7. ASSUME NEW q \in a..(p - 1), \A r \in (q + 1)..p : D(r) > D(q)
      PROVE  (\A r \in (q + 1)..(p + 1) : D(r) > D(q)) <=> q # o
  <2>1. D(q) \in Int /\ D(o) \in Int /\ D(p) > D(q)
    BY <1>1, <1>4, <1>7
  <2>2. CASE q = o
    <3>1. p + 1 \in (q + 1)..(p + 1) /\ ~(D(p + 1) > D(q))
      BY <1>2, <1>3, <1>4, <2>1, <2>2
    <3> QED
      BY <2>2, <3>1
  <2>3. CASE q < o
    <3>1. D(o) > D(q)
      BY <1>4, <1>7, <2>3
    <3>2. D(p + 1) > D(q)
      BY <1>2, <1>3, <1>4, <2>1, <3>1
    <3>3. (q + 1)..(p + 1) = ((q + 1)..p) \union {p + 1}
      OBVIOUS
    <3> QED
      BY <1>7, <2>3, <1>4, <3>2, <3>3
  <2>4. CASE q > o
    <3>1. D(q) > D(o)
      BY <1>4, <2>4
    <3> QED
      BY <1>3, <1>4, <2>1, <3>1
  <2> QED
    BY <1>4, <2>2, <2>3, <2>4
<1>8. ASSUME NEW q
      PROVE  q \in Open(t, a, p + 1) <=> q \in Open(t, a, p) \ {o}
  <2>1. CASE q = p
    <3>1. t[p] \notin Openers
      BY DEF Openers, Closers
    <3> QED
      BY <1>5, <1>6, <2>1, <3>1
  <2>2. CASE q # p
    <3>1. q \in a..p <=> q \in a..(p - 1)
      BY <2>2
    <3>2. CASE q \in a..(p - 1) /\ \A r \in (q + 1)..p : D(r) > D(q)
      BY <1>5, <1>6, <1>7, <3>1, <3>2
    <3>3. CASE q \in a..(p - 1) /\ ~\A r \in (q + 1)..p : D(r) > D(q)
      BY <1>5, <1>6, <3>1, <3>3
    <3>4. CASE q \notin a..(p - 1)
      BY <1>5, <1>6, <3>1, <3>4
    <3> QED
      BY <3>2, <3>3, <3>4
  <2> QED
    BY <2>1, <2>2
<1> DEFINE S == {q \in a..(p - 1) : D(q) = D(p) - 1}
<1>9. o \in S /\ S \in SUBSET Int
  BY <1>4
<1>10. ASSUME NEW x \in S
       PROVE  x <= o
  <2>1. CASE x > o
    <3>1. D(x) > D(o) /\ D(x) = D(p) - 1
      BY <1>4, <2>1
    <3> QED
      BY <1>3, <1>4, <3>1
  <2> QED
    BY <1>4, <2>1
<1> HIDE DEF S
<1>11. Max(S) = o
  BY <1>9, <1>10, MaxIs
<1> QED
  BY <1>8, <1>11 DEF S, D

LEMMA NestedAtStart ==
  ASSUME NEW t, NEW a \in Int
  PROVE  Nested(t, a, a)
<1>1. Depth(t, a, a) = 0 /\ Braces(t, a, a) = 0
  BY DepthIs, BracesIs
<1>2. a..(a - 1) = {} /\ \A q \in a..a : q = a
  OBVIOUS
<1>3. OpenBraces(t, a, a) = {}
  BY <1>2 DEF OpenBraces, Open
<1>4. IsFiniteSet(OpenBraces(t, a, a)) /\ Cardinality(OpenBraces(t, a, a)) = 0
  BY <1>3, FS_EmptySet
<1>5. 0..(Depth(t, a, a) - 1) = {}
  BY <1>1
<1> QED
  BY <1>1, <1>2, <1>4, <1>5 DEF Nested

LEMMA NestedStep ==
  ASSUME NEW t, NEW a \in Int, NEW p \in Int, a <= p, Nested(t, a, p),
         ~Mismatched(t, a, p), ~(Depth(t, a, p) = 0 /\ t[p] \in Closers)
  PROVE  Nested(t, a, p + 1)
<1>1. /\ Depth(t, a, p) \in Int /\ Depth(t, a, p) >= 0
      /\ \A q \in a..p : Depth(t, a, q) \in Int
  <2>1. \A q \in a..p : Depth(t, a, q) \in Int
    BY DepthIs
  <2>2. p \in a..p
    OBVIOUS
  <2> QED
    BY <2>1, <2>2 DEF Nested
<1>2. /\ Braces(t, a, p) \in Int
      /\ t[p] \in OpeningBrace => Braces(t, a, p + 1) = Braces(t, a, p) + 1
      /\ t[p] \in ClosingBrace => Braces(t, a, p + 1) = Braces(t, a, p) - 1
      /\ t[p] \notin OpeningBrace \union ClosingBrace => Braces(t, a, p + 1) = Braces(t, a, p)
  BY BracesStep
<1>3. /\ \A q \in a..p : Depth(t, a, q) >= 0
      /\ \A k \in 0..(Depth(t, a, p) - 1) : \E q \in Open(t, a, p) : Depth(t, a, q) = k
      /\ IsFiniteSet(OpenBraces(t, a, p)) /\ Cardinality(OpenBraces(t, a, p)) = Braces(t, a, p)
      /\ \A q \in a..(p - 1) : t[q] \in ClosingBrace =>
           \E r \in a..(q - 1) : t[r] \in OpeningBrace /\ Depth(t, a, r) = Depth(t, a, q) - 1
  BY DEF Nested
<1>4. (p + 1) - 1 = p /\ \A q \in a..(p + 1) : q \in a..p \/ q = p + 1
  OBVIOUS
<1>5. \A q \in a..p : q \in a..(p - 1) \/ q = p
  OBVIOUS
<1>6. CASE t[p] \in Openers
  <2>1. Depth(t, a, p + 1) = Depth(t, a, p) + 1 /\ t[p] \notin ClosingBrace
    BY <1>6, DepthStep DEF Openers, ClosingBrace
  <2>2. Open(t, a, p + 1) = Open(t, a, p) \union {p}
    BY <1>6, OpenGrows
  <2>3. OpenBraces(t, a, p + 1) = IF t[p] \in OpeningBrace THEN OpenBraces(t, a, p) \union {p} ELSE OpenBraces(t, a, p)
    BY <2>2 DEF OpenBraces
  <2>4. p \notin OpenBraces(t, a, p)
    BY OpenFacts
  <2>5. IsFiniteSet(OpenBraces(t, a, p + 1)) /\ Cardinality(OpenBraces(t, a, p + 1)) = Braces(t, a, p + 1)
    <3>1. CASE t[p] \in OpeningBrace
      BY <1>2, <1>3, <2>3, <2>4, <3>1, FS_AddElement
    <3>2. CASE t[p] \notin OpeningBrace
      BY <1>2, <1>3, <2>1, <2>3, <3>2
    <3> QED
      BY <3>1, <3>2
  <2>6. \A q \in a..(p + 1) : Depth(t, a, q) >= 0
    BY <1>1, <1>3, <1>4, <2>1
  <2>7. ASSUME NEW k \in 0..(Depth(t, a, p + 1) - 1)
        PROVE  \E q \in Open(t, a, p + 1) : Depth(t, a, q) = k
    <3>1. k \in 0..(Depth(t, a, p) - 1) \/ k = Depth(t, a, p)
      BY <1>1, <2>1
    <3> QED
      BY <1>3, <2>2, <3>1
  <2>8. \A q \in a..p : t[q] \in ClosingBrace => \E r \in a..(q - 1) : t[r] \in OpeningBrace /\ Depth(t, a, r) = Depth(t, a, q) - 1
    BY <1>3, <1>5, <2>1
  <2> QED
    BY <1>4, <2>5, <2>6, <2>7, <2>8 DEF Nested
<1>7. CASE t[p] \in Closers
  <2>1. Depth(t, a, p + 1) = Depth(t, a, p) - 1
    BY <1>7, DepthStep
  <2>2. t[p] \notin Openers /\ t[p] \in {")", "}"} /\ t[p] \notin OpeningBrace
    BY <1>7 DEF Openers, Closers, OpeningBrace
  <2>3. Depth(t, a, p) > 0 /\ Depth(t, a, p) - 1 \in 0..(Depth(t, a, p) - 1)
    BY <1>1, <1>7
  <2>4. PICK o \in Open(t, a, p) : Depth(t, a, o) = Depth(t, a, p) - 1
    BY <1>3, <2>3
  <2>5. /\ Open(t, a, p + 1) = Open(t, a, p) \ {o}
        /\ Max({q \in a..(p - 1) : Depth(t, a, q) = Depth(t, a, p) - 1}) = o
    BY <1>7, <2>4, OpenShrinks
  <2>6. t[o] = IF t[p] = ")" THEN "(" ELSE "{"
    BY <1>7, <2>3, <2>5 DEF Mismatched
  <2>7. o \in a..(p - 1)
    BY DEF Open
  <2>8. OpenBraces(t, a, p + 1) = IF t[p] \in ClosingBrace THEN OpenBraces(t, a, p) \ {o}
                                                        ELSE OpenBraces(t, a, p)
    BY <2>2, <2>5, <2>6 DEF OpenBraces, OpeningBrace, ClosingBrace
  <2>9. t[p] \in ClosingBrace => o \in OpenBraces(t, a, p) /\ t[o] \in OpeningBrace
    BY <2>6 DEF OpenBraces, OpeningBrace, ClosingBrace
  <2>10. IsFiniteSet(OpenBraces(t, a, p + 1)) /\ Cardinality(OpenBraces(t, a, p + 1)) = Braces(t, a, p + 1)
    <3>1. CASE t[p] \in ClosingBrace
      BY <1>2, <1>3, <2>8, <2>9, <3>1, FS_RemoveElement
    <3>2. CASE t[p] \notin ClosingBrace
      BY <1>2, <1>3, <2>2, <2>8, <3>2
    <3> QED
      BY <3>1, <3>2
  <2>11. \A q \in a..(p + 1) : Depth(t, a, q) >= 0
    BY <1>1, <1>3, <1>4, <2>1, <2>3
  <2>12. ASSUME NEW k \in 0..(Depth(t, a, p + 1) - 1)
         PROVE  \E q \in Open(t, a, p + 1) : Depth(t, a, q) = k
    <3>1. k \in 0..(Depth(t, a, p) - 1) /\ k # Depth(t, a, o)
      BY <1>1, <2>1, <2>4
    <3>2. PICK q \in Open(t, a, p) : Depth(t, a, q) = k
      BY <1>3, <3>1
    <3> QED
      BY <2>5, <3>1, <3>2
  <2>13. ASSUME NEW q \in a..p, t[q] \in ClosingBrace
         PROVE  \E r \in a..(q - 1) : t[r] \in OpeningBrace /\ Depth(t, a, r) = Depth(t, a, q) - 1
    <3>1. CASE q = p
      BY <2>4, <2>7, <2>9, <2>13, <3>1
    <3>2. CASE q # p
      BY <1>3, <1>5, <2>13, <3>2
    <3> QED
      BY <3>1, <3>2
  <2> QED
    BY <1>4, <2>10, <2>11, <2>12, <2>13 DEF Nested
<1>8. CASE t[p] \notin Openers \union Closers
  <2>1. Depth(t, a, p + 1) = Depth(t, a, p) /\ t[p] \notin OpeningBrace \union ClosingBrace
    BY <1>8, DepthStep DEF Openers, Closers, OpeningBrace, ClosingBrace
  <2>2. Open(t, a, p + 1) = Open(t, a, p)
    BY <1>8, OpenStays
  <2>3. OpenBraces(t, a, p + 1) = OpenBraces(t, a, p)
    BY <2>2 DEF OpenBraces
  <2>4. IsFiniteSet(OpenBraces(t, a, p + 1)) /\ Cardinality(OpenBraces(t, a, p + 1)) = Braces(t, a, p + 1)
    BY <1>2, <1>3, <2>1, <2>3
  <2>5. \A q \in a..(p + 1) : Depth(t, a, q) >= 0
    BY <1>3, <1>4, <2>1, <1>1
  <2>6. \A k \in 0..(Depth(t, a, p + 1) - 1) : \E q \in Open(t, a, p + 1) : Depth(t, a, q) = k
    BY <1>3, <2>1, <2>2
  <2>7. \A q \in a..p : t[q] \in ClosingBrace => \E r \in a..(q - 1) : t[r] \in OpeningBrace /\ Depth(t, a, r) = Depth(t, a, q) - 1
    BY <1>3, <1>5, <2>1
  <2> QED
    BY <1>4, <2>4, <2>5, <2>6, <2>7 DEF Nested
<1> QED
  BY <1>6, <1>7, <1>8

(* Where nothing goes wrong no brace is closed that was not opened, and    *)
(* outside all brackets as many are closed as opened.                      *)
LEMMA NestedBraces ==
  ASSUME NEW t, NEW a \in Int, NEW end \in Int, a <= end, NothingWrong(t, a, end)
  PROVE  /\ \A p \in a..end : /\ Braces(t, a, p) >= 0
                              /\ Depth(t, a, p) \in Int /\ Depth(t, a, p) >= 0
                              /\ Depth(t, a, p) = 0 => Braces(t, a, p) = 0
         /\ \A p \in a..(end - 1) : t[p] \in ClosingBrace =>
              \E q \in a..(p - 1) : t[q] \in OpeningBrace /\ Depth(t, a, q) = Depth(t, a, p) - 1
<1> DEFINE T == {n \in Nat : a + n <= end => Nested(t, a, a + n)}
<1>1. 0 \in T
  <2>1. a + 0 = a
    OBVIOUS
  <2> QED
    BY <2>1, NestedAtStart
<1>2. ASSUME NEW n \in Nat, n \in T
      PROVE  n + 1 \in T
  <2> DEFINE p == a + n
  <2>1. p \in Int /\ a <= p /\ a + (n + 1) = p + 1 /\ n + 1 \in Nat
    OBVIOUS
  <2>2. p <= end => Nested(t, a, p)
    BY <1>2
  <2> HIDE DEF p
  <2>3. p + 1 <= end => Nested(t, a, p + 1)
    <3> SUFFICES ASSUME p + 1 <= end
                 PROVE  Nested(t, a, p + 1)
      OBVIOUS
    <3>1. p \in a..(end - 1) /\ Nested(t, a, p)
      BY <2>1, <2>2
    <3>2. ~Mismatched(t, a, p) /\ ~(Depth(t, a, p) = 0 /\ t[p] \in Closers)
      BY <3>1 DEF NothingWrong
    <3> QED
      BY <2>1, <3>1, <3>2, NestedStep
  <2> QED
    BY <2>1, <2>3
<1> HIDE DEF T
<1>3. ASSUME NEW p \in a..end
      PROVE  Nested(t, a, p)
  <2>1. p - a \in Nat /\ a + (p - a) = p
    OBVIOUS
  <2>2. p - a \in T
    BY <1>1, <1>2, <2>1, Induction
  <2> QED
    BY <2>1, <2>2 DEF T
<1>4. ASSUME NEW p \in a..end
      PROVE  /\ Braces(t, a, p) >= 0 /\ Depth(t, a, p) \in Int /\ Depth(t, a, p) >= 0
             /\ Depth(t, a, p) = 0 => Braces(t, a, p) = 0
  <2>1. /\ \A q \in a..p : Depth(t, a, q) >= 0
        /\ IsFiniteSet(OpenBraces(t, a, p))
        /\ Cardinality(OpenBraces(t, a, p)) = Braces(t, a, p)
    BY <1>3 DEF Nested
  <2>2. Cardinality(OpenBraces(t, a, p)) >= 0
    BY <2>1, FS_CardinalityType
  <2>3. \A q \in a..p : Depth(t, a, q) \in Int
    BY DepthStep
  <2>4. ASSUME Depth(t, a, p) = 0
        PROVE  OpenBraces(t, a, p) = {}
    <3>1. ASSUME NEW q \in Open(t, a, p)
          PROVE  FALSE
      <4>1. q \in a..(p - 1) /\ \A r \in (q + 1)..p : Depth(t, a, r) > Depth(t, a, q)
        BY DEF Open
      <4>2. p \in (q + 1)..p /\ q \in a..p
        BY <4>1
      <4>3. Depth(t, a, p) > Depth(t, a, q)
        BY <4>1, <4>2
      <4>4. Depth(t, a, q) \in Int /\ Depth(t, a, q) >= 0
        BY <2>1, <2>3, <4>2
      <4> QED
        BY <2>4, <4>3, <4>4
    <3> QED
      BY <3>1 DEF OpenBraces
  <2>5. p \in a..p
    OBVIOUS
  <2> QED
    BY <2>1, <2>2, <2>3, <2>4, <2>5, FS_EmptySet
<1>5. \A p \in a..(end - 1) : t[p] \in ClosingBrace =>
        \E q \in a..(p - 1) : t[q] \in OpeningBrace /\ Depth(t, a, q) = Depth(t, a, p) - 1
  <2>1. Nested(t, a, end)
    BY <1>3
  <2> QED
    BY <2>1 DEF Nested
<1> QED
  BY <1>4, <1>5

-----------------------------------------------------------------------------
(* Where the scan ends, and the operands between its ends.                 *)
LEMMA ScanEndIs ==
  ASSUME NEW t, NEW a \in Nat, NEW to \in Nat, a <= to
  PROVE  LET end == ScanEnd(t, a, to) IN
         /\ end \in a..to
         /\ \A p \in a..(end - 1) : ~Stops(t, a, p) /\ ~Mismatched(t, a, p)
         /\ end < to => Stops(t, a, end) \/ Mismatched(t, a, end)
<1> DEFINE S == {p \in a..(to - 1) : Stops(t, a, p) \/ Mismatched(t, a, p)}
           W == S \union {to}
           end == ScanEnd(t, a, to)
<1>1. W \in SUBSET Int /\ W # {} /\ W \subseteq a..to /\ \A x \in W : a <= x
  OBVIOUS
<1>2. end = Min(W)
  BY DEF ScanEnd
<1>3. \A p \in a..(to - 1) : p \in W <=> (Stops(t, a, p) \/ Mismatched(t, a, p))
  OBVIOUS
<1> HIDE DEF S, W, end
<1>4. end \in W /\ \A x \in W : end <= x
  BY <1>1, <1>2, LeastOf
<1>5. end \in a..to
  BY <1>1, <1>4
<1>6. ASSUME NEW p \in a..(end - 1)
      PROVE  ~Stops(t, a, p) /\ ~Mismatched(t, a, p)
  <2>1. p \in a..(to - 1) /\ ~(end <= p)
    BY <1>5
  <2> QED
    BY <1>3, <1>4, <2>1
<1>7. end < to => Stops(t, a, end) \/ Mismatched(t, a, end)
  <2>1. end < to => end \in a..(to - 1)
    BY <1>5
  <2> QED
    BY <1>3, <1>4, <2>1
<1> QED
  BY <1>5, <1>6, <1>7 DEF end

(* Up to its end nothing goes wrong, and if it does not throw it ends      *)
(* outside all brackets.                                                   *)
LEMMA ScanNests ==
  ASSUME NEW t, NEW a \in Nat, NEW to \in Nat, a <= to,
         NEW end, end = ScanEnd(t, a, to)
  PROVE  /\ end \in a..to /\ NothingWrong(t, a, end)
         /\ ~ScanThrows(t, a, to, end) => Depth(t, a, end) = 0
<1>1. /\ end \in a..to
      /\ \A p \in a..(end - 1) : ~Stops(t, a, p) /\ ~Mismatched(t, a, p)
      /\ end < to => Stops(t, a, end) \/ Mismatched(t, a, end)
  BY ScanEndIs
<1>2. \A p : Depth(t, a, p) = 0 /\ t[p] \in Closers => Stops(t, a, p)
  BY DEF Stops, Puncts, Closers
<1>3. NothingWrong(t, a, end)
  BY <1>1, <1>2 DEF NothingWrong
<1>4. ASSUME ~ScanThrows(t, a, to, end)
      PROVE  Depth(t, a, end) = 0
  <2>1. CASE end < to
    BY <1>1, <1>4, <2>1 DEF ScanThrows, Stops
  <2>2. CASE end = to
    BY <1>4, <2>2 DEF ScanThrows
  <2> QED
    BY <1>1, <2>1, <2>2
<1> QED
  BY <1>1, <1>3, <1>4

(* An operand begins and ends outside all brackets.                        *)
Operandlike(t, a, end, r) ==
  /\ r \in Ranges /\ a <= r.from /\ r.from < r.to /\ r.to <= end
  /\ r.from \in FirstTokens(t, a, end) /\ Depth(t, a, r.from) = 0
  /\ r.to = end \/ (r.to \in TopOperators(t, a, end) /\ Depth(t, a, r.to) = 0)

LEMMA RangesAre ==
  ASSUME NEW t, NEW a \in Nat, NEW end \in Nat, a <= end
  PROVE  LET ranges == OperandRanges(t, a, end) IN
         /\ ranges \in Seq(Ranges)
         /\ Len(ranges) = Cardinality(FirstTokens(t, a, end))
         /\ \A k \in 1..Len(ranges) : Operandlike(t, a, end, ranges[k])
<1> DEFINE tops   == TopOperators(t, a, end)
           first  == FirstTokens(t, a, end)
           starts == InOrder(first)
           upto(s) == Min({p \in tops : p > s} \union {end})
           ranges == OperandRanges(t, a, end)
<1>1. first \in SUBSET (a..(end - 1)) /\ tops \in SUBSET (a..(end - 1))
  BY DEF FirstTokens, TopOperators
<1>2. \A p \in tops : p \in a..(end - 1) /\ t[p] \in Operators /\ Depth(t, a, p) = 0
  BY DEF TopOperators
<1>3. \A p \in first : p \in a..(end - 1) /\ p \notin tops /\ (p = a \/ p - 1 \in tops)
  BY DEF FirstTokens
<1>4. ranges = [k \in 1..Len(starts) |-> Span(starts[k], upto(starts[k]))]
  BY DEF OperandRanges
<1> HIDE DEF tops, first, ranges
<1>5. ASSUME NEW s \in first
      PROVE  Operandlike(t, a, end, Span(s, upto(s)))
  <2> DEFINE W == {p \in tops : p > s} \union {end}
  <2>1. s \in Nat /\ a <= s /\ s < end
    BY <1>3
  <2>2. W # {}
    OBVIOUS
  <2>3. \A x \in W : x = end \/ (x \in tops /\ x > s)
    OBVIOUS
  <2> HIDE DEF W
  <2>4. ASSUME NEW x \in W
        PROVE  x \in Int /\ s <= x
    <3>1. CASE x = end
      BY <2>1, <3>1
    <3>2. CASE x \in tops /\ x > s
      BY <1>2, <2>1, <3>2
    <3> QED
      BY <2>3, <3>1, <3>2
  <2>5. Min(W) \in W
    <3>1. W \in SUBSET Int /\ s \in Int
      BY <2>1, <2>4
    <3> QED
      BY <2>2, <2>4, <3>1, LeastOf
  <2>6. Min(W) \in Nat /\ s < Min(W) /\ Min(W) <= end /\ (Min(W) = end \/ (Min(W) \in tops /\ Depth(t, a, Min(W)) = 0))
    <3>1. CASE Min(W) = end
      BY <2>1, <3>1
    <3>2. CASE Min(W) \in tops /\ Min(W) > s
      BY <1>2, <2>1, <3>2
    <3> QED
      BY <2>3, <2>5, <3>1, <3>2
  <2>7. Depth(t, a, s) = 0
    <3>1. CASE s = a
      BY <3>1, DepthIs
    <3>2. CASE s - 1 \in tops
      <4> DEFINE q == s - 1
      <4>1. q \in Int /\ a <= q /\ q + 1 = s
        BY <1>2, <2>1, <3>2
      <4>2. t[q] \in Operators /\ Depth(t, a, q) = 0
        BY <1>2, <3>2
      <4> HIDE DEF q
      <4>3. t[q] \notin Openers \union Closers
        BY <4>2 DEF Operators, Openers, Closers
      <4>4. Depth(t, a, q + 1) = Depth(t, a, q)
        BY <4>1, <4>3, DepthStep
      <4> QED
        BY <4>1, <4>2, <4>4
    <3> QED
      BY <1>3, <3>1, <3>2
  <2>8. Span(s, Min(W)) \in Ranges /\ Span(s, Min(W)).from = s /\ Span(s, Min(W)).to = Min(W)
    BY <2>1, <2>6 DEF Span, Ranges
  <2>9. Operandlike(t, a, end, Span(s, Min(W)))
    BY <2>1, <2>6, <2>7, <2>8 DEF Operandlike, first, tops
  <2> QED
    BY <2>9 DEF W
<1>6. /\ starts \in Seq(Int) /\ Lists(starts, first)
      /\ Len(starts) = Cardinality(first)
  <2>1. a \in Int /\ end - 1 \in Int
    OBVIOUS
  <2> QED
    BY <1>1, <2>1, InOrderLists
<1>7. Len(starts) \in Nat /\ \A k \in 1..Len(starts) : starts[k] \in first
  BY <1>6 DEF Lists
<1> HIDE DEF starts, upto
<1>8. \A k \in 1..Len(starts) : Operandlike(t, a, end, Span(starts[k], upto(starts[k])))
  BY <1>5, <1>7 DEF upto
<1>9. \A k \in 1..Len(starts) : Span(starts[k], upto(starts[k])) \in Ranges
  BY <1>8 DEF Operandlike
<1>10. ranges \in Seq(Ranges) /\ Len(ranges) = Len(starts)
  BY <1>4, <1>7, <1>9
<1>11. \A k \in 1..Len(ranges) : Operandlike(t, a, end, ranges[k])
  BY <1>4, <1>8, <1>10
<1> QED
  BY <1>6, <1>10, <1>11 DEF ranges, first, starts

-----------------------------------------------------------------------------
(* Sequences of whatever they hold.                                        *)
IsSeq(s) == s \in Seq({s[k] : k \in 1..Len(s)})

LEMMA SeqIs ==
  ASSUME NEW S, NEW s \in Seq(S)
  PROVE  IsSeq(s) /\ Len(s) \in Nat /\ s = [k \in 1..Len(s) |-> s[k]]
<1> DEFINE T == {s[k] : k \in 1..Len(s)}
<1>1. s \in [1..Len(s) -> S] /\ Len(s) \in Nat
  BY LenProperties
<1>2. s \in [1..Len(s) -> T]
  BY <1>1
<1> HIDE DEF T
<1>3. s \in Seq(T)
  BY <1>1, <1>2
<1> QED
  BY <1>1, <1>3 DEF IsSeq, T

LEMMA ListIs ==
  ASSUME NEW s, IsSeq(s)
  PROVE  Len(s) \in Nat /\ s = [k \in 1..Len(s) |-> s[k]]
<1> DEFINE S == {s[k] : k \in 1..Len(s)}
<1>1. s \in Seq(S)
  BY DEF IsSeq
<1> HIDE DEF S
<1> QED
  BY <1>1, SeqIs

LEMMA JoinIs ==
  ASSUME NEW b, NEW s, IsSeq(b), IsSeq(s)
  PROVE  /\ IsSeq(b \o s) /\ Len(b \o s) = Len(b) + Len(s)
         /\ Len(b) \in Nat /\ Len(s) \in Nat
         /\ \A k \in 1..Len(b) : (b \o s)[k] = b[k]
         /\ \A k \in 1..Len(s) : (b \o s)[Len(b) + k] = s[k]
<1> DEFINE S == {b[k] : k \in 1..Len(b)} \union {s[k] : k \in 1..Len(s)}
<1>1. Len(b) \in Nat /\ Len(s) \in Nat
  BY SeqIs DEF IsSeq
<1>2. b \in [1..Len(b) -> S] /\ s \in [1..Len(s) -> S]
  <2>1. b \in [1..Len(b) -> {b[k] : k \in 1..Len(b)}]
    BY LenProperties DEF IsSeq
  <2>2. s \in [1..Len(s) -> {s[k] : k \in 1..Len(s)}]
    BY LenProperties DEF IsSeq
  <2> QED
    BY <2>1, <2>2
<1> HIDE DEF S
<1>3. b \in Seq(S) /\ s \in Seq(S)
  BY <1>1, <1>2
<1>4. /\ b \o s \in Seq(S) /\ Len(b \o s) = Len(b) + Len(s)
      /\ \A k \in 1..(Len(b) + Len(s)) :
           (b \o s)[k] = IF k <= Len(b) THEN b[k] ELSE s[k - Len(b)]
  BY <1>3, ConcatProperties
<1>5. \A k \in 1..Len(b) : (b \o s)[k] = b[k]
  BY <1>1, <1>4
<1>6. ASSUME NEW k \in 1..Len(s)
      PROVE  (b \o s)[Len(b) + k] = s[k]
  <2>1. Len(b) + k \in 1..(Len(b) + Len(s)) /\ ~(Len(b) + k <= Len(b)) /\ (Len(b) + k) - Len(b) = k
    BY <1>1
  <2> QED
    BY <1>4, <2>1
<1>7. IsSeq(b \o s)
  BY <1>4, SeqIs
<1> QED
  BY <1>1, <1>4, <1>5, <1>6, <1>7

LEMMA OneIs ==
  ASSUME NEW x
  PROVE  IsSeq(<<x>>) /\ Len(<<x>>) = 1 /\ <<x>>[1] = x
<1>1. <<x>> \in Seq({x})
  OBVIOUS
<1> QED
  BY <1>1, SeqIs

LEMMA ConsIs ==
  ASSUME NEW x, NEW s, IsSeq(s)
  PROVE  /\ IsSeq(<<x>> \o s) /\ Len(<<x>> \o s) = Len(s) + 1 /\ Len(s) \in Nat
         /\ (<<x>> \o s)[1] = x
         /\ \A k \in 1..Len(s) : (<<x>> \o s)[k + 1] = s[k]
<1>1. IsSeq(<<x>>) /\ Len(<<x>>) = 1 /\ <<x>>[1] = x
  BY OneIs
<1>2. /\ IsSeq(<<x>> \o s) /\ Len(<<x>> \o s) = Len(<<x>>) + Len(s) /\ Len(s) \in Nat
      /\ \A k \in 1..Len(<<x>>) : (<<x>> \o s)[k] = <<x>>[k]
      /\ \A k \in 1..Len(s) : (<<x>> \o s)[Len(<<x>>) + k] = s[k]
  BY <1>1, JoinIs
<1>3. 1 \in 1..1 /\ \A k \in 1..Len(s) : 1 + k = k + 1
  OBVIOUS
<1> QED
  BY <1>1, <1>2, <1>3

LEMMA TailIs ==
  ASSUME NEW s, IsSeq(s), s # <<>>
  PROVE  /\ IsSeq(Tail(s)) /\ Len(Tail(s)) = Len(s) - 1
         /\ Len(s) \in Nat /\ Len(s) >= 1 /\ Head(s) = s[1]
         /\ \A k \in 1..(Len(s) - 1) : Tail(s)[k] = s[k + 1]
<1> DEFINE S == {s[k] : k \in 1..Len(s)}
<1>1. s \in Seq(S)
  BY DEF IsSeq
<1> HIDE DEF S
<1>2. Len(s) \in Nat /\ Len(s) >= 1
  BY <1>1, EmptySeq, LenProperties
<1>3. /\ Tail(s) \in Seq(S) /\ Len(Tail(s)) = Len(s) - 1
      /\ \A k \in 1..Len(Tail(s)) : Tail(s)[k] = s[k + 1]
  BY <1>1, HeadTailProperties
<1>4. IsSeq(Tail(s))
  BY <1>3, SeqIs
<1>5. Head(s) = s[1]
  BY <1>1
<1> QED
  BY <1>2, <1>3, <1>4, <1>5

LEMMA SubSeqIs ==
  ASSUME NEW s, IsSeq(s), NEW m \in Nat, NEW n \in Nat, 1 <= m, m <= n + 1, n <= Len(s)
  PROVE  /\ IsSeq(SubSeq(s, m, n)) /\ Len(SubSeq(s, m, n)) = n - m + 1
         /\ \A k \in 1..(n - m + 1) : SubSeq(s, m, n)[k] = s[m + k - 1]
<1> DEFINE S == {s[k] : k \in 1..Len(s)}
<1>1. s \in Seq(S)
  BY DEF IsSeq
<1> HIDE DEF S
<1>2. Len(s) \in Nat /\ \A k \in 1..Len(s) : s[k] \in S
  BY <1>1, LenProperties, ElementOfSeq
<1>3. SubSeq(s, m, n) = [k \in 1..(n - m + 1) |-> s[k + m - 1]]
  BY <1>1 DEF SubSeq
<1>4. \A k \in 1..(n - m + 1) : k + m - 1 \in 1..Len(s) /\ k + m - 1 = m + k - 1
  BY <1>2
<1>5. n - m + 1 \in Nat
  OBVIOUS
<1>6. \A k \in 1..(n - m + 1) : s[k + m - 1] \in S
  BY <1>2, <1>4
<1>7. SubSeq(s, m, n) \in Seq(S) /\ Len(SubSeq(s, m, n)) = n - m + 1
  BY <1>3, <1>5, <1>6
<1>8. \A k \in 1..(n - m + 1) : SubSeq(s, m, n)[k] = s[m + k - 1]
  BY <1>3, <1>4
<1> QED
  BY <1>7, <1>8, SeqIs

LEMMA AppendIs ==
  ASSUME NEW s, IsSeq(s), NEW x
  PROVE  /\ IsSeq(Append(s, x)) /\ Len(Append(s, x)) = Len(s) + 1 /\ Len(s) \in Nat
         /\ Append(s, x)[Len(s) + 1] = x
         /\ \A k \in 1..Len(s) : Append(s, x)[k] = s[k]
<1> DEFINE S == {s[k] : k \in 1..Len(s)} \union {x}
<1>1. Len(s) \in Nat /\ s \in [1..Len(s) -> {s[k] : k \in 1..Len(s)}]
  BY LenProperties DEF IsSeq
<1>2. s \in [1..Len(s) -> S] /\ x \in S
  BY <1>1
<1> HIDE DEF S
<1>3. s \in Seq(S)
  BY <1>1, <1>2
<1>4. /\ Append(s, x) \in Seq(S) /\ Len(Append(s, x)) = Len(s) + 1
      /\ Append(s, x)[Len(s) + 1] = x
      /\ \A k \in 1..Len(s) : Append(s, x)[k] = s[k]
  BY <1>2, <1>3, AppendProperties
<1> QED
  BY <1>1, <1>4, SeqIs

-----------------------------------------------------------------------------
(* Braces opened and not closed never outnumber, in a..b, those before b:  *)
(* what is between belongs together, if the braces of the file match.      *)
Matched(t) ==
  /\ Braces(t, 1, Len(t) + 1) = 0
  /\ \A p \in 1..(Len(t) + 1) : Braces(t, 1, p) >= 0
LevelOn(t, a, b) == Matched(t) => \A p \in a..b : Braces(t, 1, p) >= Braces(t, 1, b)

(* A part of an expression that is in front of position `at`.              *)
Below(t, r, at) ==
  r \in Ranges /\ 1 <= r.from /\ r.from <= r.to /\ r.to <= at /\ LevelOn(t, r.from, r.to)

Xs(shape) == Cardinality({k \in 1..Len(shape) : shape[k] = "x"})

Producing == {"name", "expression", "statement", "block", "parameter list"}
Using == {"initializer", "statement end"}

(* What an instruction and all it is replaced by do to the number of       *)
(* ParseStates, i, and of nodes, n, if no error is thrown.                 *)
Moves(t, its, x, i, n, i1, n1) ==
  \/ x.do \in {"take", "see"} /\ i1 = i /\ n1 = n
  \/ x.do \in Producing /\ i1 = i /\ n1 = n + 1
  \/ x.do \in Using /\ i1 = i /\ n1 = n /\ n >= 1
  \/ x.do = "enter" /\ i1 = i + 1 /\ n1 = n /\ Below(t, x.range, its[i].at)
  \/ x.do = "split" /\ i1 = i + 1 /\ n1 = n
  \/ x.do = "leave" /\ i = i1 + 1 /\ n1 = n
  \/ x.do = "make" /\ i1 = i /\ x.n \in Nat /\ x.n <= n /\ n1 = n - x.n + 1
  \/ x.do = "else" /\ i1 = i /\ n >= 2 /\ n1 = n - 1
  \/ x.do = "arguments" /\ i1 = i /\ x.n \in Nat /\ x.n + 1 <= n /\ n1 = n - x.n
  \/ x.do = "parameters" /\ i1 = i /\ x.n \in Nat /\ x.n <= n /\ n1 = n - x.n + 1
  \/ x.do = "fuse" /\ i1 = i /\ Xs(x.shape) \in Nat /\ Xs(x.shape) <= n
       /\ n1 = n - Xs(x.shape) + 1
  \/ x.do = "operands" /\ i1 = i /\ x.ranges \in Seq(Ranges) /\ n1 = n + Len(x.ranges)
       /\ \A k \in 1..Len(x.ranges) : Below(t, x.ranges[k], its[i].at)
  \/ x.do = "block loop" /\ i1 = i /\ x.nodes \in Nat /\ x.nodes <= n /\ n1 = x.nodes + 1
       /\ (x.kind = "toplevel" => x.has_result = FALSE)
  \/ x.do = "make block" /\ i1 = i /\ x.nodes \in Nat /\ x.nodes <= n /\ n1 = x.nodes + 1
  \/ x.do = "catch" /\ i1 = i /\ x.iters = i /\ x.nodes \in Nat /\ n = x.nodes + 1 /\ n1 = n

Pinning == {"enter", "operands", "catch"}
Saving  == {"catch", "block loop", "make block"}

(* What throws, or is replaced by something that does.                     *)
NeedsCatch(x) ==
  /\ x.do \notin {"enter", "leave", "make", "catch", "make block"}
  /\ ~(x.do \in {"block", "block loop"} /\ x.kind = "toplevel")
HasCatch(s) == \E k \in 1..Len(s) : s[k].do = "catch"

(* s is what follows the catch x: it goes on, too, when the statement or   *)
(* the result of the block is given up and left no node.                   *)
AfterCatch(x, s) ==
  \/ Len(s) >= 1 /\ s[1].do = "block loop" /\ s[1].nodes <= x.nodes
  \/ Len(s) >= 2 /\ s[1].do = "take" /\ s[2].do = "make block" /\ s[2].nodes <= x.nodes

Rest(s, k) == SubSeq(s, k + 1, Len(s))

(* The instructions s are done one after the other from i ParseStates and  *)
(* n nodes, and leave one of each.  No instruction in front of one that    *)
(* needs ParseStates or nodes again takes those away; all of these are     *)
(* among the first f and m.                                                *)
Heights(t, its, s, h, g) ==
  /\ h \in [1..(Len(s) + 1) -> Nat \ {0}] /\ g \in [1..(Len(s) + 1) -> Nat]
  /\ h[Len(s) + 1] = 1 /\ g[Len(s) + 1] = 1
  /\ \A k \in 1..Len(s) : Moves(t, its, s[k], h[k], g[k], h[k + 1], g[k + 1])
  /\ \A k \in 1..Len(s) : s[k].do \in Pinning => \A j \in 1..k : h[j] >= h[k]
  /\ \A k \in 1..Len(s) : s[k].do = "catch" => \A j \in 1..k :
       g[j] >= s[k].nodes /\ (s[j].do \in Saving => s[j].nodes >= s[k].nodes)
  /\ \A k \in 1..Len(s) : s[k].do = "catch" => AfterCatch(s[k], Rest(s, k))
  /\ \A k \in 1..Len(s) : NeedsCatch(s[k]) => \E j \in (k + 1)..Len(s) : s[j].do = "catch"

Stack(t, its, s, i, n, f, m) ==
  /\ IsSeq(s) /\ f \in Nat /\ m \in Nat /\ f <= i /\ m <= n
  /\ \E h, g : /\ Heights(t, its, s, h, g) /\ h[1] = i /\ g[1] = n
               /\ \A k \in 1..Len(s) : s[k].do \in Pinning => h[k] <= f
               /\ \A k \in 1..Len(s) : s[k].do = "catch" => s[k].nodes <= m

LEMMA StackIs ==
  ASSUME NEW t, NEW its, NEW s, NEW i, NEW n, NEW f, NEW m, Stack(t, its, s, i, n, f, m)
  PROVE  IsSeq(s) /\ i \in Nat \ {0} /\ n \in Nat /\ f \in Nat /\ m \in Nat
           /\ f <= i /\ m <= n /\ Len(s) \in Nat /\ s = [k \in 1..Len(s) |-> s[k]]
<1>1. PICK h, g : Heights(t, its, s, h, g) /\ h[1] = i /\ g[1] = n
  BY DEF Stack
<1>2. IsSeq(s) /\ f \in Nat /\ m \in Nat /\ f <= i /\ m <= n
  BY DEF Stack
<1>3. Len(s) \in Nat /\ s = [k \in 1..Len(s) |-> s[k]]
  BY <1>2, ListIs
<1>4. h \in [1..(Len(s) + 1) -> Nat \ {0}] /\ g \in [1..(Len(s) + 1) -> Nat]
  BY <1>1 DEF Heights
<1>5. 1 \in 1..(Len(s) + 1)
  BY <1>3
<1> QED
  BY <1>1, <1>2, <1>3, <1>4, <1>5

(* One more instruction in front.                                          *)
LEMMA Put ==
  ASSUME NEW t, NEW its, NEW s, NEW i1, NEW n1, NEW f1, NEW m1,
         Stack(t, its, s, i1, n1, f1, m1),
         NEW x, NEW i \in Nat \ {0}, NEW n \in Nat, NEW f \in Nat, NEW m \in Nat,
         Moves(t, its, x, i, n, i1, n1),
         f1 <= f, f <= i, m1 <= m, m <= n,
         x.do \in Pinning => i <= f,
         x.do \in Saving => m1 <= x.nodes,
         x.do = "catch" => x.nodes <= m /\ AfterCatch(x, s),
         NeedsCatch(x) => HasCatch(s)
  PROVE  Stack(t, its, <<x>> \o s, i, n, f, m)
<1> DEFINE u == <<x>> \o s
<1>1. /\ IsSeq(u) /\ Len(u) = Len(s) + 1 /\ Len(s) \in Nat /\ u[1] = x
      /\ \A k \in 1..Len(s) : u[k + 1] = s[k]
  BY StackIs, ConsIs
<1>2. i1 \in Nat /\ n1 \in Nat /\ f1 \in Nat /\ m1 \in Nat
  BY StackIs
<1>3. PICK h, g : /\ Heights(t, its, s, h, g) /\ h[1] = i1 /\ g[1] = n1
                  /\ \A k \in 1..Len(s) : s[k].do \in Pinning => h[k] <= f1
                  /\ \A k \in 1..Len(s) : s[k].do = "catch" => s[k].nodes <= m1
  BY DEF Stack
<1>4. /\ h \in [1..(Len(s) + 1) -> Nat \ {0}] /\ g \in [1..(Len(s) + 1) -> Nat]
      /\ h[Len(s) + 1] = 1 /\ g[Len(s) + 1] = 1
      /\ \A k \in 1..Len(s) : Moves(t, its, s[k], h[k], g[k], h[k + 1], g[k + 1])
      /\ \A k \in 1..Len(s) : s[k].do \in Pinning => \A j \in 1..k : h[j] >= h[k]
      /\ \A k \in 1..Len(s) : s[k].do = "catch" => \A j \in 1..k :
           g[j] >= s[k].nodes /\ (s[j].do \in Saving => s[j].nodes >= s[k].nodes)
      /\ \A k \in 1..Len(s) : s[k].do = "catch" => AfterCatch(s[k], Rest(s, k))
      /\ \A k \in 1..Len(s) : NeedsCatch(s[k]) => \E j \in (k + 1)..Len(s) : s[j].do = "catch"
  BY <1>3 DEF Heights
<1> DEFINE hu == [k \in 1..(Len(u) + 1) |-> IF k = 1 THEN i ELSE h[k - 1]]
           gu == [k \in 1..(Len(u) + 1) |-> IF k = 1 THEN n ELSE g[k - 1]]
<1>5. /\ hu \in [1..(Len(u) + 1) -> Nat \ {0}] /\ gu \in [1..(Len(u) + 1) -> Nat]
      /\ hu[1] = i /\ gu[1] = n
      /\ \A k \in 1..(Len(s) + 1) : hu[k + 1] = h[k] /\ gu[k + 1] = g[k]
  BY <1>1, <1>4
<1>6. hu[Len(u) + 1] = 1 /\ gu[Len(u) + 1] = 1
  <2>1. Len(s) + 1 \in 1..(Len(s) + 1)
    BY <1>1
  <2> QED
    BY <1>1, <1>4, <1>5, <2>1
<1> HIDE DEF hu, gu, u
<1>7. ASSUME NEW k \in 1..Len(u), k # 1
      PROVE  \E q \in 1..Len(s) : k = q + 1 /\ u[k] = s[q]
  <2>1. k - 1 \in 1..Len(s) /\ k = (k - 1) + 1
    BY <1>1, <1>7
  <2> QED
    BY <1>1, <2>1
<1>8. ASSUME NEW k \in 1..Len(u)
      PROVE  Moves(t, its, u[k], hu[k], gu[k], hu[k + 1], gu[k + 1])
  <2>1. CASE k = 1
    <3>1. 1 \in 1..(Len(s) + 1)
      BY <1>1
    <3>2. hu[1 + 1] = i1 /\ gu[1 + 1] = n1
      BY <1>3, <1>5, <3>1
    <3> QED
      BY <1>1, <1>5, <2>1, <3>2
  <2>2. CASE k # 1
    <3>1. PICK q \in 1..Len(s) : k = q + 1 /\ u[k] = s[q]
      BY <1>7, <2>2
    <3>2. q \in 1..(Len(s) + 1) /\ q + 1 \in 1..(Len(s) + 1)
      BY <1>1
    <3>3. hu[k] = h[q] /\ gu[k] = g[q] /\ hu[k + 1] = h[q + 1] /\ gu[k + 1] = g[q + 1]
      BY <1>5, <3>1, <3>2
    <3> QED
      BY <1>4, <3>1, <3>3
  <2> QED
    BY <2>1, <2>2
<1>9. ASSUME NEW k \in 1..Len(u), u[k].do \in Pinning
      PROVE  hu[k] <= f /\ \A j \in 1..k : hu[j] >= hu[k]
  <2>1. CASE k = 1
    BY <1>1, <1>5, <1>9, <2>1
  <2>2. CASE k # 1
    <3>1. PICK q \in 1..Len(s) : k = q + 1 /\ u[k] = s[q]
      BY <1>7, <2>2
    <3>2. h[q] <= f1 /\ \A j \in 1..q : h[j] >= h[q]
      BY <1>3, <1>4, <1>9, <3>1
    <3>3. q \in 1..(Len(s) + 1)
      BY <1>1
    <3>4. hu[q + 1] = h[q]
      BY <1>5, <3>3
    <3>5. q \in 1..(Len(s) + 1) /\ h[q] \in Nat /\ hu[k] = h[q]
      BY <1>4, <3>1, <3>3, <3>4
    <3>6. h[q] <= f /\ h[q] <= i
      BY <1>2, <3>2, <3>5
    <3>7. ASSUME NEW j \in 1..k
          PROVE  hu[j] >= hu[k]
      <4>1. CASE j = 1
        BY <1>5, <3>5, <3>6, <4>1
      <4>2. CASE j # 1
        <5>1. j - 1 \in 1..q /\ j - 1 \in 1..(Len(s) + 1) /\ (j - 1) + 1 = j
          BY <1>1, <3>1, <4>2
        <5> QED
          BY <1>5, <3>2, <3>5, <5>1
      <4> QED
        BY <4>1, <4>2
    <3> QED
      BY <3>5, <3>6, <3>7
  <2> QED
    BY <2>1, <2>2
<1>10. ASSUME NEW k \in 1..Len(u), u[k].do = "catch"
      PROVE  /\ u[k].nodes <= m
             /\ \A j \in 1..k :
                  gu[j] >= u[k].nodes /\ (u[j].do \in Saving => u[j].nodes >= u[k].nodes)
  <2>1. CASE k = 1
    <3>1. x.do = "catch" /\ x.nodes <= m /\ u[k] = x
      BY <1>1, <1>10, <2>1
    <3>2. x.nodes \in Nat
      BY <3>1 DEF Moves, Producing, Using
    <3>3. x.nodes <= n /\ x.nodes >= x.nodes
      BY <3>1, <3>2
    <3>4. \A j \in 1..k : j = 1
      BY <2>1
    <3> QED
      BY <1>1, <1>5, <3>1, <3>3, <3>4
  <2>2. CASE k # 1
    <3>1. PICK q \in 1..Len(s) : k = q + 1 /\ u[k] = s[q]
      BY <1>7, <2>2
    <3>2. s[q].do = "catch" /\ s[q].nodes <= m1
      BY <1>3, <1>10, <3>1
    <3>3. \A j \in 1..q : g[j] >= s[q].nodes /\ (s[j].do \in Saving => s[j].nodes >= s[q].nodes)
      BY <1>4, <3>2
    <3>4. s[q].nodes \in Nat
      BY <1>4, <3>2 DEF Moves, Producing, Using
    <3>5. s[q].nodes <= m /\ s[q].nodes <= n
      BY <1>2, <3>2, <3>4
    <3>6. ASSUME NEW j \in 1..k
          PROVE  gu[j] >= s[q].nodes /\ (u[j].do \in Saving => u[j].nodes >= s[q].nodes)
      <4>1. CASE j = 1
        <5>1. gu[j] >= s[q].nodes /\ u[j] = x
          BY <1>1, <1>5, <3>4, <3>5, <4>1
        <5>2. ASSUME x.do \in Saving
              PROVE  x.nodes >= s[q].nodes
          <6>1. x.nodes \in Nat
            BY <5>2 DEF Moves, Producing, Using, Saving
          <6> QED
            BY <1>2, <3>2, <3>4, <5>2, <6>1
        <5> QED
          BY <5>1, <5>2
      <4>2. CASE j # 1
        <5>1. j - 1 \in 1..q /\ j - 1 \in 1..Len(s) /\ j - 1 \in 1..(Len(s) + 1) /\ (j - 1) + 1 = j
          BY <1>1, <3>1, <4>2
        <5>2. gu[j] = g[j - 1] /\ u[j] = s[j - 1]
          BY <1>1, <1>5, <5>1
        <5> QED
          BY <3>3, <5>1, <5>2
      <4> QED
        BY <4>1, <4>2
    <3> QED
      BY <3>1, <3>5, <3>6
  <2> QED
    BY <2>1, <2>2
<1>11. ASSUME NEW k \in 1..Len(u)
       PROVE  \/ k = 1 /\ Rest(u, k) = s
              \/ \E q \in 1..Len(s) : k = q + 1 /\ u[k] = s[q] /\ Rest(u, k) = Rest(s, q)
  <2> DEFINE q == k - 1
  <2>1. q \in Nat /\ q + 1 = k /\ k + 1 \in Nat /\ 1 <= k + 1 /\ k + 1 <= Len(u) + 1 /\ Len(u) \in Nat
    BY <1>1
  <2>2. /\ IsSeq(Rest(u, k)) /\ Len(Rest(u, k)) = Len(u) - (k + 1) + 1
        /\ \A p \in 1..(Len(u) - (k + 1) + 1) : Rest(u, k)[p] = u[(k + 1) + p - 1]
    BY <1>1, <2>1, SubSeqIs DEF Rest
  <2>3. Len(u) - (k + 1) + 1 = Len(s) - q
    BY <1>1, <2>1
  <2>4. ASSUME NEW p \in 1..(Len(s) - q)
        PROVE  Rest(u, k)[p] = s[p + q]
    <3>1. (k + 1) + p - 1 = (p + q) + 1 /\ p + q \in 1..Len(s)
      BY <1>1, <2>1
    <3> QED
      BY <1>1, <2>2, <2>3, <3>1
  <2>5. CASE q = 0
    <3>1. k = 1
      BY <2>1, <2>5
    <3>2. Len(s) - q = Len(s) /\ \A p \in 1..Len(s) : p + q = p
      BY <1>1, <2>5
    <3>3. Len(Rest(u, k)) = Len(s) /\ \A p \in 1..Len(s) : Rest(u, k)[p] = s[p]
      BY <2>2, <2>3, <2>4, <3>2
    <3>4. Rest(u, k) = [p \in 1..Len(s) |-> s[p]] /\ s = [p \in 1..Len(s) |-> s[p]]
      <4>1. Rest(u, k) = [p \in 1..Len(Rest(u, k)) |-> Rest(u, k)[p]]
        BY <2>2, ListIs
      <4>2. s = [p \in 1..Len(s) |-> s[p]]
        BY StackIs
      <4> QED
        BY <3>3, <4>1, <4>2
    <3> QED
      BY <3>1, <3>4
  <2>6. CASE q # 0
    <3>1. q \in 1..Len(s) /\ q + 1 \in Nat /\ 1 <= q + 1 /\ q + 1 <= Len(s) + 1 /\ IsSeq(s)
      BY <1>1, <2>1, <2>6, StackIs, SMTT(30)
    <3>2. /\ IsSeq(Rest(s, q)) /\ Len(Rest(s, q)) = Len(s) - (q + 1) + 1
          /\ \A p \in 1..(Len(s) - (q + 1) + 1) : Rest(s, q)[p] = s[(q + 1) + p - 1]
      BY <1>1, <3>1, SubSeqIs DEF Rest
    <3>3. Len(s) - (q + 1) + 1 = Len(s) - q /\ \A p \in 1..(Len(s) - q) : (q + 1) + p - 1 = p + q
      BY <1>1, <3>1
    <3>4. Len(Rest(u, k)) = Len(Rest(s, q)) /\ \A p \in 1..Len(Rest(s, q)) : Rest(u, k)[p] = Rest(s, q)[p]
      BY <2>2, <2>3, <2>4, <3>2, <3>3, ZenonT(60)
    <3>5. /\ Rest(u, k) = [p \in 1..Len(Rest(u, k)) |-> Rest(u, k)[p]]
          /\ Rest(s, q) = [p \in 1..Len(Rest(s, q)) |-> Rest(s, q)[p]]
      BY <2>2, <3>2, ListIs
    <3>6. Rest(u, k) = Rest(s, q)
      BY <3>4, <3>5
    <3> QED
      BY <1>1, <2>1, <3>1, <3>6
  <2> QED
    BY <2>5, <2>6
<1>12. ASSUME NEW k \in 1..Len(u), u[k].do = "catch"
       PROVE  AfterCatch(u[k], Rest(u, k))
  BY <1>1, <1>4, <1>11, <1>12
<1>13. ASSUME NEW k \in 1..Len(u), NeedsCatch(u[k])
       PROVE  \E j \in (k + 1)..Len(u) : u[j].do = "catch"
  <2>1. CASE k = 1
    <3>1. PICK j \in 1..Len(s) : s[j].do = "catch"
      BY <1>1, <1>13, <2>1 DEF HasCatch
    <3>2. j + 1 \in (k + 1)..Len(u) /\ u[j + 1] = s[j]
      BY <1>1, <2>1
    <3> QED
      BY <3>1, <3>2
  <2>2. CASE k # 1
    <3>1. PICK q \in 1..Len(s) : k = q + 1 /\ u[k] = s[q]
      BY <1>7, <2>2
    <3>2. PICK j \in (q + 1)..Len(s) : s[j].do = "catch"
      BY <1>4, <1>13, <3>1
    <3>3. j + 1 \in (k + 1)..Len(u) /\ j \in 1..Len(s)
      BY <1>1, <3>1
    <3>4. u[j + 1] = s[j]
      BY <1>1, <3>3
    <3> QED
      BY <3>2, <3>3, <3>4
  <2> QED
    BY <2>1, <2>2
<1>14. Heights(t, its, u, hu, gu)
  BY <1>5, <1>6, <1>8, <1>9, <1>10, <1>12, <1>13 DEF Heights
<1>15. Stack(t, its, u, i, n, f, m)
  BY <1>1, <1>5, <1>9, <1>10, <1>14 DEF Stack
<1> QED
  BY <1>15 DEF u

LEMMA EmptyStack ==
  ASSUME NEW t, NEW its
  PROVE  Stack(t, its, <<>>, 1, 1, 1, 0)
<1> DEFINE h == [k \in 1..1 |-> 1]
<1>1. IsSeq(<<>>) /\ Len(<<>>) = 0
  <2>1. <<>> \in Seq({})
    OBVIOUS
  <2> QED
    BY <2>1, SeqIs
<1>2. 1..0 = {} /\ h \in [1..(0 + 1) -> Nat \ {0}] /\ h \in [1..(0 + 1) -> Nat] /\ h[1] = 1
        /\ h[0 + 1] = 1
  OBVIOUS
<1> HIDE DEF h
<1>3. Heights(t, its, <<>>, h, h)
  BY <1>1, <1>2 DEF Heights
<1>4. 1 \in Nat /\ 0 \in Nat /\ 1 <= 1 /\ 0 <= 1
  OBVIOUS
<1> QED
  BY <1>1, <1>2, <1>3, <1>4 DEF Stack

(* The first instruction is done.                                          *)
LEMMA Drop ==
  ASSUME NEW t, NEW its, NEW s, NEW i, NEW n, NEW f, NEW m,
         Stack(t, its, s, i, n, f, m), s # <<>>
  PROVE  /\ NeedsCatch(Head(s)) => HasCatch(Tail(s))
         /\ \E i1 \in Nat \ {0}, n1 \in Nat :
              /\ Moves(t, its, Head(s), i, n, i1, n1)
              /\ \A f1, m1 \in Nat :
                   /\ f1 <= i1 /\ (f1 >= i \/ f1 >= i1)
                   /\ m1 <= n1
                   /\ \/ m1 >= n \/ m1 >= n1
                      \/ Head(s).do \in Saving /\ m1 >= Head(s).nodes
                   => Stack(t, its, Tail(s), i1, n1, f1, m1)
<1> DEFINE u == Tail(s)
<1>1. /\ IsSeq(u) /\ Len(u) = Len(s) - 1 /\ Len(s) \in Nat /\ Len(s) >= 1 /\ Head(s) = s[1]
      /\ \A k \in 1..(Len(s) - 1) : u[k] = s[k + 1]
  BY StackIs, TailIs
<1>2. PICK h, g : Heights(t, its, s, h, g) /\ h[1] = i /\ g[1] = n
  BY DEF Stack
<1>3. /\ h \in [1..(Len(s) + 1) -> Nat \ {0}] /\ g \in [1..(Len(s) + 1) -> Nat]
      /\ h[Len(s) + 1] = 1 /\ g[Len(s) + 1] = 1
      /\ \A k \in 1..Len(s) : Moves(t, its, s[k], h[k], g[k], h[k + 1], g[k + 1])
      /\ \A k \in 1..Len(s) : s[k].do \in Pinning => \A j \in 1..k : h[j] >= h[k]
      /\ \A k \in 1..Len(s) : s[k].do = "catch" => \A j \in 1..k :
           g[j] >= s[k].nodes /\ (s[j].do \in Saving => s[j].nodes >= s[k].nodes)
      /\ \A k \in 1..Len(s) : s[k].do = "catch" => AfterCatch(s[k], Rest(s, k))
      /\ \A k \in 1..Len(s) : NeedsCatch(s[k]) => \E j \in (k + 1)..Len(s) : s[j].do = "catch"
  BY <1>2 DEF Heights
<1> DEFINE hu == [k \in 1..(Len(u) + 1) |-> h[k + 1]]
           gu == [k \in 1..(Len(u) + 1) |-> g[k + 1]]
<1>4. /\ hu \in [1..(Len(u) + 1) -> Nat \ {0}] /\ gu \in [1..(Len(u) + 1) -> Nat]
      /\ hu[1] = h[2] /\ gu[1] = g[2]
      /\ \A k \in 1..(Len(u) + 1) : hu[k] = h[k + 1] /\ gu[k] = g[k + 1]
  BY <1>1, <1>3
<1>5. hu[Len(u) + 1] = 1 /\ gu[Len(u) + 1] = 1
  <2>1. Len(u) + 1 \in 1..(Len(u) + 1) /\ (Len(u) + 1) + 1 = Len(s) + 1
    BY <1>1
  <2> QED
    BY <1>3, <1>4, <2>1
<1>6. h[2] \in Nat \ {0} /\ g[2] \in Nat /\ Moves(t, its, Head(s), i, n, h[2], g[2])
  <2>1. 2 \in 1..(Len(s) + 1) /\ 1 \in 1..Len(s) /\ 1 + 1 = 2
    BY <1>1
  <2> QED
    BY <1>1, <1>2, <1>3, <2>1
<1>7. ASSUME NeedsCatch(Head(s))
      PROVE  HasCatch(u)
  <2>1. 1 \in 1..Len(s)
    BY <1>1
  <2>2. PICK j \in (1 + 1)..Len(s) : s[j].do = "catch"
    BY <1>1, <1>3, <1>7, <2>1
  <2>3. j - 1 \in 1..Len(u) /\ j - 1 \in 1..(Len(s) - 1) /\ (j - 1) + 1 = j
    BY <1>1
  <2>4. u[j - 1] = s[j]
    BY <1>1, <2>3
  <2> QED
    BY <2>2, <2>3, <2>4 DEF HasCatch
<1> HIDE DEF hu, gu, u
<1>8. ASSUME NEW k \in 1..Len(u)
      PROVE  /\ k + 1 \in 1..Len(s) /\ u[k] = s[k + 1]
             /\ hu[k] = h[k + 1] /\ gu[k] = g[k + 1]
             /\ hu[k + 1] = h[(k + 1) + 1] /\ gu[k + 1] = g[(k + 1) + 1]
  <2>1. k \in 1..(Len(s) - 1) /\ k \in 1..(Len(u) + 1) /\ k + 1 \in 1..(Len(u) + 1)
          /\ k + 1 \in 1..Len(s)
    BY <1>1
  <2> QED
    BY <1>1, <1>4, <2>1
<1>9. ASSUME NEW k \in 1..Len(u)
      PROVE  Rest(u, k) = Rest(s, k + 1)
  <2>1. /\ k \in Nat /\ k + 1 \in Nat /\ 1 <= k + 1 /\ k + 1 <= Len(u) + 1 /\ Len(u) \in Nat
        /\ (k + 1) + 1 \in Nat /\ 1 <= (k + 1) + 1 /\ (k + 1) + 1 <= Len(s) + 1
        /\ Len(u) - (k + 1) + 1 = Len(u) - k /\ Len(s) - ((k + 1) + 1) + 1 = Len(u) - k
    BY <1>1
  <2>2. /\ IsSeq(Rest(u, k)) /\ Len(Rest(u, k)) = Len(u) - k
        /\ \A p \in 1..(Len(u) - k) : Rest(u, k)[p] = u[(k + 1) + p - 1]
    BY <1>1, <2>1, SubSeqIs DEF Rest
  <2>3. /\ IsSeq(Rest(s, k + 1)) /\ Len(Rest(s, k + 1)) = Len(u) - k
        /\ \A p \in 1..(Len(u) - k) : Rest(s, k + 1)[p] = s[((k + 1) + 1) + p - 1]
    <3> DEFINE q == (k + 1) + 1
    <3>1. q \in Nat /\ 1 <= q /\ q <= Len(s) + 1 /\ Len(s) - q + 1 = Len(u) - k /\ IsSeq(s)
      BY <2>1, StackIs
    <3> HIDE DEF q
    <3>2. /\ IsSeq(SubSeq(s, q, Len(s))) /\ Len(SubSeq(s, q, Len(s))) = Len(s) - q + 1
          /\ \A p \in 1..(Len(s) - q + 1) : SubSeq(s, q, Len(s))[p] = s[q + p - 1]
      <4>1. Len(s) <= Len(s)
        BY <1>1
      <4> QED
        BY <1>1, <3>1, <4>1, SubSeqIs
    <3> QED
      BY <3>1, <3>2 DEF Rest, q
  <2>4. ASSUME NEW p \in 1..(Len(u) - k)
        PROVE  u[(k + 1) + p - 1] = s[((k + 1) + 1) + p - 1]
    <3>1. (k + 1) + p - 1 \in 1..(Len(s) - 1)
            /\ ((k + 1) + p - 1) + 1 = ((k + 1) + 1) + p - 1
      BY <1>1, <2>1
    <3> QED
      BY <1>1, <3>1
  <2>5. \A p \in 1..(Len(u) - k) : Rest(u, k)[p] = Rest(s, k + 1)[p]
    BY <2>2, <2>3, <2>4
  <2>6. /\ Rest(u, k) = [p \in 1..Len(Rest(u, k)) |-> Rest(u, k)[p]]
        /\ Rest(s, k + 1) = [p \in 1..Len(Rest(s, k + 1)) |-> Rest(s, k + 1)[p]]
    BY <2>2, <2>3, ListIs
  <2> QED
    BY <2>2, <2>3, <2>5, <2>6
<1>10. ASSUME NEW k \in 1..Len(u)
       PROVE  Moves(t, its, u[k], hu[k], gu[k], hu[k + 1], gu[k + 1])
  BY <1>3, <1>8
<1>11. ASSUME NEW k \in 1..Len(u), u[k].do \in Pinning
       PROVE  hu[k] <= i /\ hu[k] <= h[2] /\ \A j \in 1..k : hu[j] >= hu[k]
  <2>1. \A j \in 1..(k + 1) : h[j] >= h[k + 1]
    BY <1>3, <1>8, <1>11
  <2>2. 1 \in 1..(k + 1) /\ 2 \in 1..(k + 1) /\ h[1] \in Nat /\ h[2] \in Nat /\ h[k + 1] \in Nat
    <3>1. k + 1 \in 1..(Len(s) + 1) /\ 1 \in 1..(Len(s) + 1) /\ 2 \in 1..(Len(s) + 1)
            /\ 1 \in 1..(k + 1) /\ 2 \in 1..(k + 1)
      BY <1>1
    <3>2. \A j \in 1..(Len(s) + 1) : h[j] \in Nat
      BY <1>3
    <3> QED
      BY <3>1, <3>2
  <2>3. ASSUME NEW j \in 1..k
        PROVE  hu[j] >= hu[k]
    <3>1. j \in 1..Len(u) /\ j + 1 \in 1..(k + 1)
      BY <1>1
    <3> QED
      BY <1>8, <2>1, <3>1
  <2>4. hu[k] = h[k + 1]
    BY <1>8
  <2> QED
    BY <1>2, <2>1, <2>2, <2>3, <2>4
<1>12. ASSUME NEW k \in 1..Len(u), u[k].do = "catch"
       PROVE  /\ n >= u[k].nodes /\ g[2] >= u[k].nodes /\ u[k].nodes \in Nat
              /\ Head(s).do \in Saving => Head(s).nodes >= u[k].nodes
              /\ \A j \in 1..k :
                   gu[j] >= u[k].nodes /\ (u[j].do \in Saving => u[j].nodes >= u[k].nodes)
  <2>1. \A j \in 1..(k + 1) :
          g[j] >= u[k].nodes /\ (s[j].do \in Saving => s[j].nodes >= u[k].nodes)
    BY <1>3, <1>8, <1>12
  <2>2. 1 \in 1..(k + 1) /\ 2 \in 1..(k + 1)
    OBVIOUS
  <2>3. ASSUME NEW j \in 1..k
        PROVE  gu[j] >= u[k].nodes /\ (u[j].do \in Saving => u[j].nodes >= u[k].nodes)
    <3>1. j \in 1..Len(u) /\ j + 1 \in 1..(k + 1)
      BY <1>1
    <3> QED
      BY <1>8, <2>1, <3>1
  <2>4. u[k].nodes \in Nat
    BY <1>10, <1>12 DEF Moves, Producing, Using
  <2> QED
    BY <1>1, <1>2, <2>1, <2>2, <2>3, <2>4
<1>13. ASSUME NEW k \in 1..Len(u), u[k].do = "catch"
       PROVE  AfterCatch(u[k], Rest(u, k))
  BY <1>3, <1>8, <1>9, <1>13
<1>14. ASSUME NEW k \in 1..Len(u), NeedsCatch(u[k])
       PROVE  \E j \in (k + 1)..Len(u) : u[j].do = "catch"
  <2>1. PICK j \in ((k + 1) + 1)..Len(s) : s[j].do = "catch"
    BY <1>3, <1>8, <1>14
  <2>2. j - 1 \in (k + 1)..Len(u) /\ j - 1 \in 1..(Len(s) - 1) /\ (j - 1) + 1 = j
    BY <1>1
  <2>3. u[j - 1] = s[j]
    BY <1>1, <2>2
  <2> QED
    BY <2>1, <2>2, <2>3
<1>15. Heights(t, its, u, hu, gu)
  BY <1>4, <1>5, <1>10, <1>11, <1>12, <1>13, <1>14 DEF Heights
<1>16. ASSUME NEW f1 \in Nat, NEW m1 \in Nat,
              f1 <= h[2], f1 >= i \/ f1 >= h[2], m1 <= g[2],
              m1 >= n \/ m1 >= g[2] \/ (Head(s).do \in Saving /\ m1 >= Head(s).nodes)
       PROVE  Stack(t, its, u, h[2], g[2], f1, m1)
  <2>1. i \in Nat /\ n \in Nat
    BY StackIs
  <2>2. ASSUME NEW k \in 1..Len(u), u[k].do \in Pinning
        PROVE  hu[k] <= f1
    <3>1. hu[k] <= i /\ hu[k] <= h[2]
      BY <1>11, <2>2
    <3>2. hu[k] \in Nat
      <4>1. k \in 1..(Len(u) + 1)
        BY <1>1
      <4> QED
        BY <1>4, <4>1
    <3> QED
      BY <1>6, <1>16, <2>1, <3>1, <3>2
  <2>3. ASSUME NEW k \in 1..Len(u), u[k].do = "catch"
        PROVE  u[k].nodes <= m1
    <3>1. /\ n >= u[k].nodes /\ g[2] >= u[k].nodes /\ u[k].nodes \in Nat
          /\ Head(s).do \in Saving => Head(s).nodes >= u[k].nodes
      BY <1>12, <2>3
    <3>2. CASE m1 >= n \/ m1 >= g[2]
      BY <1>6, <2>1, <3>1, <3>2
    <3>3. CASE Head(s).do \in Saving /\ m1 >= Head(s).nodes
      <4>1. Head(s).nodes \in Nat
        BY <1>6, <3>3 DEF Moves, Producing, Using, Saving
      <4> QED
        BY <3>1, <3>3, <4>1
    <3> QED
      BY <1>16, <3>2, <3>3
  <2> QED
    BY <1>1, <1>4, <1>15, <1>16, <2>2, <2>3 DEF Stack
<1> QED
  BY <1>6, <1>7, <1>16 DEF u

(* ParseStates move forward only: what is pinned to them stays so.         *)
LEMMA Advance ==
  ASSUME NEW t, NEW its, NEW s, NEW i, NEW n, NEW f, NEW m,
         Stack(t, its, s, i, n, f, m),
         NEW its2, \A k \in 1..f : its[k].at \in Nat /\ its2[k].at \in Nat /\ its[k].at <= its2[k].at
  PROVE  Stack(t, its2, s, i, n, f, m)
<1>1. PICK h, g : /\ Heights(t, its, s, h, g) /\ h[1] = i /\ g[1] = n
                  /\ \A k \in 1..Len(s) : s[k].do \in Pinning => h[k] <= f
                  /\ \A k \in 1..Len(s) : s[k].do = "catch" => s[k].nodes <= m
  BY DEF Stack
<1>2. ASSUME NEW k \in 1..Len(s)
      PROVE  Moves(t, its2, s[k], h[k], g[k], h[k + 1], g[k + 1])
  <2>1. Moves(t, its, s[k], h[k], g[k], h[k + 1], g[k + 1])
    BY <1>1 DEF Heights
  <2>2. CASE s[k].do \notin {"enter", "operands"}
    BY <2>1, <2>2 DEF Moves, Producing, Using
  <2>3. CASE s[k].do \in {"enter", "operands"}
    <3>1. h[k] <= f /\ f \in Nat
      BY <1>1, <2>3, StackIs DEF Pinning
    <3>2. h[k] \in Nat \ {0}
      <4>1. k \in 1..(Len(s) + 1)
        BY StackIs
      <4> QED
        BY <1>1, <4>1 DEF Heights
    <3>3. its[h[k]].at \in Nat /\ its2[h[k]].at \in Nat /\ its[h[k]].at <= its2[h[k]].at
      <4>1. h[k] \in 1..f
        BY <3>1, <3>2
      <4> QED
        BY <4>1
    <3>4. ASSUME NEW r, Below(t, r, its[h[k]].at)
          PROVE  Below(t, r, its2[h[k]].at)
      <4>1. r.to \in Nat /\ r.to <= its[h[k]].at
        BY <3>4 DEF Below, Ranges
      <4>2. r.to <= its2[h[k]].at
        BY <3>3, <4>1
      <4> QED
        BY <3>4, <4>2 DEF Below
    <3>5. CASE s[k].do = "enter"
      BY <2>1, <3>4, <3>5 DEF Moves, Producing, Using
    <3>6. CASE s[k].do = "operands"
      BY <2>1, <3>4, <3>6 DEF Moves, Producing, Using
    <3> QED
      BY <2>3, <3>5, <3>6
  <2> QED
    BY <2>2, <2>3
<1>3. Heights(t, its2, s, h, g)
  BY <1>1, <1>2 DEF Heights
<1> QED
  BY <1>1, <1>3 DEF Stack

(* Behind a catch the parser goes on, with the ParseStates and the nodes   *)
(* there were when the statement or the result began.                      *)
LEMMA AtCatch ==
  ASSUME NEW t, NEW its, NEW s, NEW i, NEW n, NEW f, NEW m,
         Stack(t, its, s, i, n, f, m),
         NEW c \in 1..Len(s), s[c].do = "catch"
  PROVE  /\ s[c].iters \in 1..i /\ s[c].nodes \in 0..n
         /\ Stack(t, its, Rest(s, c), s[c].iters, s[c].nodes, s[c].iters, s[c].nodes)
<1> DEFINE u == Rest(s, c)
           keep == s[c].nodes
<1>1. i \in Nat \ {0} /\ n \in Nat /\ Len(s) \in Nat /\ IsSeq(s)
  BY StackIs
<1>2. PICK h, g : Heights(t, its, s, h, g) /\ h[1] = i /\ g[1] = n
  BY DEF Stack
<1>3. /\ h \in [1..(Len(s) + 1) -> Nat \ {0}] /\ g \in [1..(Len(s) + 1) -> Nat]
      /\ h[Len(s) + 1] = 1 /\ g[Len(s) + 1] = 1
      /\ \A k \in 1..Len(s) : Moves(t, its, s[k], h[k], g[k], h[k + 1], g[k + 1])
      /\ \A k \in 1..Len(s) : s[k].do \in Pinning => \A j \in 1..k : h[j] >= h[k]
      /\ \A k \in 1..Len(s) : s[k].do = "catch" => \A j \in 1..k :
           g[j] >= s[k].nodes /\ (s[j].do \in Saving => s[j].nodes >= s[k].nodes)
      /\ \A k \in 1..Len(s) : s[k].do = "catch" => AfterCatch(s[k], Rest(s, k))
      /\ \A k \in 1..Len(s) : NeedsCatch(s[k]) => \E j \in (k + 1)..Len(s) : s[j].do = "catch"
  BY <1>2 DEF Heights
<1>4. s[c].iters = h[c] /\ keep \in Nat /\ h[c + 1] = h[c]
  BY <1>3 DEF Moves, Producing, Using
<1>5. h[c] \in Nat \ {0} /\ h[c] <= i /\ keep <= n
  <2>1. \A j \in 1..c : h[j] >= h[c] /\ g[j] >= keep
    BY <1>3 DEF Pinning
  <2>2. 1 \in 1..c /\ c \in 1..(Len(s) + 1)
    BY <1>1
  <2>3. h[c] \in Nat \ {0}
    BY <1>3, <2>2
  <2> QED
    BY <1>1, <1>2, <1>4, <2>1, <2>2, <2>3
<1>6. /\ IsSeq(u) /\ Len(u) = Len(s) - c
      /\ \A k \in 1..(Len(s) - c) : u[k] = s[c + k]
  <2> DEFINE q == c + 1
  <2>1. q \in Nat /\ 1 <= q /\ q <= Len(s) + 1 /\ Len(s) - q + 1 = Len(s) - c /\ Len(s) <= Len(s)
    BY <1>1
  <2>2. \A k \in 1..(Len(s) - c) : q + k - 1 = c + k
    BY <1>1
  <2> HIDE DEF q
  <2>3. /\ IsSeq(SubSeq(s, q, Len(s))) /\ Len(SubSeq(s, q, Len(s))) = Len(s) - q + 1
        /\ \A k \in 1..(Len(s) - q + 1) : SubSeq(s, q, Len(s))[k] = s[q + k - 1]
    BY <1>1, <2>1, SubSeqIs
  <2> QED
    BY <2>1, <2>2, <2>3 DEF Rest, q
<1>7. AfterCatch(s[c], u)
  BY <1>3
<1> DEFINE late(k) == k = 1 \/ (k = 2 /\ u[1].do = "take")
           hu == [k \in 1..(Len(u) + 1) |-> h[c + k]]
           gu == [k \in 1..(Len(u) + 1) |-> IF late(k) THEN keep ELSE g[c + k]]
<1>8. Len(u) \in Nat /\ Len(u) >= 1 /\ (u[1].do = "take" => Len(u) >= 2)
  <2> HIDE DEF u
  <2>1. Len(u) \in Nat
    BY <1>1, <1>6
  <2>2. CASE Len(u) >= 1 /\ u[1].do = "block loop"
    <3>1. u[1].do # "take"
      BY <2>2
    <3> QED
      BY <2>1, <2>2, <3>1
  <2>3. CASE Len(u) >= 2
    BY <2>1, <2>3
  <2> QED
    BY <1>7, <2>2, <2>3 DEF AfterCatch
<1>9. /\ hu \in [1..(Len(u) + 1) -> Nat \ {0}] /\ gu \in [1..(Len(u) + 1) -> Nat]
      /\ \A k \in 1..(Len(u) + 1) : /\ hu[k] = h[c + k]
                                    /\ late(k) => gu[k] = keep
                                    /\ ~late(k) => gu[k] = g[c + k]
  <2>1. \A k \in 1..(Len(u) + 1) : c + k \in 1..(Len(s) + 1)
    BY <1>1, <1>6
  <2> QED
    BY <1>3, <1>4, <2>1
<1>10. hu[1] = h[c] /\ gu[1] = keep
  <2>1. 1 \in 1..(Len(u) + 1) /\ late(1)
    BY <1>8
  <2> QED
    BY <1>4, <1>9, <2>1
<1>11. hu[Len(u) + 1] = 1 /\ gu[Len(u) + 1] = 1
  <2>1. Len(u) + 1 \in 1..(Len(u) + 1) /\ c + (Len(u) + 1) = Len(s) + 1
    BY <1>1, <1>6, <1>8
  <2>2. ~late(Len(u) + 1)
    BY <1>8
  <2> HIDE DEF hu, gu, late
  <2> QED
    BY <1>3, <1>9, <2>1, <2>2
<1> HIDE DEF hu, gu, u, keep, late
<1>12. ASSUME NEW k \in 1..Len(u)
       PROVE  /\ c + k \in 1..Len(s) /\ c + (k + 1) = (c + k) + 1 /\ u[k] = s[c + k]
              /\ k \in 1..(Len(u) + 1) /\ k + 1 \in 1..(Len(u) + 1)
  BY <1>1, <1>6, <1>8
<1>13. ASSUME NEW k \in 1..Len(u)
       PROVE  Moves(t, its, u[k], hu[k], gu[k], hu[k + 1], gu[k + 1])
  <2>1. Moves(t, its, s[c + k], h[c + k], g[c + k], h[(c + k) + 1], g[(c + k) + 1])
    BY <1>3, <1>12
  <2>2. hu[k] = h[c + k] /\ hu[k + 1] = h[c + (k + 1)]
    BY <1>9, <1>12
  <2>3. Moves(t, its, u[k], hu[k], g[c + k], hu[k + 1], g[c + (k + 1)])
    BY <1>12, <2>1, <2>2
  <2>4. CASE ~late(k)
    <3>1. ~late(k + 1)
      <4>1. k # 1 /\ k + 1 # 1 /\ k + 1 # 2
        BY <2>4 DEF late
      <4> QED
        BY <4>1 DEF late
    <3> QED
      BY <1>9, <1>12, <2>3, <2>4, <3>1
  <2>5. CASE k = 1
    <3>1. CASE u[1].do = "block loop" /\ u[1].nodes <= keep
      <4>1. ~(2 = 1) /\ 1 + 1 = 2
        OBVIOUS
      <4>2. ~(u[1].do = "take")
        BY <3>1
      <4>3. ~late(2) /\ u[k].do = "block loop" /\ 1 + 1 = 2
        BY <2>5, <3>1, <4>1, <4>2 DEF late
      <4>4. gu[k] = keep /\ gu[k + 1] = g[c + (k + 1)]
        BY <1>9, <1>10, <1>12, <2>5, <4>3
      <4>5. Moves(t, its, u[k], hu[k], keep, hu[k + 1], g[c + (k + 1)])
        BY <1>4, <2>3, <2>5, <3>1, <4>3 DEF Moves, Producing, Using
      <4> QED
        BY <4>4, <4>5
    <3>2. CASE u[1].do = "take"
      <4>1. late(2) /\ u[k].do = "take" /\ 1 + 1 = 2
        BY <2>5, <3>2 DEF late
      <4>2. gu[k] = keep /\ gu[k + 1] = keep
        BY <1>9, <1>10, <1>12, <2>5, <4>1
      <4>3. Moves(t, its, u[k], hu[k], keep, hu[k + 1], keep)
        BY <2>3, <4>1 DEF Moves, Producing, Using
      <4> QED
        BY <4>2, <4>3
    <3> QED
      BY <1>7, <3>1, <3>2 DEF AfterCatch, keep
  <2>6. CASE k # 1 /\ late(k)
    <3>1. k = 2 /\ u[1].do = "take" /\ ~late(k + 1)
      <4>1. k = 2 /\ u[1].do = "take" /\ k + 1 # 1 /\ k + 1 # 2
        BY <2>6 DEF late
      <4> QED
        BY <4>1 DEF late
    <3>2. u[2].do = "make block" /\ u[2].nodes <= keep
      <4>1. ~(u[1].do = "block loop")
        BY <3>1
      <4> QED
        BY <1>7, <4>1 DEF AfterCatch, keep
    <3>3. gu[k] = keep /\ gu[k + 1] = g[c + (k + 1)]
      BY <1>9, <1>12, <2>6, <3>1
    <3>4. Moves(t, its, u[k], hu[k], keep, hu[k + 1], g[c + (k + 1)])
      BY <1>4, <2>3, <3>1, <3>2 DEF Moves, Producing, Using
    <3> QED
      BY <3>3, <3>4
  <2> QED
    BY <2>4, <2>5, <2>6
<1>14. ASSUME NEW k \in 1..Len(u), u[k].do \in Pinning
       PROVE  hu[k] <= h[c] /\ \A j \in 1..k : hu[j] >= hu[k]
  <2>1. \A j \in 1..(c + k) : h[j] >= h[c + k]
    BY <1>3, <1>12, <1>14
  <2>2. hu[k] = h[c + k]
    BY <1>9, <1>12
  <2>3. c \in 1..(c + k) /\ \A j \in 1..k : c + j \in 1..(c + k) /\ j \in 1..(Len(u) + 1)
    BY <1>8
  <2>4. hu[k] \in Nat
    BY <1>9, <1>12
  <2>5. \A j \in 1..k : hu[j] = h[c + j]
    BY <1>9, <2>3
  <2> QED
    BY <1>5, <2>1, <2>2, <2>3, <2>4, <2>5
<1>15. ASSUME NEW k \in 1..Len(u), u[k].do = "catch"
       PROVE  /\ u[k].nodes <= keep
              /\ \A j \in 1..k :
                   gu[j] >= u[k].nodes /\ (u[j].do \in Saving => u[j].nodes >= u[k].nodes)
  <2>1. \A j \in 1..(c + k) :
          g[j] >= u[k].nodes /\ (s[j].do \in Saving => s[j].nodes >= u[k].nodes)
    BY <1>3, <1>12, <1>15
  <2>2. u[k].nodes \in Nat
    BY <1>13, <1>15 DEF Moves, Producing, Using
  <2>3. keep >= u[k].nodes
    <3>1. c \in 1..(c + k)
      OBVIOUS
    <3> QED
      BY <2>1, <3>1 DEF keep, Saving
  <2>4. ASSUME NEW j \in 1..k
        PROVE  gu[j] >= u[k].nodes /\ (u[j].do \in Saving => u[j].nodes >= u[k].nodes)
    <3>1. j \in 1..Len(u) /\ j \in 1..(Len(u) + 1) /\ c + j \in 1..(c + k)
      BY <1>8
    <3>2. gu[j] = keep \/ gu[j] = g[c + j]
      BY <1>9, <3>1
    <3>3. u[j] = s[c + j]
      BY <1>12, <3>1
    <3> QED
      BY <2>1, <2>3, <3>1, <3>2, <3>3
  <2> QED
    BY <1>4, <2>2, <2>3, <2>4
<1>16. ASSUME NEW k \in 1..Len(u)
       PROVE  Rest(u, k) = Rest(s, c + k)
  <2>1. /\ k \in Nat /\ k + 1 \in Nat /\ 1 <= k + 1 /\ k + 1 <= Len(u) + 1 /\ Len(u) <= Len(u)
        /\ Len(u) - (k + 1) + 1 = Len(u) - k
    BY <1>8
  <2>2. /\ IsSeq(Rest(u, k)) /\ Len(Rest(u, k)) = Len(u) - k
        /\ \A p \in 1..(Len(u) - k) : Rest(u, k)[p] = u[(k + 1) + p - 1]
    <3> DEFINE r == k + 1
    <3>1. r \in Nat /\ 1 <= r /\ r <= Len(u) + 1 /\ Len(u) - r + 1 = Len(u) - k
      BY <2>1
    <3> HIDE DEF r
    <3>2. /\ IsSeq(SubSeq(u, r, Len(u))) /\ Len(SubSeq(u, r, Len(u))) = Len(u) - r + 1
          /\ \A p \in 1..(Len(u) - r + 1) : SubSeq(u, r, Len(u))[p] = u[r + p - 1]
      BY <1>6, <1>8, <2>1, <3>1, SubSeqIs
    <3> QED
      BY <3>1, <3>2 DEF Rest, r
  <2> DEFINE q == (c + k) + 1
  <2>3. q \in Nat /\ 1 <= q /\ q <= Len(s) + 1 /\ Len(s) - q + 1 = Len(u) - k /\ Len(s) <= Len(s)
    BY <1>1, <1>6, <1>12
  <2>4. \A p \in 1..(Len(u) - k) : q + p - 1 = c + ((k + 1) + p - 1) /\ (k + 1) + p - 1 \in 1..Len(u)
    BY <1>8
  <2>5. Rest(s, c + k) = SubSeq(s, q, Len(s))
    BY DEF Rest
  <2> HIDE DEF q
  <2>6. /\ IsSeq(SubSeq(s, q, Len(s))) /\ Len(SubSeq(s, q, Len(s))) = Len(u) - k
        /\ \A p \in 1..(Len(u) - k) : SubSeq(s, q, Len(s))[p] = s[q + p - 1]
    BY <1>1, <2>3, SubSeqIs
  <2>7. \A p \in 1..(Len(u) - k) : Rest(u, k)[p] = Rest(s, c + k)[p]
    BY <1>12, <2>2, <2>4, <2>5, <2>6
  <2>8. /\ Rest(u, k) = [p \in 1..Len(Rest(u, k)) |-> Rest(u, k)[p]]
        /\ Rest(s, c + k) = [p \in 1..Len(Rest(s, c + k)) |-> Rest(s, c + k)[p]]
    BY <2>2, <2>5, <2>6, ListIs
  <2> QED
    BY <2>2, <2>5, <2>6, <2>7, <2>8
<1>17. ASSUME NEW k \in 1..Len(u), u[k].do = "catch"
       PROVE  AfterCatch(u[k], Rest(u, k))
  BY <1>3, <1>12, <1>16, <1>17
<1>18. ASSUME NEW k \in 1..Len(u), NeedsCatch(u[k])
       PROVE  \E j \in (k + 1)..Len(u) : u[j].do = "catch"
  <2>1. PICK j \in ((c + k) + 1)..Len(s) : s[j].do = "catch"
    BY <1>3, <1>12, <1>18
  <2>2. j - c \in (k + 1)..Len(u) /\ j - c \in 1..Len(u) /\ c + (j - c) = j
    BY <1>1, <1>6
  <2>3. u[j - c] = s[j]
    BY <1>12, <2>2
  <2> QED
    BY <2>1, <2>2, <2>3
<1>19. Heights(t, its, u, hu, gu)
  BY <1>9, <1>11, <1>13, <1>14, <1>15, <1>17, <1>18 DEF Heights
<1>20. Stack(t, its, u, h[c], keep, h[c], keep)
  <2>1. h[c] \in Nat /\ h[c] <= h[c] /\ keep <= keep
    BY <1>4, <1>5
  <2> QED
    BY <1>4, <1>6, <1>10, <1>14, <1>15, <1>19, <2>1 DEF Stack
<1>21. h[c] \in 1..i /\ keep \in 0..n
  BY <1>1, <1>4, <1>5
<1> QED
  BY <1>4, <1>20, <1>21 DEF u, keep

-----------------------------------------------------------------------------
(* Levels: what lies between two positions outside all brackets is level.  *)
LEMMA LevelWithin ==
  ASSUME NEW t, NEW a \in Nat, NEW b \in Nat, LevelOn(t, a, b), NEW c \in Nat, a <= c
  PROVE  LevelOn(t, c, b)
<1>1. \A p \in c..b : p \in a..b
  OBVIOUS
<1> QED
  BY <1>1 DEF LevelOn

LEMMA LevelOutside ==
  ASSUME NEW t, NEW a \in Nat, 1 <= a, NEW end \in Nat, a <= end, NothingWrong(t, a, end),
         NEW c \in Nat, NEW b \in Nat, a <= c, c <= b, b <= end, Braces(t, a, b) = 0
  PROVE  LevelOn(t, c, b)
<1>1. ASSUME NEW p \in c..b
      PROVE  Braces(t, 1, p) >= Braces(t, 1, b)
  <2>1. 1 \in Int /\ a \in Int /\ p \in Int /\ b \in Int /\ a <= p /\ a <= b /\ p \in a..end
    OBVIOUS
  <2>2. Braces(t, 1, p) = Braces(t, 1, a) + Braces(t, a, p)
    BY <2>1, BracesFrom
  <2>3. Braces(t, 1, b) = Braces(t, 1, a) + Braces(t, a, b)
    BY <2>1, BracesFrom
  <2>4. Braces(t, a, p) >= 0
    <3>1. end \in Int
      OBVIOUS
    <3> QED
      BY <2>1, <3>1, NestedBraces
  <2>5. Braces(t, 1, a) \in Int /\ Braces(t, a, p) \in Int
    BY <2>1, BracesIs
  <2> QED
    BY <2>2, <2>3, <2>4, <2>5
<1> QED
  BY <1>1 DEF LevelOn

(* The operands of an expression that is scanned without an error.         *)
LEMMA OperandsBelow ==
  ASSUME NEW t, NEW a \in Nat, 1 <= a, NEW to \in Nat, a <= to,
         NEW end, end = ScanEnd(t, a, to), ~ScanThrows(t, a, to, end)
  PROVE  LET ranges == OperandRanges(t, a, end) IN
         /\ end \in a..to /\ a < end
         /\ ranges \in Seq(Ranges) /\ ranges # <<>>
         /\ \A k \in 1..Len(ranges) : Below(t, ranges[k], end)
<1> DEFINE ranges == OperandRanges(t, a, end)
<1>1. end \in a..to /\ NothingWrong(t, a, end) /\ Depth(t, a, end) = 0
  BY ScanNests
<1>2. end \in Nat /\ a <= end
  BY <1>1
<1>3. /\ ranges \in Seq(Ranges)
      /\ \A k \in 1..Len(ranges) : Operandlike(t, a, end, ranges[k])
  BY <1>2, RangesAre
<1>4. ranges # <<>>
  BY DEF ScanThrows
<1> HIDE DEF ranges
<1>5. ASSUME NEW k \in 1..Len(ranges)
      PROVE  Below(t, ranges[k], end) /\ a < end
  <2> DEFINE r == ranges[k]
  <2>1. r \in Ranges /\ a <= r.from /\ r.from < r.to /\ r.to <= end /\ Depth(t, a, r.to) = 0
    BY <1>1, <1>3 DEF Operandlike
  <2> HIDE DEF r
  <2>2. r.from \in Nat /\ r.to \in Nat
    BY <2>1 DEF Ranges
  <2>3. r.to \in a..end /\ 1 <= r.from /\ r.from <= r.to /\ a < end /\ end \in Int /\ a \in Int
    BY <1>2, <2>1, <2>2
  <2>4. Braces(t, a, r.to) = 0
    BY <1>1, <1>2, <2>1, <2>3, NestedBraces
  <2>5. LevelOn(t, r.from, r.to)
    BY <1>1, <1>2, <2>1, <2>2, <2>3, <2>4, LevelOutside
  <2> QED
    BY <2>1, <2>3, <2>5 DEF Below, r
<1>6. 1 \in 1..Len(ranges)
  <2>1. Len(ranges) \in Nat /\ Len(ranges) # 0
    BY <1>3, <1>4, EmptySeq, LenProperties
  <2> QED
    BY <2>1
<1> QED
  BY <1>1, <1>3, <1>4, <1>5, <1>6 DEF ranges

(* What is left of an expression in parentheses.                           *)
LEMMA StrippedBelow ==
  ASSUME NEW t, NEW a \in Nat, 1 <= a, NEW to \in Nat, a <= to,
         NEW end, end = ScanEnd(t, a, to), ~ScanThrows(t, a, to, end),
         WrappedInParens(t, a, to, end)
  PROVE  LET r == OperandRanges(t, a, end)[1]
         IN  Below(t, Span(r.from + 1, r.to - 1), end)
<1> DEFINE ranges == OperandRanges(t, a, end)
<1>1. end \in a..to /\ NothingWrong(t, a, end) /\ Depth(t, a, end) = 0
  BY ScanNests
<1>2. end \in Nat /\ a <= end /\ a < end
  <2>1. a < end
    BY OperandsBelow
  <2> QED
    BY <1>1, <2>1
<1>3. /\ ranges \in Seq(Ranges) /\ ranges # <<>>
      /\ \A k \in 1..Len(ranges) : Operandlike(t, a, end, ranges[k])
  BY <1>2, RangesAre, OperandsBelow
<1> HIDE DEF ranges
<1>4. \A p \in a..(end - 1) : Depth(t, a, p) = 0 => t[p] = "("
  BY DEF WrappedInParens
<1>5. TopOperators(t, a, end) = {}
  BY <1>4 DEF TopOperators, Operators
<1> DEFINE r == ranges[1]
<1>6. Operandlike(t, a, end, r)
  <2>1. Len(ranges) \in Nat /\ Len(ranges) # 0
    BY <1>3, EmptySeq, LenProperties
  <2>2. 1 \in 1..Len(ranges)
    BY <2>1
  <2> QED
    BY <1>3, <2>2
<1> HIDE DEF r
<1>7. r.from = a
  BY <1>5, <1>6 DEF Operandlike, FirstTokens
<1>8. r.to = end
  BY <1>5, <1>6 DEF Operandlike
<1>9. Depth(t, a, a) = 0 /\ a \in a..(end - 1) /\ a \in Int /\ a <= a
  BY <1>2, DepthIs
<1>10. t[a] \in Openers
  BY <1>4, <1>9 DEF Openers
<1>11. Depth(t, a, a + 1) = 1
  <2>1. Depth(t, a, a + 1) = Depth(t, a, a) + 1
    BY <1>9, <1>10, DepthStep
  <2> QED
    BY <1>9, <2>1
<1>12. a + 2 <= end
  <2>1. end # a + 1
    BY <1>1, <1>11
  <2> QED
    BY <1>2, <2>1
<1> DEFINE q == end - 1
<1>13. q \in Nat /\ q + 1 = end /\ a + 1 <= q /\ q \in a..end /\ q \in a..(end - 1) /\ q \in Int
         /\ a <= q /\ end \in a..end /\ end \in Int
  BY <1>2, <1>12
<1>14. /\ \A p \in a..end : Depth(t, a, p) \in Int /\ Depth(t, a, p) >= 0
                              /\ (Depth(t, a, p) = 0 => Braces(t, a, p) = 0)
       /\ \A p \in a..(end - 1) : t[p] \in ClosingBrace =>
            \E o \in a..(p - 1) : t[o] \in OpeningBrace /\ Depth(t, a, o) = Depth(t, a, p) - 1
  BY <1>1, <1>9, <1>13, <1>2, NestedBraces
<1>15. Braces(t, a, end) = 0
  BY <1>1, <1>13, <1>14
<1> HIDE DEF q
<1>16. t[q] \notin OpeningBrace
  <2> SUFFICES ASSUME t[q] \in OpeningBrace
               PROVE  FALSE
    OBVIOUS
  <2>1. t[q] \in Openers
    BY DEF OpeningBrace, Openers
  <2>2. Depth(t, a, end) = Depth(t, a, q) + 1
    BY <1>9, <1>13, <2>1, DepthStep
  <2> QED
    BY <1>1, <1>13, <1>14, <2>2
<1>17. t[q] \notin ClosingBrace
  <2> SUFFICES ASSUME t[q] \in ClosingBrace
               PROVE  FALSE
    OBVIOUS
  <2>1. t[q] \in Closers
    BY DEF ClosingBrace, Closers
  <2>2. Depth(t, a, end) = Depth(t, a, q) - 1
    BY <1>9, <1>13, <2>1, DepthStep
  <2>3. PICK o \in a..(q - 1) : t[o] \in OpeningBrace /\ Depth(t, a, o) = Depth(t, a, q) - 1
    BY <1>13, <1>14
  <2>4. o \in a..(end - 1)
    BY <1>13
  <2>5. Depth(t, a, q) \in Int
    BY <1>13, <1>14
  <2>6. o \in a..(end - 1) /\ Depth(t, a, o) = 0
    BY <1>1, <2>2, <2>3, <2>4, <2>5
  <2>7. t[o] = "("
    BY <1>4, <2>6
  <2> QED
    BY <2>3, <2>7 DEF OpeningBrace
<1>18. Braces(t, a, q) = 0
  <2>1. Braces(t, a, q + 1) = Braces(t, a, q)
    BY <1>9, <1>13, <1>16, <1>17, BracesStep
  <2> QED
    BY <1>13, <1>15, <2>1
<1>19. LevelOn(t, a + 1, q)
  <2>1. a + 1 \in Nat /\ a <= a + 1 /\ a + 1 <= q /\ q <= end
    BY <1>13
  <2> QED
    BY <1>1, <1>2, <1>13, <1>18, <2>1, LevelOutside
<1>20. Below(t, Span(a + 1, q), end)
  <2>1. Span(a + 1, q) \in Ranges /\ Span(a + 1, q).from = a + 1 /\ Span(a + 1, q).to = q
    BY <1>13 DEF Span, Ranges
  <2>2. 1 <= a + 1 /\ a + 1 <= q /\ q <= end
    BY <1>13
  <2> QED
    BY <1>19, <2>1, <2>2 DEF Below
<1> QED
  BY <1>7, <1>8, <1>20 DEF r, ranges, q

(* What splitIterAtTTInplace cuts off.                                     *)
SplitPlace(t, a, p) == Depth(t, a, p) = 0 /\ t[p] = "{"
SplitError(t, a, p) == (Depth(t, a, p) = 0 /\ t[p] \in Closers) \/ Mismatched(t, a, p)

LEMMA SplitIsLevel ==
  ASSUME NEW t, NEW a \in Nat, 1 <= a, NEW to \in Nat, a <= to, LevelOn(t, a, to),
         NEW end,
         end = Min({p \in a..(to - 1) : SplitPlace(t, a, p) \/ SplitError(t, a, p)} \union {to})
  PROVE  end \in a..to /\ ((end < to /\ SplitError(t, a, end)) \/ LevelOn(t, a, end))
<1> DEFINE S == {p \in a..(to - 1) : SplitPlace(t, a, p) \/ SplitError(t, a, p)}
           W == S \union {to}
<1>1. W \in SUBSET Int /\ W # {} /\ W \subseteq a..to /\ \A x \in W : a <= x
  OBVIOUS
<1>2. \A p \in a..(to - 1) : p \in W <=> (SplitPlace(t, a, p) \/ SplitError(t, a, p))
  OBVIOUS
<1>3. end = Min(W)
  OBVIOUS
<1> HIDE DEF S, W
<1>4. end \in W /\ \A x \in W : end <= x
  <2>1. a \in Int
    OBVIOUS
  <2>2. Min(W) \in W /\ \A x \in W : Min(W) <= x
    BY ONLY <1>1, <2>1, LeastOf
  <2> QED
    BY <1>3, <2>2
<1>5. end \in a..to
  BY <1>1, <1>4
<1>6. NothingWrong(t, a, end)
  <2>1. ASSUME NEW p \in a..(end - 1)
        PROVE  ~SplitError(t, a, p)
    <3>1. p \in a..(to - 1) /\ ~(end <= p)
      BY <1>5
    <3> QED
      BY <1>2, <1>4, <3>1
  <2> QED
    BY <2>1 DEF NothingWrong, SplitError
<1>7. CASE end < to /\ ~SplitError(t, a, end)
  <2>1. end \in a..(to - 1)
    BY <1>5, <1>7
  <2>2. Depth(t, a, end) = 0
    BY <1>2, <1>4, <1>7, <2>1 DEF SplitPlace
  <2>3. end \in Int /\ a \in Int /\ a <= end /\ end \in a..end /\ end \in Nat /\ end <= end /\ a <= a
    BY <1>5
  <2>4. Braces(t, a, end) = 0
    BY <1>6, <2>2, <2>3, NestedBraces
  <2>5. LevelOn(t, a, end)
    BY <1>6, <2>3, <2>4, LevelOutside
  <2> QED
    BY <1>5, <2>5
<1>8. CASE end = to
  BY <1>5, <1>8
<1> QED
  BY <1>5, <1>7, <1>8

-----------------------------------------------------------------------------
(* A block whose brace the range has inside a level range has its end.     *)
LEMMA MatchedIs ==
  ASSUME BracesMatch, tokens \in Seq(TokenType)
  PROVE  Matched(tokens)
<1>1. \A S, p : Count(S, 1, p) = Cardinality({q \in 1..p : tokens[q] \in S})
  BY DEF Count
<1>2. Len(tokens) \in Nat
  BY LenProperties
<1>3. ASSUME NEW S, NEW p \in Nat
      PROVE  Count(S, 1, p) = Tokens(tokens, S, 1, p + 1)
  <2>1. (p + 1) - 1 = p
    OBVIOUS
  <2> QED
    BY <1>1, <2>1 DEF Tokens
<1>4. ASSUME NEW S, NEW p \in Nat
      PROVE  Tokens(tokens, S, 1, p + 1) \in Nat
  <2>1. p + 1 \in Int /\ 1 <= p + 1 /\ 1 \in Int
    OBVIOUS
  <2> QED
    BY <2>1, CountStep
<1>5. ASSUME NEW p \in Nat
      PROVE  Braces(tokens, 1, p + 1) = Count(OpeningBrace, 1, p) - Count(ClosingBrace, 1, p)
               /\ Count(OpeningBrace, 1, p) \in Nat /\ Count(ClosingBrace, 1, p) \in Nat
  BY <1>3, <1>4 DEF Braces
<1>6. /\ Count(OpeningBrace, 1, Len(tokens)) = Count(ClosingBrace, 1, Len(tokens))
      /\ \A p \in 1..Len(tokens) : Count(OpeningBrace, 1, p) >= Count(ClosingBrace, 1, p)
  BY DEF BracesMatch, OpeningBrace, ClosingBrace
<1>7. Braces(tokens, 1, Len(tokens) + 1) = 0
  BY <1>2, <1>5, <1>6
<1>8. ASSUME NEW p \in 1..(Len(tokens) + 1)
      PROVE  Braces(tokens, 1, p) >= 0
  <2>1. CASE p = 1
    <3>1. Braces(tokens, 1, 1) = 0
      BY BracesIs
    <3> QED
      BY <2>1, <3>1
  <2>2. CASE p # 1
    <3> DEFINE q == p - 1
    <3>1. q \in 1..Len(tokens) /\ q \in Nat /\ q + 1 = p
      BY <1>2, <2>2
    <3> HIDE DEF q
    <3>2. Count(OpeningBrace, 1, q) >= Count(ClosingBrace, 1, q)
      BY <1>6, <3>1
    <3>3. /\ Braces(tokens, 1, q + 1) = Count(OpeningBrace, 1, q) - Count(ClosingBrace, 1, q)
          /\ Count(OpeningBrace, 1, q) \in Nat /\ Count(ClosingBrace, 1, q) \in Nat
      BY ONLY <1>5, <3>1
    <3>4. Braces(tokens, 1, q + 1) >= 0
      BY ONLY <3>2, <3>3
    <3> QED
      BY <3>1, <3>4
  <2> QED
    BY <2>1, <2>2
<1> QED
  BY <1>7, <1>8 DEF Matched

LEMMA BlockHasEnd ==
  ASSUME tokens \in Seq(TokenType), NEW at \in Nat, 1 <= at, NEW to \in Nat, at + 1 < to,
         LevelOn(tokens, at, to), tokens[at] \in OpeningBrace, NoBlockEnd(at + 1, to)
  PROVE  ~BracesMatch
<1> SUFFICES ASSUME BracesMatch
             PROVE  FALSE
  OBVIOUS
<1> DEFINE a == at + 1
           B(p) == Braces(tokens, a, p)
<1>1. a \in Nat /\ 1 <= a /\ a < to /\ at \in Int /\ a \in Int /\ to \in Int /\ 1 \in Int
  OBVIOUS
<1>2. \A p \in at..to : Braces(tokens, 1, p) >= Braces(tokens, 1, to)
  BY MatchedIs DEF LevelOn
<1>3. \A S, p : Count(S, a, p - 1) = Tokens(tokens, S, a, p)
  BY DEF Count, Tokens
<1>4. /\ \A p \in a..(to - 2) :
           ~(tokens[p] \in ClosingBrace
              /\ Count(OpeningBrace, a, p - 1) = Count(ClosingBrace, a, p - 1))
      /\ Count(OpeningBrace, a, to - 2) # Count(ClosingBrace, a, to - 2)
  BY DEF NoBlockEnd, BlockEnds, OpeningBrace, ClosingBrace
<1>5. tokens[at] \notin ClosingBrace
  BY DEF OpeningBrace, ClosingBrace
<1>6. Braces(tokens, 1, a) = Braces(tokens, 1, at) + 1 /\ Braces(tokens, 1, at) \in Int
  BY <1>1, BracesStep
<1> HIDE DEF a
<1>7. ASSUME NEW p \in Int, a <= p
      PROVE  /\ Tokens(tokens, OpeningBrace, a, p) \in Nat
             /\ Tokens(tokens, ClosingBrace, a, p) \in Nat
  BY <1>1, <1>7, CountStep
<1>8. ASSUME NEW p \in a..(to - 2), tokens[p] \in ClosingBrace
      PROVE  Braces(tokens, a, p) # 0
  <2>1. Tokens(tokens, OpeningBrace, a, p) # Tokens(tokens, ClosingBrace, a, p)
    BY <1>3, <1>4, <1>8
  <2>2. /\ Tokens(tokens, OpeningBrace, a, p) \in Nat
        /\ Tokens(tokens, ClosingBrace, a, p) \in Nat
    BY <1>1, <1>7
  <2> QED
    BY <2>1, <2>2 DEF Braces
<1>9. Braces(tokens, a, to - 1) # 0
  <2>1. (to - 1) - 1 = to - 2 /\ to - 1 \in Int /\ a <= to - 1
    BY <1>1
  <2>2. Tokens(tokens, OpeningBrace, a, to - 1) # Tokens(tokens, ClosingBrace, a, to - 1)
    BY <1>3, <1>4, <2>1
  <2>3. /\ Tokens(tokens, OpeningBrace, a, to - 1) \in Nat
        /\ Tokens(tokens, ClosingBrace, a, to - 1) \in Nat
    BY <1>7, <2>1
  <2> QED
    BY <2>2, <2>3 DEF Braces
<1> DEFINE T == {n \in Nat : a + n <= to - 1 => Braces(tokens, a, a + n) >= 0}
<1>10. to - 1 - a \in T
  <2>1. 0 \in T
    <3>1. Braces(tokens, a, a) = 0 /\ a + 0 = a
      BY <1>1, BracesIs
    <3> QED
      BY <3>1
  <2>2. ASSUME NEW n \in Nat, n \in T
        PROVE  n + 1 \in T
    <3> DEFINE p == a + n
    <3>1. p \in Int /\ a <= p /\ a + (n + 1) = p + 1 /\ n + 1 \in Nat
      BY <1>1
    <3>2. p <= to - 1 => Braces(tokens, a, p) >= 0
      BY <2>2
    <3> HIDE DEF p
    <3>3. ASSUME p + 1 <= to - 1
          PROVE  Braces(tokens, a, p + 1) >= 0
      <4>1. p \in a..(to - 2) /\ p <= to - 1
        BY <1>1, <3>1, <3>3
      <4>2. /\ Braces(tokens, a, p) \in Int
            /\ tokens[p] \in OpeningBrace => Braces(tokens, a, p + 1) = Braces(tokens, a, p) + 1
            /\ tokens[p] \in ClosingBrace => Braces(tokens, a, p + 1) = Braces(tokens, a, p) - 1
            /\ tokens[p] \notin OpeningBrace \union ClosingBrace =>
                 Braces(tokens, a, p + 1) = Braces(tokens, a, p)
        BY <1>1, <3>1, BracesStep
      <4>3. tokens[p] \in ClosingBrace => Braces(tokens, a, p) # 0
        BY <1>8, <4>1
      <4> QED
        BY <3>2, <4>1, <4>2, <4>3
    <3> QED
      BY <3>1, <3>3
  <2> HIDE DEF T
  <2>3. to - 1 - a \in Nat
    BY <1>1
  <2> QED
    BY <2>1, <2>2, <2>3, Induction
<1>11. Braces(tokens, a, to - 1) >= 1
  <2>1. a + (to - 1 - a) = to - 1 /\ to - 1 <= to - 1 /\ to - 1 \in Int /\ a <= to - 1
    BY <1>1
  <2>2. Braces(tokens, a, to - 1) >= 0
    BY <1>10, <2>1
  <2>3. Braces(tokens, a, to - 1) \in Int
    BY <1>1, <2>1, BracesIs
  <2> QED
    BY <1>9, <2>2, <2>3
<1> HIDE DEF T
<1>12. Braces(tokens, a, to) >= 0
  <2> DEFINE p == to - 1
  <2>1. p \in Int /\ a <= p /\ p + 1 = to
    BY <1>1
  <2>2. Braces(tokens, a, p) >= 1
    BY <1>11
  <2> HIDE DEF p
  <2>3. /\ Braces(tokens, a, p) \in Int
        /\ \/ Braces(tokens, a, p + 1) = Braces(tokens, a, p) + 1
           \/ Braces(tokens, a, p + 1) = Braces(tokens, a, p) - 1
           \/ Braces(tokens, a, p + 1) = Braces(tokens, a, p)
    BY <1>1, <2>1, BracesStep
  <2> QED
    BY <2>1, <2>2, <2>3
<1>13. Braces(tokens, 1, to) = Braces(tokens, 1, a) + Braces(tokens, a, to)
  <2>1. 1 <= a /\ a <= to
    BY <1>1
  <2> QED
    BY <1>1, <2>1, BracesFrom
<1>14. Braces(tokens, 1, at) >= Braces(tokens, 1, to)
  <2>1. at \in at..to
    BY <1>1 DEF a
  <2> QED
    BY <1>2, <2>1
<1>15. Braces(tokens, a, to) \in Int
  <2>1. a <= to
    BY <1>1
  <2> QED
    BY <1>1, <2>1, BracesIs
<1> QED
  BY <1>6, <1>12, <1>13, <1>14, <1>15

-----------------------------------------------------------------------------
(* A sequence of instructions in front of others, one after the other.     *)
Then(x, s) == <<x>> \o s

LEMMA Peel ==
  ASSUME NEW x, NEW b, NEW s, IsSeq(b), IsSeq(s)
  PROVE  Then(x, b) \o s = Then(x, b \o s) /\ IsSeq(Then(x, b))
<1> DEFINE S == {x} \union {b[k] : k \in 1..Len(b)} \union {s[k] : k \in 1..Len(s)}
<1>1. <<x>> \in Seq(S)
  OBVIOUS
<1>2. b \in [1..Len(b) -> S] /\ s \in [1..Len(s) -> S] /\ Len(b) \in Nat /\ Len(s) \in Nat
  <2>1. b = [k \in 1..Len(b) |-> b[k]] /\ s = [k \in 1..Len(s) |-> s[k]]
    BY ListIs
  <2>2. (\A k \in 1..Len(b) : b[k] \in S) /\ (\A k \in 1..Len(s) : s[k] \in S)
    OBVIOUS
  <2>3. Len(b) \in Nat /\ Len(s) \in Nat
    BY ListIs
  <2> HIDE DEF S
  <2> QED
    BY <2>1, <2>2, <2>3
<1> HIDE DEF S
<1>3. b \in Seq(S) /\ s \in Seq(S)
  BY <1>2
<1>4. (<<x>> \o b) \o s = <<x>> \o (b \o s)
  BY <1>1, <1>3, ConcatAssociative
<1>5. IsSeq(<<x>> \o b)
  BY ConsIs
<1> QED
  BY <1>4, <1>5 DEF Then

LEMMA NoneIs ==
  ASSUME NEW s, IsSeq(s)
  PROVE  IsSeq(<<>>) /\ <<>> \o s = s
<1> DEFINE S == {s[k] : k \in 1..Len(s)}
<1>1. s \in Seq(S) /\ <<>> \in Seq(S)
  BY DEF IsSeq
<1> HIDE DEF S
<1>2. <<>> \o s = s
  BY <1>1
<1> QED
  BY <1>1, <1>2, SeqIs

LEMMA Tuple1 ==
  ASSUME NEW a, NEW s, IsSeq(s)
  PROVE  IsSeq(<<a>>) /\ <<a>> \o s = Then(a, s)
BY OneIs DEF Then

LEMMA Tuple2 ==
  ASSUME NEW a, NEW b, NEW s, IsSeq(s)
  PROVE  IsSeq(<<a, b>>) /\ <<a, b>> \o s =
           Then(a, Then(b, s))
<1> DEFINE u == <<b>>
<1>1. <<a, b>> = Then(a, u)
  <2>1. <<a, b>> = Append(<<a>>, b)
    OBVIOUS
  <2>2. Append(<<a>>, b) = <<a>> \o <<b>>
    OBVIOUS
  <2> QED
    BY <2>1, <2>2 DEF Then
<1>2. IsSeq(u)
  BY Tuple1
<1>3. u \o s = Then(b, s)
  BY Tuple1
<1> HIDE DEF u
<1>4. Then(a, u) \o s = Then(a, u \o s)
  BY ONLY <1>2, IsSeq(s), Peel
<1>5. IsSeq(Then(a, u))
  BY ONLY <1>2, IsSeq(s), Peel
<1> QED
  BY <1>1, <1>3, <1>4, <1>5

LEMMA Tuple3 ==
  ASSUME NEW a, NEW b, NEW c, NEW s, IsSeq(s)
  PROVE  IsSeq(<<a, b, c>>) /\ <<a, b, c>> \o s =
           Then(a, Then(b, Then(c, s)))
<1> DEFINE u == <<b, c>>
<1>1. <<a, b, c>> = Then(a, u)
  BY DEF Then
<1>2. IsSeq(u)
  BY Tuple2
<1>3. u \o s = Then(b, Then(c, s))
  BY Tuple2
<1> HIDE DEF u
<1>4. Then(a, u) \o s = Then(a, u \o s)
  BY ONLY <1>2, IsSeq(s), Peel
<1>5. IsSeq(Then(a, u))
  BY ONLY <1>2, IsSeq(s), Peel
<1> QED
  BY <1>1, <1>3, <1>4, <1>5

LEMMA Tuple4 ==
  ASSUME NEW a, NEW b, NEW c, NEW d, NEW s, IsSeq(s)
  PROVE  IsSeq(<<a, b, c, d>>) /\ <<a, b, c, d>> \o s =
           Then(a, Then(b, Then(c, Then(d, s))))
<1> DEFINE u == <<b, c, d>>
<1>1. <<a, b, c, d>> = Then(a, u)
  BY DEF Then
<1>2. IsSeq(u)
  BY Tuple3
<1>3. u \o s = Then(b, Then(c, Then(d, s)))
  BY Tuple3
<1> HIDE DEF u
<1>4. Then(a, u) \o s = Then(a, u \o s)
  BY ONLY <1>2, IsSeq(s), Peel
<1>5. IsSeq(Then(a, u))
  BY ONLY <1>2, IsSeq(s), Peel
<1> QED
  BY <1>1, <1>3, <1>4, <1>5

LEMMA Tuple5 ==
  ASSUME NEW a, NEW b, NEW c, NEW d, NEW e, NEW s, IsSeq(s)
  PROVE  IsSeq(<<a, b, c, d, e>>) /\ <<a, b, c, d, e>> \o s =
           Then(a, Then(b, Then(c, Then(d, Then(e, s)))))
<1> DEFINE u == <<b, c, d, e>>
<1>1. <<a, b, c, d, e>> = Then(a, u)
  BY DEF Then
<1>2. IsSeq(u)
  BY Tuple4
<1>3. u \o s = Then(b, Then(c, Then(d, Then(e, s))))
  BY Tuple4
<1> HIDE DEF u
<1>4. Then(a, u) \o s = Then(a, u \o s)
  BY ONLY <1>2, IsSeq(s), Peel
<1>5. IsSeq(Then(a, u))
  BY ONLY <1>2, IsSeq(s), Peel
<1> QED
  BY <1>1, <1>3, <1>4, <1>5

LEMMA Tuple6 ==
  ASSUME NEW a, NEW b, NEW c, NEW d, NEW e, NEW f, NEW s, IsSeq(s)
  PROVE  IsSeq(<<a, b, c, d, e, f>>) /\ <<a, b, c, d, e, f>> \o s =
           Then(a, Then(b, Then(c, Then(d, Then(e, Then(f, s))))))
<1> DEFINE u == <<b, c, d, e, f>>
<1>1. <<a, b, c, d, e, f>> = Then(a, u)
  BY DEF Then
<1>2. IsSeq(u)
  BY Tuple5
<1>3. u \o s = Then(b, Then(c, Then(d, Then(e, Then(f, s)))))
  BY Tuple5
<1> HIDE DEF u
<1>4. Then(a, u) \o s = Then(a, u \o s)
  BY ONLY <1>2, IsSeq(s), Peel
<1>5. IsSeq(Then(a, u))
  BY ONLY <1>2, IsSeq(s), Peel
<1> QED
  BY <1>1, <1>3, <1>4, <1>5

LEMMA Tuple7 ==
  ASSUME NEW a, NEW b, NEW c, NEW d, NEW e, NEW f, NEW g, NEW s, IsSeq(s)
  PROVE  IsSeq(<<a, b, c, d, e, f, g>>) /\ <<a, b, c, d, e, f, g>> \o s =
           Then(a, Then(b, Then(c, Then(d, Then(e, Then(f, Then(g, s)))))))
<1> DEFINE u == <<b, c, d, e, f, g>>
<1>1. <<a, b, c, d, e, f, g>> = Then(a, u)
  BY DEF Then
<1>2. IsSeq(u)
  BY Tuple6
<1>3. u \o s = Then(b, Then(c, Then(d, Then(e, Then(f, Then(g, s))))))
  BY Tuple6
<1> HIDE DEF u
<1>4. Then(a, u) \o s = Then(a, u \o s)
  BY ONLY <1>2, IsSeq(s), Peel
<1>5. IsSeq(Then(a, u))
  BY ONLY <1>2, IsSeq(s), Peel
<1> QED
  BY <1>1, <1>3, <1>4, <1>5

LEMMA Tuple8 ==
  ASSUME NEW a, NEW b, NEW c, NEW d, NEW e, NEW f, NEW g, NEW h, NEW s, IsSeq(s)
  PROVE  IsSeq(<<a, b, c, d, e, f, g, h>>) /\ <<a, b, c, d, e, f, g, h>> \o s =
           Then(a, Then(b, Then(c, Then(d, Then(e, Then(f, Then(g, Then(h, s))))))))
<1> DEFINE u == <<b, c, d, e, f, g, h>>
<1>1. <<a, b, c, d, e, f, g, h>> = Then(a, u)
  BY DEF Then
<1>2. IsSeq(u)
  BY Tuple7
<1>3. u \o s = Then(b, Then(c, Then(d, Then(e, Then(f, Then(g, Then(h, s)))))))
  BY Tuple7
<1> HIDE DEF u
<1>4. Then(a, u) \o s = Then(a, u \o s)
  BY ONLY <1>2, IsSeq(s), Peel
<1>5. IsSeq(Then(a, u))
  BY ONLY <1>2, IsSeq(s), Peel
<1> QED
  BY <1>1, <1>3, <1>4, <1>5

LEMMA Tuple9 ==
  ASSUME NEW a, NEW b, NEW c, NEW d, NEW e, NEW f, NEW g, NEW h, NEW i, NEW s, IsSeq(s)
  PROVE  IsSeq(<<a, b, c, d, e, f, g, h, i>>) /\ <<a, b, c, d, e, f, g, h, i>> \o s =
           Then(a, Then(b, Then(c, Then(d, Then(e, Then(f, Then(g, Then(h, Then(i, s)))))))))
<1> DEFINE u == <<b, c, d, e, f, g, h, i>>
<1>1. <<a, b, c, d, e, f, g, h, i>> = Then(a, u)
  BY DEF Then
<1>2. IsSeq(u)
  BY Tuple8
<1>3. u \o s = Then(b, Then(c, Then(d, Then(e, Then(f, Then(g, Then(h, Then(i, s))))))))
  BY Tuple8
<1> HIDE DEF u
<1>4. Then(a, u) \o s = Then(a, u \o s)
  BY ONLY <1>2, IsSeq(s), Peel
<1>5. IsSeq(Then(a, u))
  BY ONLY <1>2, IsSeq(s), Peel
<1> QED
  BY <1>1, <1>3, <1>4, <1>5

-----------------------------------------------------------------------------
(* The same with a catch among the instructions.                           *)
Held(t, its, s, i, n, f, m) == Stack(t, its, s, i, n, f, m) /\ HasCatch(s)

LEMMA HeldIs ==
  ASSUME NEW t, NEW its, NEW s, NEW i, NEW n, NEW f, NEW m, Held(t, its, s, i, n, f, m)
  PROVE  IsSeq(s) /\ i \in Nat \ {0} /\ n \in Nat /\ f \in Nat /\ m \in Nat
           /\ f <= i /\ m <= n
BY StackIs DEF Held

LEMMA StillCaught ==
  ASSUME NEW s, IsSeq(s), HasCatch(s), NEW x
  PROVE  HasCatch(Then(x, s))
<1>1. PICK k \in 1..Len(s) : s[k].do = "catch"
  BY DEF HasCatch
<1>2. /\ Len(Then(x, s)) = Len(s) + 1 /\ Len(s) \in Nat
      /\ \A j \in 1..Len(s) : Then(x, s)[j + 1] = s[j]
  BY ConsIs DEF Then
<1>3. k + 1 \in 1..Len(Then(x, s)) /\ Then(x, s)[k + 1] = s[k]
  BY <1>2
<1> QED
  BY <1>1, <1>3 DEF HasCatch

LEMMA PutPlain ==
  ASSUME NEW t, NEW its, NEW s, NEW i1, NEW n1, NEW f, NEW m,
         Held(t, its, s, i1, n1, f, m),
         NEW x, NEW i \in Nat \ {0}, NEW n \in Nat,
         Moves(t, its, x, i, n, i1, n1), f <= i, m <= n,
         x.do \notin Pinning, x.do \notin Saving
  PROVE  Held(t, its, Then(x, s), i, n, f, m)
<1>1. Stack(t, its, s, i1, n1, f, m) /\ HasCatch(s)
  BY DEF Held
<1>2. IsSeq(s) /\ f \in Nat /\ m \in Nat
  BY HeldIs
<1>3. f <= f /\ m <= m
  BY <1>2
<1>4. x.do # "catch"
  BY DEF Saving
<1>5. Stack(t, its, Then(x, s), i, n, f, m)
  BY <1>1, <1>2, <1>3, <1>4, Put DEF Then
<1> QED
  BY <1>1, <1>2, <1>5, StillCaught DEF Held

LEMMA PutStep ==
  ASSUME NEW t, NEW its, NEW s, NEW i, NEW n, NEW f, NEW m,
         Held(t, its, s, i, n, f, m), NEW x, x.do \in {"take", "see"}
  PROVE  Held(t, its, Then(x, s), i, n, f, m)
<1>1. Moves(t, its, x, i, n, i, n) /\ x.do \notin Pinning /\ x.do \notin Saving
  BY DEF Moves, Pinning, Saving
<1>2. i \in Nat \ {0} /\ n \in Nat /\ f <= i /\ m <= n
  BY HeldIs
<1> QED
  BY <1>1, <1>2, PutPlain

LEMMA PutProducing ==
  ASSUME NEW t, NEW its, NEW s, NEW i, NEW n \in Nat, NEW f, NEW m,
         Held(t, its, s, i, n + 1, f, m), m <= n, NEW x, x.do \in Producing
  PROVE  Held(t, its, Then(x, s), i, n, f, m)
<1>1. Moves(t, its, x, i, n, i, n + 1) /\ x.do \notin Pinning /\ x.do \notin Saving
  BY DEF Moves, Pinning, Saving, Producing
<1>2. i \in Nat \ {0} /\ f <= i
  BY HeldIs
<1> QED
  BY <1>1, <1>2, PutPlain

LEMMA PutUsing ==
  ASSUME NEW t, NEW its, NEW s, NEW i, NEW n \in Nat, NEW f, NEW m,
         Held(t, its, s, i, n + 1, f, m), NEW x, x.do \in Using
  PROVE  Held(t, its, Then(x, s), i, n + 1, f, m)
<1>1. n + 1 >= 1 /\ n + 1 \in Nat
  OBVIOUS
<1>2. Moves(t, its, x, i, n + 1, i, n + 1) /\ x.do \notin Pinning /\ x.do \notin Saving
  BY <1>1 DEF Moves, Pinning, Saving, Using
<1>3. i \in Nat \ {0} /\ f <= i /\ m <= n + 1
  BY HeldIs
<1> QED
  BY <1>1, <1>2, <1>3, PutPlain

LEMMA PutEnter ==
  ASSUME NEW t, NEW its, NEW s, NEW i \in Nat \ {0}, NEW n, NEW f, NEW m,
         Held(t, its, s, i + 1, n, f, m), f <= i, NEW r, Below(t, r, its[i].at)
  PROVE  Held(t, its, Then(Enter(r), s), i, n, i, m)
<1> DEFINE x == Enter(r)
<1>1. x.do = "enter" /\ x.range = r
  BY DEF Enter
<1> HIDE DEF x
<1>2. Moves(t, its, x, i, n, i + 1, n) /\ x.do \notin Saving /\ x.do # "catch"
  BY <1>1 DEF Moves, Saving
<1>3. IsSeq(s) /\ f \in Nat /\ m \in Nat /\ n \in Nat /\ m <= n /\ m <= m /\ i <= i /\ i \in Nat
  BY HeldIs
<1>4. Stack(t, its, s, i + 1, n, f, m) /\ HasCatch(s)
  BY DEF Held
<1>5. Stack(t, its, Then(x, s), i, n, i, m)
  BY <1>2, <1>3, <1>4, Put DEF Then
<1>6. Held(t, its, Then(x, s), i, n, i, m)
  BY <1>3, <1>4, <1>5, StillCaught DEF Held
<1> QED
  BY <1>6 DEF x

LEMMA PutSplit ==
  ASSUME NEW t, NEW its, NEW s, NEW i \in Nat \ {0}, NEW n, NEW f, NEW m,
         Held(t, its, s, i + 1, n, f, m), f <= i
  PROVE  Held(t, its, Then(Split, s), i, n, f, m)
<1> DEFINE x == Split
<1>1. x.do = "split"
  BY DEF Split
<1> HIDE DEF x
<1>2. Moves(t, its, x, i, n, i + 1, n) /\ x.do \notin Pinning /\ x.do \notin Saving
  BY <1>1 DEF Moves, Pinning, Saving
<1>3. n \in Nat /\ m <= n
  BY HeldIs
<1>4. Held(t, its, Then(x, s), i, n, f, m)
  BY <1>2, <1>3, PutPlain
<1> QED
  BY <1>4 DEF x

LEMMA PutLeave ==
  ASSUME NEW t, NEW its, NEW s, NEW i, NEW n, NEW f, NEW m, Held(t, its, s, i, n, f, m)
  PROVE  Held(t, its, Then(Leave, s), i + 1, n, f, m)
<1> DEFINE x == Leave
<1>1. x.do = "leave"
  BY DEF Leave
<1> HIDE DEF x
<1>2. Moves(t, its, x, i + 1, n, i, n) /\ x.do \notin Pinning /\ x.do \notin Saving
  BY <1>1 DEF Moves, Pinning, Saving
<1>3. i + 1 \in Nat \ {0} /\ n \in Nat /\ f <= i + 1 /\ m <= n
  BY HeldIs
<1>4. Held(t, its, Then(x, s), i + 1, n, f, m)
  BY <1>2, <1>3, PutPlain
<1> QED
  BY <1>4 DEF x

LEMMA PutMake ==
  ASSUME NEW t, NEW its, NEW s, NEW i, NEW n1, NEW f, NEW m,
         Held(t, its, s, i, n1, f, m),
         NEW kind, NEW k \in Nat, NEW n \in Nat, n1 = n - k + 1, k <= n, m <= n
  PROVE  Held(t, its, Then(Make(kind, k), s), i, n, f, m)
<1> DEFINE x == Make(kind, k)
<1>1. x.do = "make" /\ x.n = k
  BY DEF Make
<1> HIDE DEF x
<1>2. Moves(t, its, x, i, n, i, n1) /\ x.do \notin Pinning /\ x.do \notin Saving
  BY <1>1 DEF Moves, Pinning, Saving
<1>3. i \in Nat \ {0} /\ f <= i
  BY HeldIs
<1>4. Held(t, its, Then(x, s), i, n, f, m)
  BY <1>2, <1>3, PutPlain
<1> QED
  BY <1>4 DEF x

LEMMA PutElse ==
  ASSUME NEW t, NEW its, NEW s, NEW i, NEW n \in Nat, NEW f, NEW m,
         Held(t, its, s, i, n + 1, f, m), m <= n + 2
  PROVE  Held(t, its, Then(Parse("else"), s), i, n + 2, f, m)
<1> DEFINE x == Parse("else")
<1>1. x.do = "else"
  BY DEF Parse
<1> HIDE DEF x
<1>2. n + 1 = n + 2 - 1 /\ n + 2 >= 2 /\ n + 2 \in Nat
  OBVIOUS
<1>3. Moves(t, its, x, i, n + 2, i, n + 1) /\ x.do \notin Pinning /\ x.do \notin Saving
  BY <1>1, <1>2 DEF Moves, Pinning, Saving
<1>4. i \in Nat \ {0} /\ f <= i
  BY HeldIs
<1>5. Held(t, its, Then(x, s), i, n + 2, f, m)
  BY <1>2, <1>3, <1>4, PutPlain
<1> QED
  BY <1>5 DEF x

LEMMA PutArguments ==
  ASSUME NEW t, NEW its, NEW s, NEW i, NEW n1, NEW f, NEW m,
         Held(t, its, s, i, n1, f, m),
         NEW k \in Nat, NEW n \in Nat, n1 = n - k, k + 1 <= n, m <= n
  PROVE  Held(t, its, Then(MoreArgs(k), s), i, n, f, m)
<1> DEFINE x == MoreArgs(k)
<1>1. x.do = "arguments" /\ x.n = k
  BY DEF MoreArgs
<1> HIDE DEF x
<1>2. Moves(t, its, x, i, n, i, n1) /\ x.do \notin Pinning /\ x.do \notin Saving
  BY <1>1 DEF Moves, Pinning, Saving
<1>3. i \in Nat \ {0} /\ f <= i
  BY HeldIs
<1>4. Held(t, its, Then(x, s), i, n, f, m)
  BY <1>2, <1>3, PutPlain
<1> QED
  BY <1>4 DEF x

LEMMA PutParameters ==
  ASSUME NEW t, NEW its, NEW s, NEW i, NEW n1, NEW f, NEW m,
         Held(t, its, s, i, n1, f, m),
         NEW k \in Nat, NEW n \in Nat, n1 = n - k + 1, k <= n, m <= n
  PROVE  Held(t, its, Then(MoreParams(k), s), i, n, f, m)
<1> DEFINE x == MoreParams(k)
<1>1. x.do = "parameters" /\ x.n = k
  BY DEF MoreParams
<1> HIDE DEF x
<1>2. Moves(t, its, x, i, n, i, n1) /\ x.do \notin Pinning /\ x.do \notin Saving
  BY <1>1 DEF Moves, Pinning, Saving
<1>3. i \in Nat \ {0} /\ f <= i
  BY HeldIs
<1>4. Held(t, its, Then(x, s), i, n, f, m)
  BY <1>2, <1>3, PutPlain
<1> QED
  BY <1>4 DEF x

LEMMA PutFuse ==
  ASSUME NEW t, NEW its, NEW s, NEW i, NEW n1, NEW f, NEW m,
         Held(t, its, s, i, n1, f, m),
         NEW shape, Xs(shape) \in Nat, NEW n \in Nat, n1 = n - Xs(shape) + 1,
         Xs(shape) <= n, m <= n
  PROVE  Held(t, its, Then(Fuse(shape), s), i, n, f, m)
<1> DEFINE x == Fuse(shape)
<1>1. x.do = "fuse" /\ x.shape = shape
  BY DEF Fuse
<1> HIDE DEF x
<1>2. Moves(t, its, x, i, n, i, n1) /\ x.do \notin Pinning /\ x.do \notin Saving
  BY <1>1 DEF Moves, Pinning, Saving
<1>3. i \in Nat \ {0} /\ f <= i
  BY HeldIs
<1>4. Held(t, its, Then(x, s), i, n, f, m)
  BY <1>2, <1>3, PutPlain
<1> QED
  BY <1>4 DEF x

LEMMA PutOperands ==
  ASSUME NEW t, NEW its, NEW s, NEW i, NEW n \in Nat, NEW f, NEW m,
         NEW ranges \in Seq(Ranges), Held(t, its, s, i, n + Len(ranges), f, m), m <= n,
         \A k \in 1..Len(ranges) : Below(t, ranges[k], its[i].at)
  PROVE  Held(t, its, Then(Operands(ranges), s), i, n, i, m)
<1> DEFINE x == Operands(ranges)
<1>1. x.do = "operands" /\ x.ranges = ranges
  BY DEF Operands
<1> HIDE DEF x
<1>2. Moves(t, its, x, i, n, i, n + Len(ranges)) /\ x.do \notin Saving /\ x.do # "catch"
  BY <1>1 DEF Moves, Saving
<1>3. IsSeq(s) /\ f \in Nat /\ m \in Nat /\ m <= m /\ i <= i /\ i \in Nat \ {0} /\ i \in Nat /\ f <= i
  BY HeldIs
<1>4. Stack(t, its, s, i, n + Len(ranges), f, m) /\ HasCatch(s)
  BY DEF Held
<1>5. Stack(t, its, Then(x, s), i, n, i, m)
  BY <1>2, <1>3, <1>4, Put DEF Then
<1>6. Held(t, its, Then(x, s), i, n, i, m)
  BY <1>3, <1>4, <1>5, StillCaught DEF Held
<1> QED
  BY <1>6 DEF x

(* The loop over the statements of a block, and the end of a block, keep   *)
(* the nodes that were there before it.                                    *)
LEMMA PutBlockEnd ==
  ASSUME NEW t, NEW its, NEW s, NEW i, NEW x, NEW f, NEW m,
         Stack(t, its, s, i, x.nodes + 1, f, m), NEW n \in Nat,
         \/ x.do = "block loop" /\ (x.kind = "toplevel" => x.has_result = FALSE)
              /\ (x.kind = "toplevel" \/ HasCatch(s))
         \/ x.do = "make block",
         x.nodes \in Nat, x.nodes <= n, m <= x.nodes
  PROVE  Stack(t, its, Then(x, s), i, n, f, m)
<1>1. Moves(t, its, x, i, n, i, x.nodes + 1) /\ x.do \notin Pinning /\ x.do # "catch"
  BY DEF Moves, Pinning
<1>2. NeedsCatch(x) => HasCatch(s)
  BY DEF NeedsCatch
<1>3. IsSeq(s) /\ f \in Nat /\ m \in Nat /\ i \in Nat \ {0} /\ f <= i
  BY StackIs
<1>4. f <= f /\ m <= m /\ m <= n
  BY ONLY <1>3, n \in Nat, x.nodes \in Nat, x.nodes <= n, m <= x.nodes
<1> QED
  BY <1>1, <1>2, <1>3, <1>4, Put DEF Then

LEMMA PutCatch ==
  ASSUME NEW t, NEW its, NEW s, NEW i, NEW x, NEW f, NEW m,
         Stack(t, its, s, i, x.nodes + 1, f, m),
         x.do = "catch", x.iters = i, x.nodes \in Nat, m <= x.nodes, AfterCatch(x, s)
  PROVE  Held(t, its, Then(x, s), i, x.nodes + 1, i, x.nodes)
<1>1. Moves(t, its, x, i, x.nodes + 1, i, x.nodes + 1)
  BY DEF Moves
<1>2. ~NeedsCatch(x)
  BY DEF NeedsCatch
<1>3. IsSeq(s) /\ f \in Nat /\ m \in Nat /\ i \in Nat \ {0} /\ i \in Nat /\ f <= i
  BY StackIs
<1>4. i <= i /\ x.nodes <= x.nodes /\ x.nodes <= x.nodes + 1 /\ x.nodes + 1 \in Nat
  BY <1>3
<1>5. Stack(t, its, Then(x, s), i, x.nodes + 1, i, x.nodes)
  BY <1>1, <1>2, <1>3, <1>4, Put DEF Then
<1>6. HasCatch(Then(x, s))
  <2>1. Len(Then(x, s)) = Len(s) + 1 /\ Len(s) \in Nat /\ Then(x, s)[1] = x
    BY <1>3, ConsIs DEF Then
  <2>2. 1 \in 1..Len(Then(x, s))
    BY <2>1
  <2> QED
    BY <2>1, <2>2 DEF HasCatch
<1> QED
  BY <1>5, <1>6 DEF Held

-----------------------------------------------------------------------------
(* What the parse functions are made of leaves one node more.              *)
LEMMA JoinThree ==
  ASSUME NEW a, NEW b, NEW c, IsSeq(a), IsSeq(b), IsSeq(c)
  PROVE  (a \o b) \o c = a \o (b \o c) /\ IsSeq(a \o b)
<1> DEFINE A == {a[k] : k \in 1..Len(a)}
           B == {b[k] : k \in 1..Len(b)}
           C == {c[k] : k \in 1..Len(c)}
           S == A \union B \union C
<1>1. a \in [1..Len(a) -> A] /\ b \in [1..Len(b) -> B] /\ c \in [1..Len(c) -> C]
  <2>1. /\ a = [k \in 1..Len(a) |-> a[k]] /\ b = [k \in 1..Len(b) |-> b[k]]
        /\ c = [k \in 1..Len(c) |-> c[k]]
    BY ListIs
  <2>2. /\ \A k \in 1..Len(a) : a[k] \in A
        /\ \A k \in 1..Len(b) : b[k] \in B
        /\ \A k \in 1..Len(c) : c[k] \in C
    OBVIOUS
  <2> HIDE DEF A, B, C
  <2> QED
    BY <2>1, <2>2
<1> HIDE DEF A, B, C
<1>2. a \in [1..Len(a) -> S] /\ b \in [1..Len(b) -> S] /\ c \in [1..Len(c) -> S]
  BY <1>1
<1> HIDE DEF S
<1>3. a \in Seq(S) /\ b \in Seq(S) /\ c \in Seq(S)
  BY <1>2, ListIs
<1>4. (a \o b) \o c = a \o (b \o c)
  BY <1>3, ConcatAssociative
<1> QED
  BY <1>4, JoinIs

LEMMA ThenIsSeq ==
  ASSUME NEW x, NEW s, IsSeq(s)
  PROVE  IsSeq(Then(x, s)) /\ <<x>> \o s = Then(x, s)
BY ConsIs DEF Then

LEMMA IfCondIs ==
  ASSUME NEW t, NEW its, NEW s, NEW i \in Nat \ {0}, NEW n \in Nat, NEW f, NEW m,
         Held(t, its, s, i, n + 1, f, m), m <= n
  PROVE  IsSeq(IfCond) /\ Held(t, its, IfCond \o s, i, n, f, m)
<1> DEFINE x1 == Take({"if"})
           x2 == See(TokenType \ {"{"})
           x3 == Split
           x4 == Expr
           x5 == Leave
           x6 == Block("plain")
           x7 == Parse("else")
<1>1. IfCond = <<x1, x2, x3, x4, x5, x6, x7>>
  BY DEF IfCond
<1>2. x1.do \in {"take", "see"}
  BY DEF Take
<1>3. x2.do \in {"take", "see"}
  BY DEF See
<1>4. x4.do \in Producing
  BY DEF Producing, Expr, Parse
<1>5. x6.do \in Producing
  BY DEF Producing, Block
<1> HIDE DEF x1, x2, x3, x4, x5, x6, x7
<1>6. IsSeq(s) /\ f \in Nat /\ m \in Nat /\ f <= i
  BY HeldIs
<1>7. /\ n + 1 \in Nat /\ m <= n + 1
      /\ n + 2 \in Nat /\ m <= n + 2
      /\ n + 2 = (n + 1) + 1
  BY <1>6
<1>8. IsSeq(IfCond) /\ IfCond \o s =
        Then(x1, Then(x2, Then(x3, Then(x4, Then(x5, Then(x6, Then(x7, s)))))))
  BY <1>1, <1>6, Tuple7, SMTT(30)
<1> DEFINE s7 == Then(x7, s)
           s6 == Then(x6, s7)
           s5 == Then(x5, s6)
           s4 == Then(x4, s5)
           s3 == Then(x3, s4)
           s2 == Then(x2, s3)
           s1 == Then(x1, s2)
<1>9. Held(t, its, s7, i, n + 2, f, m)
  BY <1>6, <1>7, PutElse DEF x7
<1> HIDE DEF s7
<1>10. Held(t, its, s6, i, n + 1, f, m)
  BY <1>5, <1>6, <1>7, <1>9, PutProducing
<1> HIDE DEF s6
<1>11. Held(t, its, s5, i + 1, n + 1, f, m)
  BY <1>6, <1>7, <1>10, PutLeave DEF x5
<1> HIDE DEF s5
<1>12. Held(t, its, s4, i + 1, n, f, m)
  BY <1>4, <1>6, <1>7, <1>11, PutProducing
<1> HIDE DEF s4
<1>13. Held(t, its, s3, i, n, f, m)
  BY <1>6, <1>7, <1>12, PutSplit DEF x3
<1> HIDE DEF s3
<1>14. Held(t, its, s2, i, n, f, m)
  BY <1>3, <1>13, PutStep
<1> HIDE DEF s2
<1>15. Held(t, its, s1, i, n, f, m)
  BY <1>2, <1>14, PutStep
<1> HIDE DEF s1
<1> QED
  BY <1>8, <1>15 DEF s7, s6, s5, s4, s3, s2, s1

LEMMA WhileLoopIs ==
  ASSUME NEW t, NEW its, NEW s, NEW i \in Nat \ {0}, NEW n \in Nat, NEW f, NEW m,
         Held(t, its, s, i, n + 1, f, m), m <= n
  PROVE  IsSeq(WhileLoop) /\ Held(t, its, WhileLoop \o s, i, n, f, m)
<1> DEFINE x1 == Take({"while"})
           x2 == Split
           x3 == Expr
           x4 == Leave
           x5 == Block("loop")
           x6 == Make("While", 2)
<1>1. WhileLoop = <<x1, x2, x3, x4, x5, x6>>
  BY DEF WhileLoop
<1>2. x1.do \in {"take", "see"}
  BY DEF Take
<1>3. x3.do \in Producing
  BY DEF Producing, Expr, Parse
<1>4. x5.do \in Producing
  BY DEF Producing, Block
<1> HIDE DEF x1, x2, x3, x4, x5, x6
<1>5. IsSeq(s) /\ f \in Nat /\ m \in Nat /\ f <= i
  BY HeldIs
<1>6. /\ n + 1 \in Nat /\ m <= n + 1
      /\ n + 2 \in Nat /\ m <= n + 2
      /\ n + 2 = (n + 1) + 1
  BY <1>5
<1>7. IsSeq(WhileLoop) /\ WhileLoop \o s =
        Then(x1, Then(x2, Then(x3, Then(x4, Then(x5, Then(x6, s))))))
  BY <1>1, <1>5, Tuple6, SMTT(30)
<1> DEFINE s6 == Then(x6, s)
           s5 == Then(x5, s6)
           s4 == Then(x4, s5)
           s3 == Then(x3, s4)
           s2 == Then(x2, s3)
           s1 == Then(x1, s2)
<1>8. Held(t, its, s6, i, n + 2, f, m)
  <2>1. n + 1 = (n + 2) - 2 + 1 /\ 2 <= n + 2 /\ 2 \in Nat
    OBVIOUS
  <2> QED
    BY <2>1, <1>5, <1>6, PutMake DEF x6
<1> HIDE DEF s6
<1>9. Held(t, its, s5, i, n + 1, f, m)
  BY <1>4, <1>5, <1>6, <1>8, PutProducing
<1> HIDE DEF s5
<1>10. Held(t, its, s4, i + 1, n + 1, f, m)
  BY <1>5, <1>6, <1>9, PutLeave DEF x4
<1> HIDE DEF s4
<1>11. Held(t, its, s3, i + 1, n, f, m)
  BY <1>3, <1>5, <1>6, <1>10, PutProducing
<1> HIDE DEF s3
<1>12. Held(t, its, s2, i, n, f, m)
  BY <1>5, <1>6, <1>11, PutSplit DEF x2
<1> HIDE DEF s2
<1>13. Held(t, its, s1, i, n, f, m)
  BY <1>2, <1>12, PutStep
<1> HIDE DEF s1
<1> QED
  BY <1>7, <1>13 DEF s6, s5, s4, s3, s2, s1

LEMMA ForLoopIs ==
  ASSUME NEW t, NEW its, NEW s, NEW i \in Nat \ {0}, NEW n \in Nat, NEW f, NEW m,
         Held(t, its, s, i, n + 1, f, m), m <= n
  PROVE  IsSeq(ForLoop) /\ Held(t, its, ForLoop \o s, i, n, f, m)
<1> DEFINE x1 == Take({"for"})
           x2 == Split
           x3 == Statement(FALSE)
           x4 == Expr
           x5 == Take({";"})
           x6 == Statement(FALSE)
           x7 == Leave
           x8 == Block("loop")
           x9 == Make("For", 4)
<1>1. ForLoop = <<x1, x2, x3, x4, x5, x6, x7, x8, x9>>
  BY DEF ForLoop
<1>2. x1.do \in {"take", "see"}
  BY DEF Take
<1>3. x3.do \in Producing
  BY DEF Producing, Statement
<1>4. x4.do \in Producing
  BY DEF Producing, Expr, Parse
<1>5. x5.do \in {"take", "see"}
  BY DEF Take
<1>6. x6.do \in Producing
  BY DEF Producing, Statement
<1>7. x8.do \in Producing
  BY DEF Producing, Block
<1> HIDE DEF x1, x2, x3, x4, x5, x6, x7, x8, x9
<1>8. IsSeq(s) /\ f \in Nat /\ m \in Nat /\ f <= i
  BY HeldIs
<1>9. /\ n + 1 \in Nat /\ m <= n + 1
      /\ n + 2 \in Nat /\ m <= n + 2
      /\ n + 3 \in Nat /\ m <= n + 3
      /\ n + 4 \in Nat /\ m <= n + 4
      /\ n + 2 = (n + 1) + 1
      /\ n + 3 = (n + 2) + 1
      /\ n + 4 = (n + 3) + 1
  BY <1>8
<1>10. IsSeq(ForLoop) /\ ForLoop \o s =
        Then(x1, Then(x2, Then(x3, Then(x4, Then(x5, Then(x6, Then(x7, Then(x8, Then(x9, s)))))))))
  <2>1. IsSeq(<<x1, x2, x3, x4, x5, x6, x7, x8, x9>>) /\ <<x1, x2, x3, x4, x5, x6, x7, x8, x9>> \o s =
          Then(x1, Then(x2, Then(x3, Then(x4, Then(x5, Then(x6, Then(x7, Then(x8, Then(x9, s)))))))))
    BY ONLY <1>8, Tuple9
  <2> QED
    BY ONLY <1>1, <2>1
<1> DEFINE s9 == Then(x9, s)
           s8 == Then(x8, s9)
           s7 == Then(x7, s8)
           s6 == Then(x6, s7)
           s5 == Then(x5, s6)
           s4 == Then(x4, s5)
           s3 == Then(x3, s4)
           s2 == Then(x2, s3)
           s1 == Then(x1, s2)
<1>11. Held(t, its, s9, i, n + 4, f, m)
  <2>1. n + 1 = (n + 4) - 4 + 1 /\ 4 <= n + 4 /\ 4 \in Nat
    OBVIOUS
  <2> QED
    BY <2>1, <1>8, <1>9, PutMake DEF x9
<1> HIDE DEF s9
<1>12. Held(t, its, s8, i, n + 3, f, m)
  BY <1>7, <1>8, <1>9, <1>11, PutProducing
<1> HIDE DEF s8
<1>13. Held(t, its, s7, i + 1, n + 3, f, m)
  BY <1>8, <1>9, <1>12, PutLeave DEF x7
<1> HIDE DEF s7
<1>14. Held(t, its, s6, i + 1, n + 2, f, m)
  BY <1>6, <1>8, <1>9, <1>13, PutProducing
<1> HIDE DEF s6
<1>15. Held(t, its, s5, i + 1, n + 2, f, m)
  BY <1>5, <1>14, PutStep
<1> HIDE DEF s5
<1>16. Held(t, its, s4, i + 1, n + 1, f, m)
  BY <1>4, <1>8, <1>9, <1>15, PutProducing
<1> HIDE DEF s4
<1>17. Held(t, its, s3, i + 1, n, f, m)
  BY <1>3, <1>8, <1>9, <1>16, PutProducing
<1> HIDE DEF s3
<1>18. Held(t, its, s2, i, n, f, m)
  BY <1>8, <1>9, <1>17, PutSplit DEF x2
<1> HIDE DEF s2
<1>19. Held(t, its, s1, i, n, f, m)
  BY <1>2, <1>18, PutStep
<1> HIDE DEF s1
<1> QED
  BY <1>10, <1>19 DEF s9, s8, s7, s6, s5, s4, s3, s2, s1

LEMMA FunctionCallIs ==
  ASSUME NEW t, NEW its, NEW s, NEW i \in Nat \ {0}, NEW n \in Nat, NEW f, NEW m,
         Held(t, its, s, i, n + 1, f, m), m <= n
  PROVE  IsSeq(FunctionCall) /\ Held(t, its, FunctionCall \o s, i, n, f, m)
<1> DEFINE x1 == TakeName
           x2 == Take({"("})
           x3 == Expr
           x4 == MoreArgs(1)
<1>1. FunctionCall = <<x1, x2, x3, x4>>
  BY DEF FunctionCall
<1>2. x1.do \in Producing
  BY DEF Producing, TakeName
<1>3. x2.do \in {"take", "see"}
  BY DEF Take
<1>4. x3.do \in Producing
  BY DEF Producing, Expr, Parse
<1> HIDE DEF x1, x2, x3, x4
<1>5. IsSeq(s) /\ f \in Nat /\ m \in Nat /\ f <= i
  BY HeldIs
<1>6. /\ n + 1 \in Nat /\ m <= n + 1
      /\ n + 2 \in Nat /\ m <= n + 2
      /\ n + 2 = (n + 1) + 1
  BY <1>5
<1>7. IsSeq(FunctionCall) /\ FunctionCall \o s =
        Then(x1, Then(x2, Then(x3, Then(x4, s))))
  BY <1>1, <1>5, Tuple4
<1> DEFINE s4 == Then(x4, s)
           s3 == Then(x3, s4)
           s2 == Then(x2, s3)
           s1 == Then(x1, s2)
<1>8. Held(t, its, s4, i, n + 2, f, m)
  <2>1. n + 1 = (n + 2) - 1 /\ 1 + 1 <= n + 2 /\ 1 \in Nat
    OBVIOUS
  <2> QED
    BY <2>1, <1>5, <1>6, PutArguments DEF x4
<1> HIDE DEF s4
<1>9. Held(t, its, s3, i, n + 1, f, m)
  BY <1>4, <1>5, <1>6, <1>8, PutProducing
<1> HIDE DEF s3
<1>10. Held(t, its, s2, i, n + 1, f, m)
  BY <1>3, <1>9, PutStep
<1> HIDE DEF s2
<1>11. Held(t, its, s1, i, n, f, m)
  BY <1>2, <1>5, <1>6, <1>10, PutProducing
<1> HIDE DEF s1
<1> QED
  BY <1>7, <1>11 DEF s4, s3, s2, s1

LEMMA DeclAssignmentIs ==
  ASSUME NEW t, NEW its, NEW s, NEW i \in Nat \ {0}, NEW n \in Nat, NEW f, NEW m,
         Held(t, its, s, i, n + 1, f, m), m <= n
  PROVE  IsSeq(DeclAssignment) /\ Held(t, its, DeclAssignment \o s, i, n, f, m)
<1> DEFINE x1 == Take({"let"})
           x2 == TakeName
           x3 == Parse("initializer")
<1>1. DeclAssignment = <<x1, x2, x3>>
  BY DEF DeclAssignment
<1>2. x1.do \in {"take", "see"}
  BY DEF Take
<1>3. x2.do \in Producing
  BY DEF Producing, TakeName
<1>4. x3.do \in Using
  BY DEF Parse, Using
<1> HIDE DEF x1, x2, x3
<1>5. IsSeq(s) /\ f \in Nat /\ m \in Nat /\ f <= i
  BY HeldIs
<1>6. n + 1 \in Nat /\ m <= n + 1
  BY <1>5
<1>7. IsSeq(DeclAssignment) /\ DeclAssignment \o s =
        Then(x1, Then(x2, Then(x3, s)))
  BY <1>1, <1>5, Tuple3, SMTT(30)
<1> DEFINE s3 == Then(x3, s)
           s2 == Then(x2, s3)
           s1 == Then(x1, s2)
<1>8. Held(t, its, s3, i, n + 1, f, m)
  BY <1>4, <1>5, <1>6, PutUsing
<1> HIDE DEF s3
<1>9. Held(t, its, s2, i, n, f, m)
  BY <1>3, <1>5, <1>6, <1>8, PutProducing
<1> HIDE DEF s2
<1>10. Held(t, its, s1, i, n, f, m)
  BY <1>2, <1>9, PutStep
<1> HIDE DEF s1
<1> QED
  BY <1>7, <1>10 DEF s3, s2, s1

LEMMA ReturnIs ==
  ASSUME NEW t, NEW its, NEW s, NEW i \in Nat \ {0}, NEW n \in Nat, NEW f, NEW m,
         Held(t, its, s, i, n + 1, f, m), m <= n
  PROVE  IsSeq(Return) /\ Held(t, its, Return \o s, i, n, f, m)
<1> DEFINE x1 == Take({"return"})
           x2 == See(TokenType \ {";"})
           x3 == Expr
           x4 == Take({";"})
           x5 == Make("Return", 1)
<1>1. Return = <<x1, x2, x3, x4, x5>>
  BY DEF Return
<1>2. x1.do \in {"take", "see"}
  BY DEF Take
<1>3. x2.do \in {"take", "see"}
  BY DEF See
<1>4. x3.do \in Producing
  BY DEF Producing, Expr, Parse
<1>5. x4.do \in {"take", "see"}
  BY DEF Take
<1> HIDE DEF x1, x2, x3, x4, x5
<1>6. IsSeq(s) /\ f \in Nat /\ m \in Nat /\ f <= i
  BY HeldIs
<1>7. n + 1 \in Nat /\ m <= n + 1
  BY <1>6
<1>8. IsSeq(Return) /\ Return \o s =
        Then(x1, Then(x2, Then(x3, Then(x4, Then(x5, s)))))
  BY <1>1, <1>6, Tuple5, SMTT(30)
<1> DEFINE s5 == Then(x5, s)
           s4 == Then(x4, s5)
           s3 == Then(x3, s4)
           s2 == Then(x2, s3)
           s1 == Then(x1, s2)
<1>9. Held(t, its, s5, i, n + 1, f, m)
  <2>1. n + 1 = (n + 1) - 1 + 1 /\ 1 <= n + 1 /\ 1 \in Nat
    OBVIOUS
  <2> QED
    BY <2>1, <1>6, <1>7, PutMake DEF x5
<1> HIDE DEF s5
<1>10. Held(t, its, s4, i, n + 1, f, m)
  BY <1>5, <1>9, PutStep
<1> HIDE DEF s4
<1>11. Held(t, its, s3, i, n, f, m)
  BY <1>4, <1>6, <1>7, <1>10, PutProducing
<1> HIDE DEF s3
<1>12. Held(t, its, s2, i, n, f, m)
  BY <1>3, <1>11, PutStep
<1> HIDE DEF s2
<1>13. Held(t, its, s1, i, n, f, m)
  BY <1>2, <1>12, PutStep
<1> HIDE DEF s1
<1> QED
  BY <1>8, <1>13 DEF s5, s4, s3, s2, s1

-----------------------------------------------------------------------------
(* The ParseStates: each inside the tokens, and in front of what the one   *)
(* it is a copy of still has to read.                                      *)
Placed(t, its) ==
  /\ Len(t) \in Nat /\ its \in Seq(States) /\ its # <<>>
  /\ \A k \in 1..Len(its) : /\ 1 <= its[k].at /\ its[k].at <= its[k].to
                            /\ its[k].to <= Len(t) + 1
                            /\ LevelOn(t, its[k].at, its[k].to)
  /\ \A k \in 2..Len(its) : its[k].to <= its[k - 1].at

LEMMA PlacedIs ==
  ASSUME NEW t, NEW its, Placed(t, its)
  PROVE  /\ Len(its) \in Nat \ {0} /\ its \in [1..Len(its) -> States]
         /\ Last(its) = its[Len(its)]
         /\ \A k \in 1..Len(its) : its[k].at \in Nat /\ its[k].to \in Nat
<1>1. its \in Seq(States) /\ its # <<>>
  BY DEF Placed
<1>2. Len(its) \in Nat /\ Len(its) # 0 /\ its \in [1..Len(its) -> States]
  BY <1>1, LenProperties, EmptySeq
<1>3. Last(its) = its[Len(its)]
  BY DEF Last
<1> QED
  BY <1>2, <1>3 DEF States

LEMMA MovePlaced ==
  ASSUME NEW t, NEW its, Placed(t, its), NEW p \in Nat,
         its[Len(its)].at <= p, p <= its[Len(its)].to,
         NEW its2, its2 = [its EXCEPT ![Len(its)].at = p]
  PROVE  /\ Placed(t, its2) /\ Len(its2) = Len(its)
         /\ its2[Len(its)].at = p /\ its2[Len(its)].to = its[Len(its)].to
         /\ \A k \in 1..Len(its) : its[k].at \in Nat /\ its2[k].at \in Nat /\ its[k].at <= its2[k].at
<1> DEFINE n == Len(its)
<1>1. n \in Nat \ {0} /\ its \in [1..n -> States] /\ n \in 1..n
        /\ \A k \in 1..n : its[k].at \in Nat /\ its[k].to \in Nat
  BY PlacedIs
<1>2. /\ \A k \in 1..n : /\ 1 <= its[k].at /\ its[k].at <= its[k].to
                         /\ its[k].to <= Len(t) + 1
                         /\ LevelOn(t, its[k].at, its[k].to)
      /\ \A k \in 2..n : its[k].to <= its[k - 1].at
      /\ Len(t) \in Nat
  BY DEF Placed
<1>3. /\ its2 \in [1..n -> States]
      /\ \A k \in 1..n : k # n => its2[k] = its[k]
      /\ its2[n].at = p /\ its2[n].to = its[n].to
  BY <1>1 DEF States
<1>4. its2 \in Seq(States) /\ Len(its2) = n
  BY <1>1, <1>3
<1>5. its[n].at <= p /\ p <= its[n].to
  OBVIOUS
<1> HIDE DEF n
<1>6. its2 # <<>>
  BY <1>1, <1>4, EmptySeq
<1>7. LevelOn(t, p, its[n].to)
  BY <1>1, <1>2, <1>5, LevelWithin
<1>8. ASSUME NEW k \in 1..n
      PROVE  /\ 1 <= its2[k].at /\ its2[k].at <= its2[k].to /\ its2[k].to <= Len(t) + 1
             /\ LevelOn(t, its2[k].at, its2[k].to)
  <2>1. CASE k = n
    <3>1. 1 <= p
      BY <1>1, <1>2, <1>5
    <3> QED
      BY <1>1, <1>2, <1>3, <1>5, <1>7, <2>1, <3>1
  <2>2. CASE k # n
    BY <1>2, <1>3, <2>2
  <2> QED
    BY <2>1, <2>2
<1>9. ASSUME NEW k \in 2..n
      PROVE  its2[k].to <= its2[k - 1].at
  <2>1. k \in 1..n /\ k - 1 \in 1..n /\ k - 1 # n
    BY <1>1
  <2>2. its2[k].to = its[k].to /\ its2[k - 1] = its[k - 1]
    BY <1>3, <2>1
  <2> QED
    BY <1>2, <2>2
<1>10. \A k \in 1..n : its[k].at \in Nat /\ its2[k].at \in Nat /\ its[k].at <= its2[k].at
  BY <1>1, <1>3, <1>5
<1>11. Placed(t, its2)
  BY <1>2, <1>4, <1>6, <1>8, <1>9 DEF Placed
<1> QED
  BY <1>3, <1>4, <1>10, <1>11 DEF n

LEMMA EnterPlaced ==
  ASSUME NEW t, NEW its, Placed(t, its), NEW r, Below(t, r, its[Len(its)].at),
         NEW x, x = [at |-> r.from, to |-> r.to]
  PROVE  /\ Placed(t, Append(its, x)) /\ Len(Append(its, x)) = Len(its) + 1
         /\ \A k \in 1..Len(its) : Append(its, x)[k] = its[k]
<1> DEFINE n == Len(its)
           its2 == Append(its, x)
<1>1. n \in Nat \ {0} /\ its \in [1..n -> States] /\ n \in 1..n
        /\ \A k \in 1..n : its[k].at \in Nat /\ its[k].to \in Nat
  BY PlacedIs
<1>2. /\ \A k \in 1..n : /\ 1 <= its[k].at /\ its[k].at <= its[k].to
                         /\ its[k].to <= Len(t) + 1
                         /\ LevelOn(t, its[k].at, its[k].to)
      /\ \A k \in 2..n : its[k].to <= its[k - 1].at
      /\ its \in Seq(States) /\ Len(t) \in Nat
  BY DEF Placed
<1>3. /\ r.from \in Nat /\ r.to \in Nat /\ 1 <= r.from /\ r.from <= r.to
      /\ r.to <= its[n].at /\ LevelOn(t, r.from, r.to)
  BY DEF Below, Ranges
<1>4. x \in States /\ x.at = r.from /\ x.to = r.to
  BY <1>3 DEF States
<1>5. /\ its2 \in Seq(States) /\ Len(its2) = n + 1 /\ its2[n + 1] = x
      /\ \A k \in 1..n : its2[k] = its[k]
  BY <1>2, <1>4, AppendProperties
<1> HIDE DEF n, its2
<1>6. its2 # <<>>
  BY <1>1, <1>5, EmptySeq
<1>7. ASSUME NEW k \in 1..(n + 1)
      PROVE  /\ 1 <= its2[k].at /\ its2[k].at <= its2[k].to
             /\ LevelOn(t, its2[k].at, its2[k].to)
  <2>1. CASE k = n + 1
    BY <1>3, <1>4, <1>5, <2>1
  <2>2. CASE k # n + 1
    <3>1. k \in 1..n
      BY <1>1, <2>2
    <3> QED
      BY <1>2, <1>5, <3>1
  <2> QED
    BY <2>1, <2>2
<1>8. ASSUME NEW k \in 2..(n + 1)
      PROVE  its2[k].to <= its2[k - 1].at
  <2>1. CASE k = n + 1
    <3>1. k - 1 = n
      BY <1>1, <2>1
    <3>2. its2[k - 1] = its[n] /\ its2[k] = x
      BY <1>1, <1>5, <2>1, <3>1
    <3> QED
      BY <1>3, <1>4, <3>2
  <2>2. CASE k # n + 1
    <3>1. k \in 2..n /\ k \in 1..n /\ k - 1 \in 1..n
      BY <1>1, <2>2
    <3> QED
      BY <1>2, <1>5, <3>1
  <2> QED
    BY <2>1, <2>2
<1>9. ASSUME NEW k \in 1..(n + 1)
       PROVE  its2[k].to <= Len(t) + 1
  <2>1. CASE k = n + 1
    <3>1. r.to <= its[n].at /\ its[n].at <= its[n].to /\ its[n].to <= Len(t) + 1
            /\ its[n].at \in Nat /\ its[n].to \in Nat
      BY <1>1, <1>2, <1>3
    <3>2. r.to <= Len(t) + 1
      BY <1>2, <1>3, <3>1
    <3> QED
      BY <1>4, <1>5, <2>1, <3>2
  <2>2. CASE k # n + 1
    <3>1. k \in 1..n
      BY <1>1, <2>2
    <3> QED
      BY <1>2, <1>5, <3>1
  <2> QED
    BY <2>1, <2>2
<1> QED
  BY <1>2, <1>5, <1>6, <1>7, <1>8, <1>9 DEF Placed, n, its2

LEMMA CutPlaced ==
  ASSUME NEW t, NEW its, Placed(t, its), NEW c \in 1..Len(its),
         NEW its2, its2 = SubSeq(its, 1, c)
  PROVE  /\ Placed(t, its2) /\ Len(its2) = c
         /\ \A k \in 1..c : its2[k] = its[k]
<1>1. Len(its) \in Nat \ {0} /\ c \in Nat /\ 1 <= c /\ c <= Len(its)
  BY PlacedIs
<1>2. /\ \A k \in 1..Len(its) : /\ 1 <= its[k].at /\ its[k].at <= its[k].to
                                /\ its[k].to <= Len(t) + 1
                                /\ LevelOn(t, its[k].at, its[k].to)
      /\ \A k \in 2..Len(its) : its[k].to <= its[k - 1].at
      /\ its \in Seq(States) /\ Len(t) \in Nat
  BY DEF Placed
<1>3. /\ its2 \in Seq(States) /\ Len(its2) = c /\ \A k \in 1..c : its2[k] = its[k]
  <2>1. \A k \in 1..c : its[k] \in States
    <3>1. \A k \in 1..c : k \in 1..Len(its)
      BY <1>1
    <3> QED
      BY <1>2, <3>1, ElementOfSeq
  <2>2. its2 = [k \in 1..c |-> its[k]]
    <3>1. SubSeq(its, 1, c) = [k \in 1..(c - 1 + 1) |-> its[k + 1 - 1]]
      BY <1>2 DEF SubSeq
    <3>2. c - 1 + 1 = c /\ \A k \in 1..c : k + 1 - 1 = k
      BY <1>1
    <3> QED
      BY <3>1, <3>2
  <2> QED
    BY <1>1, <2>1, <2>2
<1>4. its2 # <<>>
  BY <1>1, <1>3, EmptySeq
<1>5. \A k \in 1..c : k \in 1..Len(its)
  BY <1>1
<1>6. \A k \in 2..c : k \in 2..Len(its) /\ k \in 1..c /\ k - 1 \in 1..c
  BY <1>1
<1>7. \A k \in 2..c : its2[k].to <= its2[k - 1].at
  BY <1>2, <1>3, <1>6
<1>8. \A k \in 1..c : /\ 1 <= its2[k].at /\ its2[k].at <= its2[k].to
                      /\ its2[k].to <= Len(t) + 1
                      /\ LevelOn(t, its2[k].at, its2[k].to)
  BY <1>2, <1>3, <1>5
<1> QED
  BY <1>2, <1>3, <1>4, <1>7, <1>8 DEF Placed

-----------------------------------------------------------------------------
(* The list the fusion works on has an "x" for each of the operands.       *)
LEMMA ShapeCounts ==
  ASSUME NEW t, NEW a \in Nat, NEW end \in Nat, a <= end
  PROVE  Xs(ScanShape(t, a, end)) = Len(OperandRanges(t, a, end))
<1> DEFINE tops   == TopOperators(t, a, end)
           first  == FirstTokens(t, a, end)
           places == InOrder(tops \union first)
           shape  == ScanShape(t, a, end)
           X      == {k \in 1..Len(places) : places[k] \in first}
           f      == [k \in X |-> places[k]]
<1>1. tops \union first \in SUBSET (a..(end - 1)) /\ a \in Int /\ end - 1 \in Int
  BY DEF FirstTokens, TopOperators
<1>2. \A p \in tops : t[p] \in Operators
  BY DEF TopOperators
<1>3. \A p \in first : p \notin tops
  BY DEF FirstTokens
<1>4. shape = [k \in 1..Len(places) |-> IF places[k] \in tops THEN t[places[k]] ELSE "x"]
  BY DEF ScanShape
<1> HIDE DEF tops, first, shape, places
<1>5. /\ places \in Seq(Int) /\ Lists(places, tops \union first)
  BY <1>1, InOrderLists DEF places
<1>6. /\ Len(places) \in Nat /\ \A k \in 1..Len(places) : places[k] \in Int
      /\ \A k \in 1..Len(places) : places[k] \in tops \union first
      /\ \A p \in tops \union first : \E k \in 1..Len(places) : places[k] = p
      /\ \A j, k \in 1..Len(places) : j < k => places[j] < places[k]
  BY <1>5, ElementOfSeq, LenProperties DEF Lists
<1>7. Len(shape) = Len(places) /\ \A k \in 1..Len(places) :
        shape[k] = IF places[k] \in tops THEN t[places[k]] ELSE "x"
  BY <1>4, <1>6
<1>8. "x" \notin Operators
  BY DEF Operators
<1>9. {k \in 1..Len(shape) : shape[k] = "x"} = X
  <2>1. \A k \in 1..Len(places) : (shape[k] = "x") <=> places[k] \in first
    BY <1>2, <1>3, <1>6, <1>7, <1>8
  <2> QED
    BY <1>7, <2>1
<1>10. f \in [X -> first]
  OBVIOUS
<1>11. \A j, k \in X : f[j] = f[k] => j = k
  <2>1. SUFFICES ASSUME NEW j \in X, NEW k \in X, f[j] = f[k], j # k
                 PROVE  FALSE
    OBVIOUS
  <2>2. j \in 1..Len(places) /\ k \in 1..Len(places) /\ places[j] = places[k]
    BY <2>1
  <2> QED
    BY <1>6, <2>1, <2>2
<1>12. \A p \in first : \E k \in X : f[k] = p
  <2>1. SUFFICES ASSUME NEW p \in first
                 PROVE  \E k \in X : f[k] = p
    OBVIOUS
  <2>2. PICK k \in 1..Len(places) : places[k] = p
    BY <1>6
  <2> QED
    BY <2>2
<1>13. IsFiniteSet(X)
  <2>1. X \subseteq 1..Len(places)
    OBVIOUS
  <2>2. IsFiniteSet(1..Len(places))
    BY <1>6, FS_Interval
  <2> HIDE DEF X
  <2> QED
    BY <2>1, <2>2, FS_Subset
<1> HIDE DEF f, X
<1>14. f \in Bijection(X, first)
  BY <1>10, <1>11, <1>12, Fun_IsBij
<1>15. Cardinality(first) = Cardinality(X)
  BY <1>13, <1>14, Fun_ExistsBij, FS_Bijection
<1>16. Len(OperandRanges(t, a, end)) = Cardinality(first)
  BY RangesAre DEF first
<1> QED
  BY <1>9, <1>15, <1>16 DEF Xs, shape


-----------------------------------------------------------------------------
(* The other sequences of instructions.                                    *)
Signature(kwd) ==
  <<TakeName, Take({"("}), See(Name \union {")"}), Parse("parameter list"),
    See({"{"}), Block("plain"), Make(kwd, 3)>>
ElseBody       == <<See({"{", "if"}), Expr, Make("If", 3)>>
NoElse         == <<Make("If", 2)>>
WithValue      == <<Expr, Take({";"}), Make("Let", 2)>>
WithoutValue   == <<Make("Let", 1)>>
FirstParameter == <<TakeName, MoreParams(1)>>
NoParameters   == <<Make("Params", 0)>>
StatementEndOf(token) == [do |-> "statement end", first |-> token]
ExpressionStatement(token) == <<Expr, StatementEndOf(token)>>
Assignment     == <<See(TokenType \ {";"}), Expr, Take({";"}), Make("Assign", 2)>>
PlainStatement == <<Make("ExprStmt", 1)>>
EndedStatement == <<Take({";"}), Make("ExprStmt", 1)>>

LEMMA SignatureIs ==
  ASSUME NEW t, NEW its, NEW s, NEW i \in Nat \ {0}, NEW n \in Nat, NEW f, NEW m, NEW kwd,
         Held(t, its, s, i, n + 1, f, m), m <= n
  PROVE  IsSeq(Signature(kwd)) /\ Held(t, its, Signature(kwd) \o s, i, n, f, m)
<1> DEFINE x1 == TakeName
           x2 == Take({"("})
           x3 == See(Name \union {")"})
           x4 == Parse("parameter list")
           x5 == See({"{"})
           x6 == Block("plain")
           x7 == Make(kwd, 3)
<1>1. Signature(kwd) = <<x1, x2, x3, x4, x5, x6, x7>>
  BY DEF Signature
<1>2. x1.do \in Producing
  BY DEF Producing, TakeName
<1>3. x2.do \in {"take", "see"}
  BY DEF Take
<1>4. x3.do \in {"take", "see"}
  BY DEF See
<1>5. x4.do \in Producing
  BY DEF Producing, Parse
<1>6. x5.do \in {"take", "see"}
  BY DEF See
<1>7. x6.do \in Producing
  BY DEF Producing, Block
<1> HIDE DEF x1, x2, x3, x4, x5, x6, x7
<1>8. IsSeq(s) /\ f \in Nat /\ m \in Nat /\ f <= i
  BY HeldIs
<1>9. /\ n + 1 \in Nat /\ m <= n + 1
      /\ n + 2 \in Nat /\ m <= n + 2
      /\ n + 3 \in Nat /\ m <= n + 3
      /\ n + 2 = (n + 1) + 1
      /\ n + 3 = (n + 2) + 1
  BY <1>8
<1>10. IsSeq(Signature(kwd)) /\ Signature(kwd) \o s =
        Then(x1, Then(x2, Then(x3, Then(x4, Then(x5, Then(x6, Then(x7, s)))))))
  BY <1>1, <1>8, Tuple7, SMTT(30)
<1> DEFINE s7 == Then(x7, s)
           s6 == Then(x6, s7)
           s5 == Then(x5, s6)
           s4 == Then(x4, s5)
           s3 == Then(x3, s4)
           s2 == Then(x2, s3)
           s1 == Then(x1, s2)
<1>11. Held(t, its, s7, i, n + 3, f, m)
  <2>1. n + 1 = (n + 3) - 3 + 1 /\ 3 <= n + 3 /\ 3 \in Nat
    OBVIOUS
  <2> QED
    BY <2>1, <1>8, <1>9, PutMake DEF x7
<1> HIDE DEF s7
<1>12. Held(t, its, s6, i, n + 2, f, m)
  BY <1>7, <1>8, <1>9, <1>11, PutProducing
<1> HIDE DEF s6
<1>13. Held(t, its, s5, i, n + 2, f, m)
  BY <1>6, <1>12, PutStep
<1> HIDE DEF s5
<1>14. Held(t, its, s4, i, n + 1, f, m)
  BY <1>5, <1>8, <1>9, <1>13, PutProducing
<1> HIDE DEF s4
<1>15. Held(t, its, s3, i, n + 1, f, m)
  BY <1>4, <1>14, PutStep
<1> HIDE DEF s3
<1>16. Held(t, its, s2, i, n + 1, f, m)
  BY <1>3, <1>15, PutStep
<1> HIDE DEF s2
<1>17. Held(t, its, s1, i, n, f, m)
  BY <1>2, <1>8, <1>9, <1>16, PutProducing
<1> HIDE DEF s1
<1> QED
  BY <1>10, <1>17 DEF s7, s6, s5, s4, s3, s2, s1

LEMMA ElseBodyIs ==
  ASSUME NEW t, NEW its, NEW s, NEW i \in Nat \ {0}, NEW n \in Nat, NEW f, NEW m,
         Held(t, its, s, i, n + 1, f, m)
  PROVE  IsSeq(ElseBody) /\ Held(t, its, ElseBody \o s, i, n + 2, f, m)
<1> DEFINE x1 == See({"{", "if"})
           x2 == Expr
           x3 == Make("If", 3)
<1>1. ElseBody = <<x1, x2, x3>>
  BY DEF ElseBody
<1>2. x1.do \in {"take", "see"}
  BY DEF See
<1>3. x2.do \in Producing
  BY DEF Producing, Expr, Parse
<1> HIDE DEF x1, x2, x3
<1>4. IsSeq(s) /\ f \in Nat /\ m \in Nat /\ f <= i /\ m <= n + 1
  BY HeldIs
<1>5. /\ n + 1 \in Nat /\ m <= n + 1
      /\ n + 2 \in Nat /\ m <= n + 2
      /\ n + 3 \in Nat /\ m <= n + 3
      /\ n + 2 = (n + 1) + 1
      /\ n + 3 = (n + 2) + 1
  BY <1>4
<1>6. IsSeq(ElseBody) /\ ElseBody \o s =
        Then(x1, Then(x2, Then(x3, s)))
  BY <1>1, <1>4, Tuple3, SMTT(30)
<1> DEFINE s3 == Then(x3, s)
           s2 == Then(x2, s3)
           s1 == Then(x1, s2)
<1>7. Held(t, its, s3, i, n + 3, f, m)
  <2>1. n + 1 = (n + 3) - 3 + 1 /\ 3 <= n + 3 /\ 3 \in Nat
    OBVIOUS
  <2> QED
    BY <2>1, <1>4, <1>5, PutMake DEF x3
<1> HIDE DEF s3
<1>8. Held(t, its, s2, i, n + 2, f, m)
  BY <1>3, <1>4, <1>5, <1>7, PutProducing
<1> HIDE DEF s2
<1>9. Held(t, its, s1, i, n + 2, f, m)
  BY <1>2, <1>8, PutStep
<1> HIDE DEF s1
<1> QED
  BY <1>6, <1>9 DEF s3, s2, s1

LEMMA NoElseIs ==
  ASSUME NEW t, NEW its, NEW s, NEW i \in Nat \ {0}, NEW n \in Nat, NEW f, NEW m,
         Held(t, its, s, i, n + 1, f, m)
  PROVE  IsSeq(NoElse) /\ Held(t, its, NoElse \o s, i, n + 2, f, m)
<1> DEFINE x1 == Make("If", 2)
<1>1. NoElse = <<x1>>
  BY DEF NoElse
<1> HIDE DEF x1
<1>2. IsSeq(s) /\ f \in Nat /\ m \in Nat /\ f <= i /\ m <= n + 1
  BY HeldIs
<1>3. /\ n + 1 \in Nat /\ m <= n + 1
      /\ n + 2 \in Nat /\ m <= n + 2
      /\ n + 2 = (n + 1) + 1
  BY <1>2
<1>4. IsSeq(NoElse) /\ NoElse \o s =
        Then(x1, s)
  BY <1>1, <1>2, Tuple1
<1> DEFINE s1 == Then(x1, s)
<1>5. Held(t, its, s1, i, n + 2, f, m)
  <2>1. n + 1 = (n + 2) - 2 + 1 /\ 2 <= n + 2 /\ 2 \in Nat
    OBVIOUS
  <2> QED
    BY <2>1, <1>2, <1>3, PutMake DEF x1
<1> HIDE DEF s1
<1> QED
  BY <1>4, <1>5 DEF s1

LEMMA WithValueIs ==
  ASSUME NEW t, NEW its, NEW s, NEW i \in Nat \ {0}, NEW n \in Nat, NEW f, NEW m,
         Held(t, its, s, i, n + 1, f, m)
  PROVE  IsSeq(WithValue) /\ Held(t, its, WithValue \o s, i, n + 1, f, m)
<1> DEFINE x1 == Expr
           x2 == Take({";"})
           x3 == Make("Let", 2)
<1>1. WithValue = <<x1, x2, x3>>
  BY DEF WithValue
<1>2. x1.do \in Producing
  BY DEF Producing, Expr, Parse
<1>3. x2.do \in {"take", "see"}
  BY DEF Take
<1> HIDE DEF x1, x2, x3
<1>4. IsSeq(s) /\ f \in Nat /\ m \in Nat /\ f <= i /\ m <= n + 1
  BY HeldIs
<1>5. /\ n + 1 \in Nat /\ m <= n + 1
      /\ n + 2 \in Nat /\ m <= n + 2
      /\ n + 2 = (n + 1) + 1
  BY <1>4
<1>6. IsSeq(WithValue) /\ WithValue \o s =
        Then(x1, Then(x2, Then(x3, s)))
  BY <1>1, <1>4, Tuple3, SMTT(30)
<1> DEFINE s3 == Then(x3, s)
           s2 == Then(x2, s3)
           s1 == Then(x1, s2)
<1>7. Held(t, its, s3, i, n + 2, f, m)
  <2>1. n + 1 = (n + 2) - 2 + 1 /\ 2 <= n + 2 /\ 2 \in Nat
    OBVIOUS
  <2> QED
    BY <2>1, <1>4, <1>5, PutMake DEF x3
<1> HIDE DEF s3
<1>8. Held(t, its, s2, i, n + 2, f, m)
  BY <1>3, <1>7, PutStep
<1> HIDE DEF s2
<1>9. Held(t, its, s1, i, n + 1, f, m)
  BY <1>2, <1>4, <1>5, <1>8, PutProducing
<1> HIDE DEF s1
<1> QED
  BY <1>6, <1>9 DEF s3, s2, s1

LEMMA WithoutValueIs ==
  ASSUME NEW t, NEW its, NEW s, NEW i \in Nat \ {0}, NEW n \in Nat, NEW f, NEW m,
         Held(t, its, s, i, n + 1, f, m)
  PROVE  IsSeq(WithoutValue) /\ Held(t, its, WithoutValue \o s, i, n + 1, f, m)
<1> DEFINE x1 == Make("Let", 1)
<1>1. WithoutValue = <<x1>>
  BY DEF WithoutValue
<1> HIDE DEF x1
<1>2. IsSeq(s) /\ f \in Nat /\ m \in Nat /\ f <= i /\ m <= n + 1
  BY HeldIs
<1>3. n + 1 \in Nat /\ m <= n + 1
  BY <1>2
<1>4. IsSeq(WithoutValue) /\ WithoutValue \o s =
        Then(x1, s)
  BY <1>1, <1>2, Tuple1
<1> DEFINE s1 == Then(x1, s)
<1>5. Held(t, its, s1, i, n + 1, f, m)
  <2>1. n + 1 = (n + 1) - 1 + 1 /\ 1 <= n + 1 /\ 1 \in Nat
    OBVIOUS
  <2> QED
    BY <2>1, <1>2, <1>3, PutMake DEF x1
<1> HIDE DEF s1
<1> QED
  BY <1>4, <1>5 DEF s1

LEMMA FirstParameterIs ==
  ASSUME NEW t, NEW its, NEW s, NEW i \in Nat \ {0}, NEW n \in Nat, NEW f, NEW m,
         Held(t, its, s, i, n + 1, f, m), m <= n
  PROVE  IsSeq(FirstParameter) /\ Held(t, its, FirstParameter \o s, i, n, f, m)
<1> DEFINE x1 == TakeName
           x2 == MoreParams(1)
<1>1. FirstParameter = <<x1, x2>>
  BY DEF FirstParameter
<1>2. x1.do \in Producing
  BY DEF Producing, TakeName
<1> HIDE DEF x1, x2
<1>3. IsSeq(s) /\ f \in Nat /\ m \in Nat /\ f <= i
  BY HeldIs
<1>4. n + 1 \in Nat /\ m <= n + 1
  BY <1>3
<1>5. IsSeq(FirstParameter) /\ FirstParameter \o s =
        Then(x1, Then(x2, s))
  BY <1>1, <1>3, Tuple2, SMTT(30)
<1> DEFINE s2 == Then(x2, s)
           s1 == Then(x1, s2)
<1>6. Held(t, its, s2, i, n + 1, f, m)
  <2>1. n + 1 = (n + 1) - 1 + 1 /\ 1 <= n + 1 /\ 1 \in Nat
    OBVIOUS
  <2> QED
    BY <2>1, <1>3, <1>4, PutParameters DEF x2
<1> HIDE DEF s2
<1>7. Held(t, its, s1, i, n, f, m)
  BY <1>2, <1>3, <1>4, <1>6, PutProducing
<1> HIDE DEF s1
<1> QED
  BY <1>5, <1>7 DEF s2, s1

LEMMA NoParametersIs ==
  ASSUME NEW t, NEW its, NEW s, NEW i \in Nat \ {0}, NEW n \in Nat, NEW f, NEW m,
         Held(t, its, s, i, n + 1, f, m), m <= n
  PROVE  IsSeq(NoParameters) /\ Held(t, its, NoParameters \o s, i, n, f, m)
<1> DEFINE x1 == Make("Params", 0)
<1>1. NoParameters = <<x1>>
  BY DEF NoParameters
<1> HIDE DEF x1
<1>2. IsSeq(s) /\ f \in Nat /\ m \in Nat /\ f <= i
  BY HeldIs
<1>3. n + 1 \in Nat /\ m <= n + 1
  BY <1>2
<1>4. IsSeq(NoParameters) /\ NoParameters \o s =
        Then(x1, s)
  BY <1>1, <1>2, Tuple1
<1> DEFINE s1 == Then(x1, s)
<1>5. Held(t, its, s1, i, n, f, m)
  <2>1. n + 1 = (n) - 0 + 1 /\ 0 <= n /\ 0 \in Nat
    OBVIOUS
  <2> QED
    BY <2>1, <1>2, <1>3, PutMake DEF x1
<1> HIDE DEF s1
<1> QED
  BY <1>4, <1>5 DEF s1

LEMMA ExpressionStatementIs ==
  ASSUME NEW t, NEW its, NEW s, NEW i \in Nat \ {0}, NEW n \in Nat, NEW f, NEW m, NEW token,
         Held(t, its, s, i, n + 1, f, m), m <= n
  PROVE  IsSeq(ExpressionStatement(token)) /\ Held(t, its, ExpressionStatement(token) \o s, i, n, f, m)
<1> DEFINE x1 == Expr
           x2 == StatementEndOf(token)
<1>1. ExpressionStatement(token) = <<x1, x2>>
  BY DEF ExpressionStatement
<1>2. x1.do \in Producing
  BY DEF Producing, Expr, Parse
<1>3. x2.do \in Using
  BY DEF StatementEndOf, Using
<1> HIDE DEF x1, x2
<1>4. IsSeq(s) /\ f \in Nat /\ m \in Nat /\ f <= i
  BY HeldIs
<1>5. n + 1 \in Nat /\ m <= n + 1
  BY <1>4
<1>6. IsSeq(ExpressionStatement(token)) /\ ExpressionStatement(token) \o s =
        Then(x1, Then(x2, s))
  BY <1>1, <1>4, Tuple2
<1> DEFINE s2 == Then(x2, s)
           s1 == Then(x1, s2)
<1>7. Held(t, its, s2, i, n + 1, f, m)
  BY <1>3, <1>4, <1>5, PutUsing
<1> HIDE DEF s2
<1>8. Held(t, its, s1, i, n, f, m)
  BY <1>2, <1>4, <1>5, <1>7, PutProducing
<1> HIDE DEF s1
<1> QED
  BY <1>6, <1>8 DEF s2, s1

LEMMA AssignmentIs ==
  ASSUME NEW t, NEW its, NEW s, NEW i \in Nat \ {0}, NEW n \in Nat, NEW f, NEW m,
         Held(t, its, s, i, n + 1, f, m)
  PROVE  IsSeq(Assignment) /\ Held(t, its, Assignment \o s, i, n + 1, f, m)
<1> DEFINE x1 == See(TokenType \ {";"})
           x2 == Expr
           x3 == Take({";"})
           x4 == Make("Assign", 2)
<1>1. Assignment = <<x1, x2, x3, x4>>
  BY DEF Assignment
<1>2. x1.do \in {"take", "see"}
  BY DEF See
<1>3. x2.do \in Producing
  BY DEF Producing, Expr, Parse
<1>4. x3.do \in {"take", "see"}
  BY DEF Take
<1> HIDE DEF x1, x2, x3, x4
<1>5. IsSeq(s) /\ f \in Nat /\ m \in Nat /\ f <= i /\ m <= n + 1
  BY HeldIs
<1>6. /\ n + 1 \in Nat /\ m <= n + 1
      /\ n + 2 \in Nat /\ m <= n + 2
      /\ n + 2 = (n + 1) + 1
  BY <1>5
<1>7. IsSeq(Assignment) /\ Assignment \o s =
        Then(x1, Then(x2, Then(x3, Then(x4, s))))
  BY <1>1, <1>5, Tuple4
<1> DEFINE s4 == Then(x4, s)
           s3 == Then(x3, s4)
           s2 == Then(x2, s3)
           s1 == Then(x1, s2)
<1>8. Held(t, its, s4, i, n + 2, f, m)
  <2>1. n + 1 = (n + 2) - 2 + 1 /\ 2 <= n + 2 /\ 2 \in Nat
    OBVIOUS
  <2> QED
    BY <2>1, <1>5, <1>6, PutMake DEF x4
<1> HIDE DEF s4
<1>9. Held(t, its, s3, i, n + 2, f, m)
  BY <1>4, <1>8, PutStep
<1> HIDE DEF s3
<1>10. Held(t, its, s2, i, n + 1, f, m)
  BY <1>3, <1>5, <1>6, <1>9, PutProducing
<1> HIDE DEF s2
<1>11. Held(t, its, s1, i, n + 1, f, m)
  BY <1>2, <1>10, PutStep
<1> HIDE DEF s1
<1> QED
  BY <1>7, <1>11 DEF s4, s3, s2, s1

LEMMA PlainStatementIs ==
  ASSUME NEW t, NEW its, NEW s, NEW i \in Nat \ {0}, NEW n \in Nat, NEW f, NEW m,
         Held(t, its, s, i, n + 1, f, m)
  PROVE  IsSeq(PlainStatement) /\ Held(t, its, PlainStatement \o s, i, n + 1, f, m)
<1> DEFINE x1 == Make("ExprStmt", 1)
<1>1. PlainStatement = <<x1>>
  BY DEF PlainStatement
<1> HIDE DEF x1
<1>2. IsSeq(s) /\ f \in Nat /\ m \in Nat /\ f <= i /\ m <= n + 1
  BY HeldIs
<1>3. n + 1 \in Nat /\ m <= n + 1
  BY <1>2
<1>4. IsSeq(PlainStatement) /\ PlainStatement \o s =
        Then(x1, s)
  BY <1>1, <1>2, Tuple1
<1> DEFINE s1 == Then(x1, s)
<1>5. Held(t, its, s1, i, n + 1, f, m)
  <2>1. n + 1 = (n + 1) - 1 + 1 /\ 1 <= n + 1 /\ 1 \in Nat
    OBVIOUS
  <2> QED
    BY <2>1, <1>2, <1>3, PutMake DEF x1
<1> HIDE DEF s1
<1> QED
  BY <1>4, <1>5 DEF s1

LEMMA EndedStatementIs ==
  ASSUME NEW t, NEW its, NEW s, NEW i \in Nat \ {0}, NEW n \in Nat, NEW f, NEW m,
         Held(t, its, s, i, n + 1, f, m)
  PROVE  IsSeq(EndedStatement) /\ Held(t, its, EndedStatement \o s, i, n + 1, f, m)
<1> DEFINE x1 == Take({";"})
           x2 == Make("ExprStmt", 1)
<1>1. EndedStatement = <<x1, x2>>
  BY DEF EndedStatement
<1>2. x1.do \in {"take", "see"}
  BY DEF Take
<1> HIDE DEF x1, x2
<1>3. IsSeq(s) /\ f \in Nat /\ m \in Nat /\ f <= i /\ m <= n + 1
  BY HeldIs
<1>4. n + 1 \in Nat /\ m <= n + 1
  BY <1>3
<1>5. IsSeq(EndedStatement) /\ EndedStatement \o s =
        Then(x1, Then(x2, s))
  BY <1>1, <1>3, Tuple2, SMTT(30)
<1> DEFINE s2 == Then(x2, s)
           s1 == Then(x1, s2)
<1>6. Held(t, its, s2, i, n + 1, f, m)
  <2>1. n + 1 = (n + 1) - 1 + 1 /\ 1 <= n + 1 /\ 1 \in Nat
    OBVIOUS
  <2> QED
    BY <2>1, <1>3, <1>4, PutMake DEF x2
<1> HIDE DEF s2
<1>7. Held(t, its, s1, i, n + 1, f, m)
  BY <1>2, <1>6, PutStep
<1> HIDE DEF s1
<1> QED
  BY <1>5, <1>7 DEF s2, s1

LEMMA FunctionDefIs ==
  ASSUME NEW t, NEW its, NEW s, NEW i \in Nat \ {0}, NEW n \in Nat, NEW f, NEW m, NEW kwd,
         Held(t, its, s, i, n + 1, f, m), m <= n
  PROVE  IsSeq(FunctionDef(kwd)) /\ Held(t, its, FunctionDef(kwd) \o s, i, n, f, m)
<1> DEFINE x == Take({kwd})
           y == Take({"fn"})
           u == IF kwd = "fn" THEN <<>> ELSE <<y>>
           v == Signature(kwd)
<1>1. FunctionDef(kwd) = (<<x>> \o u) \o v
  BY DEF FunctionDef, Signature
<1>2. x.do \in {"take", "see"} /\ y.do \in {"take", "see"}
  BY DEF Take
<1>3. IsSeq(v) /\ Held(t, its, v \o s, i, n, f, m)
  BY SignatureIs
<1>4. IsSeq(s) /\ IsSeq(v \o s)
  BY <1>3, HeldIs
<1> HIDE DEF x, y, v
<1>5. IsSeq(u) /\ Held(t, its, u \o (v \o s), i, n, f, m)
  <2>1. CASE kwd = "fn"
    BY <1>3, <1>4, <2>1, NoneIs
  <2>2. CASE kwd # "fn"
    <3>1. Held(t, its, Then(y, v \o s), i, n, f, m)
      BY <1>2, <1>3, PutStep
    <3> QED
      BY <1>4, <2>2, <3>1, Tuple1
  <2> QED
    BY <2>1, <2>2
<1> HIDE DEF u
<1>6. IsSeq(u \o (v \o s)) /\ IsSeq(u \o v)
  BY <1>3, <1>4, <1>5, JoinIs
<1>7. (<<x>> \o u) \o v = <<x>> \o (u \o v) /\ IsSeq(<<x>>)
  BY <1>3, <1>5, OneIs, JoinThree
<1>8. IsSeq(<<x>> \o (u \o v))
  BY <1>6, <1>7, JoinIs
<1>9. (<<x>> \o (u \o v)) \o s = <<x>> \o ((u \o v) \o s)
  BY <1>4, <1>6, <1>7, JoinThree
<1>10. (u \o v) \o s = u \o (v \o s)
  BY <1>3, <1>4, <1>5, JoinThree, SMTT(30)
<1>11. Held(t, its, Then(x, u \o (v \o s)), i, n, f, m)
  BY <1>2, <1>5, PutStep
<1> QED
  BY <1>1, <1>7, <1>8, <1>9, <1>10, <1>11 DEF Then

(* What is done in a range: a ParseState more, and one less behind it.     *)
LEMMA InRangeIs ==
  ASSUME NEW body, NEW s, NEW r, IsSeq(body), IsSeq(s)
  PROVE  /\ IsSeq(InRange(r, body))
         /\ InRange(r, body) \o s = Then(Enter(r), body \o Then(Leave, s))
<1> DEFINE x == Enter(r)
           y == Leave
<1>1. InRange(r, body) = (<<x>> \o body) \o <<y>>
  BY DEF InRange
<1> HIDE DEF x, y
<1>2. IsSeq(<<x>>) /\ IsSeq(<<y>>)
  BY OneIs
<1>3. IsSeq(<<x>> \o body) /\ IsSeq((<<x>> \o body) \o <<y>>) /\ IsSeq(<<y>> \o s)
  BY <1>2, JoinIs
<1>4. ((<<x>> \o body) \o <<y>>) \o s = (<<x>> \o body) \o (<<y>> \o s)
  BY <1>2, <1>3, JoinThree
<1>5. (<<x>> \o body) \o (<<y>> \o s) = <<x>> \o (body \o (<<y>> \o s))
  BY <1>2, <1>3, JoinThree
<1> QED
  BY <1>1, <1>3, <1>4, <1>5 DEF Then, x, y

LEMMA InRangeHeld ==
  ASSUME NEW t, NEW its, NEW body, NEW s, NEW i \in Nat \ {0}, NEW n, NEW f, NEW m,
         IsSeq(body), IsSeq(s), Held(t, its, body \o Then(Leave, s), i + 1, n, f, m), f <= i,
         NEW r, Below(t, r, its[i].at)
  PROVE  IsSeq(InRange(r, body)) /\ Held(t, its, InRange(r, body) \o s, i, n, i, m)
<1>1. Held(t, its, Then(Enter(r), body \o Then(Leave, s)), i, n, i, m)
  BY PutEnter
<1> QED
  BY <1>1, InRangeIs

(* An expression or a block in a range of its own.                         *)
LEMMA OneInRange ==
  ASSUME NEW t, NEW its, NEW s, NEW i \in Nat \ {0}, NEW n \in Nat, NEW f, NEW m,
         Held(t, its, s, i, n + 1, f, m), m <= n,
         NEW r, Below(t, r, its[i].at), NEW x, x.do \in Producing
  PROVE  IsSeq(InRange(r, <<x>>)) /\ Held(t, its, InRange(r, <<x>>) \o s, i, n, i, m)
<1>1. IsSeq(s) /\ f \in Nat /\ f <= i
  BY HeldIs
<1>2. Held(t, its, Then(Leave, s), i + 1, n + 1, f, m)
  BY PutLeave
<1>3. IsSeq(Then(Leave, s))
  BY <1>1, ThenIsSeq
<1>4. Held(t, its, Then(x, Then(Leave, s)), i + 1, n, f, m)
  BY <1>2, PutProducing
<1>5. IsSeq(<<x>>) /\ <<x>> \o Then(Leave, s) = Then(x, Then(Leave, s))
  BY <1>3, Tuple1
<1> QED
  BY <1>1, <1>4, <1>5, InRangeHeld

LEMMA OperandIs ==
  ASSUME NEW s, NEW i \in Nat \ {0}, NEW n \in Nat, NEW f, NEW m,
         NEW its, Held(tokens, its, s, i, n + 1, f, m), m <= n,
         NEW r, Below(tokens, r, its[i].at), tokens[r.from] \in WithBlock \union Name
  PROVE  IsSeq(Operand(r)) /\ Held(tokens, its, Operand(r) \o s, i, n, i, m)
<1> DEFINE u == Then(Leave, s)
           Fits(body) == IsSeq(body) /\ Held(tokens, its, body \o u, i + 1, n, f, m)
<1>1. IsSeq(s) /\ f \in Nat /\ f <= i /\ i + 1 \in Nat \ {0}
  BY HeldIs
<1>2. Held(tokens, its, u, i + 1, n + 1, f, m)
  BY PutLeave
<1> HIDE DEF u
<1>3. Fits(IfCond) /\ Fits(WhileLoop) /\ Fits(ForLoop) /\ Fits(FunctionCall)
  BY <1>1, <1>2, IfCondIs, WhileLoopIs, ForLoopIs, FunctionCallIs
<1>4. Fits(<<Block("plain")>>)
  <2> DEFINE x == Block("plain")
  <2>1. x.do \in Producing
    BY DEF Block, Producing
  <2> HIDE DEF x
  <2>2. Held(tokens, its, Then(x, u), i + 1, n, f, m)
    BY <1>1, <1>2, <2>1, PutProducing
  <2>3. IsSeq(u)
    BY <1>2, HeldIs
  <2>4. IsSeq(<<x>>) /\ <<x>> \o u = Then(x, u)
    BY <2>3, Tuple1
  <2> QED
    BY <2>2, <2>4 DEF x
<1>5. \/ Operand(r) = InRange(r, <<Block("plain")>>) \/ Operand(r) = InRange(r, IfCond)
      \/ Operand(r) = InRange(r, WhileLoop) \/ Operand(r) = InRange(r, ForLoop)
      \/ Operand(r) = InRange(r, FunctionCall)
  <2>1. Name \intersect {"{", "if", "while", "for"} = {}
    BY NameAssumption DEF Fixed, Openers, Keywords
  <2>2. \/ tokens[r.from] = "{" \/ tokens[r.from] = "if" \/ tokens[r.from] = "while"
        \/ tokens[r.from] = "for" \/ tokens[r.from] \in Name
    BY DEF WithBlock
  <2> HIDE DEF Fits
  <2> QED
    BY <2>1, <2>2 DEF Operand
<1>6. ASSUME NEW body, Fits(body), Operand(r) = InRange(r, body)
      PROVE  IsSeq(Operand(r)) /\ Held(tokens, its, Operand(r) \o s, i, n, i, m)
  <2>1. IsSeq(body) /\ Held(tokens, its, body \o Then(Leave, s), i + 1, n, f, m)
    BY <1>6 DEF u
  <2> QED
    BY <1>1, <1>6, <2>1, InRangeHeld
<1> HIDE DEF Fits
<1> QED
  BY <1>3, <1>4, <1>5, <1>6


-----------------------------------------------------------------------------
(* What is left when the first instruction has been done.                  *)
LEMMA Done ==
  ASSUME NEW t, NEW its, NEW s, NEW i, NEW n, NEW f, NEW m,
         Stack(t, its, s, i, n, f, m), s # <<>>
  PROVE  \E i1, n1, f1, m1 \in Nat :
           /\ Moves(t, its, Head(s), i, n, i1, n1)
           /\ Stack(t, its, Tail(s), i1, n1, f1, m1) /\ f1 <= i /\ m1 <= n
           /\ Head(s).do \in Saving => Head(s).nodes \in Nat /\ m1 <= Head(s).nodes
           /\ NeedsCatch(Head(s)) => HasCatch(Tail(s))
<1> DEFINE x == Head(s)
<1>1. PICK i1 \in Nat \ {0}, n1 \in Nat :
        /\ Moves(t, its, x, i, n, i1, n1)
        /\ \A f1, m1 \in Nat :
             /\ f1 <= i1 /\ (f1 >= i \/ f1 >= i1)
             /\ m1 <= n1
             /\ \/ m1 >= n \/ m1 >= n1
                \/ x.do \in Saving /\ m1 >= x.nodes
             => Stack(t, its, Tail(s), i1, n1, f1, m1)
  BY Drop
<1>2. NeedsCatch(x) => HasCatch(Tail(s))
  BY Drop
<1>3. i \in Nat \ {0} /\ n \in Nat
  BY StackIs
<1>4. ASSUME x.do \in Saving
      PROVE  /\ x.nodes \in Nat
             /\ \/ n1 = x.nodes + 1 /\ x.nodes <= n
                \/ n = x.nodes + 1 /\ n1 = n
  <2>1. \/ x.do \in {"block loop", "make block"} /\ x.nodes \in Nat /\ x.nodes <= n /\ n1 = x.nodes + 1
        \/ x.do = "catch" /\ x.nodes \in Nat /\ n = x.nodes + 1 /\ n1 = n
    BY <1>1, <1>4 DEF Moves, Producing, Using, Saving
  <2> QED
    BY <2>1
<1> HIDE DEF x
<1>5. PICK f1 \in Nat : f1 <= i1 /\ (f1 >= i \/ f1 >= i1) /\ f1 <= i
  <2>1. CASE i <= i1
    BY <1>3, <2>1
  <2>2. CASE ~(i <= i1)
    BY <1>3, <2>2
  <2> QED
    BY <2>1, <2>2
<1>6. PICK m1 \in Nat :
        /\ m1 <= n1 /\ m1 <= n /\ (m1 >= n \/ m1 >= n1 \/ (x.do \in Saving /\ m1 >= x.nodes))
        /\ x.do \in Saving => x.nodes \in Nat /\ m1 <= x.nodes
  <2>1. CASE x.do \in Saving
    <3>1. x.nodes \in Nat /\ x.nodes <= n1 /\ x.nodes <= n /\ x.nodes >= x.nodes /\ x.nodes <= x.nodes
      BY <1>3, <1>4, <2>1
    <3> QED
      BY <2>1, <3>1
  <2>2. CASE x.do \notin Saving
    <3>1. CASE n <= n1
      BY <1>3, <2>2, <3>1
    <3>2. CASE ~(n <= n1)
      BY <1>3, <2>2, <3>2
    <3> QED
      BY <3>1, <3>2
  <2> QED
    BY <2>1, <2>2
<1>7. Stack(t, its, Tail(s), i1, n1, f1, m1)
  BY <1>1, <1>5, <1>6
<1>8. i1 \in Nat
  OBVIOUS
<1> QED
  BY <1>1, <1>2, <1>5, <1>6, <1>7, <1>8 DEF x

(* The same for each kind of instruction.                                  *)
LEMMA HeadStep ==
  ASSUME NEW t, NEW its, NEW s, NEW i, NEW n, NEW f, NEW m,
         Stack(t, its, s, i, n, f, m), s # <<>>, Head(s).do \in {"take", "see"}
  PROVE  NeedsCatch(Head(s)) /\ \E f1, m1 : Held(t, its, Tail(s), i, n, f1, m1)
<1>1. PICK i1, n1, f1, m1 \in Nat :
        /\ Moves(t, its, Head(s), i, n, i1, n1)
        /\ Stack(t, its, Tail(s), i1, n1, f1, m1)
        /\ NeedsCatch(Head(s)) => HasCatch(Tail(s))
  BY Done
<1>2. NeedsCatch(Head(s))
  BY DEF NeedsCatch
<1>3. i1 = i /\ n1 = n
  BY <1>1 DEF Moves, Producing, Using
<1> QED
  BY <1>1, <1>2, <1>3 DEF Held

LEMMA HeadProducing ==
  ASSUME NEW t, NEW its, NEW s, NEW i, NEW n, NEW f, NEW m,
         Stack(t, its, s, i, n, f, m), s # <<>>, Head(s).do \in Producing
  PROVE  /\ \E f1, m1 \in Nat : m1 <= n /\ Stack(t, its, Tail(s), i, n + 1, f1, m1)
         /\ Head(s).do # "block" \/ Head(s).kind # "toplevel" =>
              NeedsCatch(Head(s)) /\ HasCatch(Tail(s))
<1>1. PICK i1, n1, f1, m1 \in Nat :
        /\ Moves(t, its, Head(s), i, n, i1, n1) /\ m1 <= n
        /\ Stack(t, its, Tail(s), i1, n1, f1, m1)
        /\ NeedsCatch(Head(s)) => HasCatch(Tail(s))
  BY Done
<1>2. Head(s).do # "block" \/ Head(s).kind # "toplevel" => NeedsCatch(Head(s))
  BY DEF NeedsCatch, Producing
<1>3. i1 = i /\ n1 = n + 1
  BY <1>1 DEF Moves, Producing, Using
<1> QED
  BY <1>1, <1>2, <1>3

LEMMA HeadUsing ==
  ASSUME NEW t, NEW its, NEW s, NEW i, NEW n, NEW f, NEW m,
         Stack(t, its, s, i, n, f, m), s # <<>>, Head(s).do \in Using
  PROVE  /\ NeedsCatch(Head(s)) /\ \E f1, m1 : Held(t, its, Tail(s), i, n, f1, m1)
         /\ \E n0 \in Nat : n = n0 + 1
<1>1. PICK i1, n1, f1, m1 \in Nat :
        /\ Moves(t, its, Head(s), i, n, i1, n1)
        /\ Stack(t, its, Tail(s), i1, n1, f1, m1)
        /\ NeedsCatch(Head(s)) => HasCatch(Tail(s))
  BY Done
<1>2. NeedsCatch(Head(s))
  BY DEF NeedsCatch, Using
<1>3. i1 = i /\ n1 = n /\ n >= 1
  BY <1>1 DEF Moves, Producing, Using
<1>4. n \in Nat
  BY StackIs
<1>5. n - 1 \in Nat /\ n = (n - 1) + 1
  BY <1>3, <1>4
<1>6. Held(t, its, Tail(s), i, n, f1, m1)
  BY <1>1, <1>2, <1>3 DEF Held
<1> QED
  BY <1>2, <1>5, <1>6

LEMMA HeadEnter ==
  ASSUME NEW t, NEW its, NEW s, NEW i, NEW n, NEW f, NEW m,
         Stack(t, its, s, i, n, f, m), s # <<>>, Head(s).do = "enter"
  PROVE  /\ Below(t, Head(s).range, its[i].at)
         /\ \E f1, m1 \in Nat : f1 <= i /\ Stack(t, its, Tail(s), i + 1, n, f1, m1)
<1>1. PICK i1, n1, f1, m1 \in Nat :
        /\ Moves(t, its, Head(s), i, n, i1, n1)
        /\ Stack(t, its, Tail(s), i1, n1, f1, m1) /\ f1 <= i
  BY Done
<1>2. i1 = i + 1 /\ n1 = n /\ Below(t, Head(s).range, its[i].at)
  BY <1>1 DEF Moves, Producing, Using
<1> QED
  BY <1>1, <1>2

LEMMA HeadSplit ==
  ASSUME NEW t, NEW its, NEW s, NEW i, NEW n, NEW f, NEW m,
         Stack(t, its, s, i, n, f, m), s # <<>>, Head(s).do = "split"
  PROVE  /\ NeedsCatch(Head(s))
         /\ \E f1, m1 \in Nat : f1 <= i /\ Stack(t, its, Tail(s), i + 1, n, f1, m1)
<1>1. PICK i1, n1, f1, m1 \in Nat :
        /\ Moves(t, its, Head(s), i, n, i1, n1)
        /\ Stack(t, its, Tail(s), i1, n1, f1, m1) /\ f1 <= i
  BY Done
<1>2. NeedsCatch(Head(s))
  BY DEF NeedsCatch
<1>3. i1 = i + 1 /\ n1 = n
  BY <1>1 DEF Moves, Producing, Using
<1> QED
  BY <1>1, <1>2, <1>3

LEMMA HeadLeave ==
  ASSUME NEW t, NEW its, NEW s, NEW i, NEW n, NEW f, NEW m,
         Stack(t, its, s, i, n, f, m), s # <<>>, Head(s).do = "leave"
  PROVE  \E i1 \in Nat \ {0} : i = i1 + 1
           /\ \E f1, m1 \in Nat : Stack(t, its, Tail(s), i1, n, f1, m1)
<1>1. PICK i1, n1, f1, m1 \in Nat :
        /\ Moves(t, its, Head(s), i, n, i1, n1)
        /\ Stack(t, its, Tail(s), i1, n1, f1, m1)
  BY Done
<1>2. i = i1 + 1 /\ n1 = n
  BY <1>1 DEF Moves, Producing, Using
<1>3. i1 \in Nat \ {0}
  BY <1>1, StackIs
<1> QED
  BY <1>1, <1>2, <1>3

LEMMA HeadMake ==
  ASSUME NEW t, NEW its, NEW s, NEW i, NEW n, NEW f, NEW m,
         Stack(t, its, s, i, n, f, m), s # <<>>, Head(s).do = "make"
  PROVE  /\ Head(s).n \in Nat /\ Head(s).n <= n
         /\ \E f1, m1 \in Nat : Stack(t, its, Tail(s), i, n - Head(s).n + 1, f1, m1)
<1>1. PICK i1, n1, f1, m1 \in Nat :
        /\ Moves(t, its, Head(s), i, n, i1, n1)
        /\ Stack(t, its, Tail(s), i1, n1, f1, m1)
  BY Done
<1>2. i1 = i /\ n1 = n - Head(s).n + 1 /\ Head(s).n \in Nat /\ Head(s).n <= n
  BY <1>1 DEF Moves, Producing, Using
<1> QED
  BY <1>1, <1>2

LEMMA HeadElse ==
  ASSUME NEW t, NEW its, NEW s, NEW i, NEW n, NEW f, NEW m,
         Stack(t, its, s, i, n, f, m), s # <<>>, Head(s).do = "else"
  PROVE  \E n0 \in Nat : n = n0 + 2 /\ \E f1, m1 : Held(t, its, Tail(s), i, n0 + 1, f1, m1)
<1>1. PICK i1, n1, f1, m1 \in Nat :
        /\ Moves(t, its, Head(s), i, n, i1, n1)
        /\ Stack(t, its, Tail(s), i1, n1, f1, m1)
        /\ NeedsCatch(Head(s)) => HasCatch(Tail(s))
  BY Done
<1>2. NeedsCatch(Head(s))
  BY DEF NeedsCatch
<1>3. i1 = i /\ n >= 2 /\ n1 = n - 1
  BY <1>1 DEF Moves, Producing, Using
<1>4. n \in Nat
  BY StackIs
<1>5. n - 2 \in Nat /\ n = (n - 2) + 2 /\ n1 = (n - 2) + 1
  BY <1>3, <1>4
<1>6. Held(t, its, Tail(s), i, n1, f1, m1)
  BY <1>1, <1>2, <1>3 DEF Held
<1> QED
  BY <1>5, <1>6

LEMMA HeadArguments ==
  ASSUME NEW t, NEW its, NEW s, NEW i, NEW n, NEW f, NEW m,
         Stack(t, its, s, i, n, f, m), s # <<>>, Head(s).do = "arguments"
  PROVE  /\ NeedsCatch(Head(s)) /\ Head(s).n \in Nat /\ Head(s).n + 1 <= n
         /\ \E f1, m1 : Held(t, its, Tail(s), i, n - Head(s).n, f1, m1)
<1>1. PICK i1, n1, f1, m1 \in Nat :
        /\ Moves(t, its, Head(s), i, n, i1, n1)
        /\ Stack(t, its, Tail(s), i1, n1, f1, m1)
        /\ NeedsCatch(Head(s)) => HasCatch(Tail(s))
  BY Done
<1>2. NeedsCatch(Head(s))
  BY DEF NeedsCatch
<1>3. i1 = i /\ n1 = n - Head(s).n /\ Head(s).n \in Nat /\ Head(s).n + 1 <= n
  BY <1>1 DEF Moves, Producing, Using
<1> QED
  BY <1>1, <1>2, <1>3 DEF Held

LEMMA HeadParameters ==
  ASSUME NEW t, NEW its, NEW s, NEW i, NEW n, NEW f, NEW m,
         Stack(t, its, s, i, n, f, m), s # <<>>, Head(s).do = "parameters"
  PROVE  /\ NeedsCatch(Head(s)) /\ Head(s).n \in Nat /\ Head(s).n <= n
         /\ \E f1, m1 \in Nat : m1 <= n /\ Held(t, its, Tail(s), i, n - Head(s).n + 1, f1, m1)
<1>1. PICK i1, n1, f1, m1 \in Nat :
        /\ Moves(t, its, Head(s), i, n, i1, n1) /\ m1 <= n
        /\ Stack(t, its, Tail(s), i1, n1, f1, m1)
        /\ NeedsCatch(Head(s)) => HasCatch(Tail(s))
  BY Done
<1>2. NeedsCatch(Head(s))
  BY DEF NeedsCatch
<1>3. i1 = i /\ n1 = n - Head(s).n + 1 /\ Head(s).n \in Nat /\ Head(s).n <= n
  BY <1>1 DEF Moves, Producing, Using
<1> QED
  BY <1>1, <1>2, <1>3 DEF Held

LEMMA HeadFuse ==
  ASSUME NEW t, NEW its, NEW s, NEW i, NEW n, NEW f, NEW m,
         Stack(t, its, s, i, n, f, m), s # <<>>, Head(s).do = "fuse"
  PROVE  /\ NeedsCatch(Head(s)) /\ Xs(Head(s).shape) \in Nat /\ Xs(Head(s).shape) <= n
         /\ \E f1, m1 \in Nat : m1 <= n /\ Held(t, its, Tail(s), i, n - Xs(Head(s).shape) + 1, f1, m1)
<1>1. PICK i1, n1, f1, m1 \in Nat :
        /\ Moves(t, its, Head(s), i, n, i1, n1) /\ m1 <= n
        /\ Stack(t, its, Tail(s), i1, n1, f1, m1)
        /\ NeedsCatch(Head(s)) => HasCatch(Tail(s))
  BY Done
<1>2. NeedsCatch(Head(s))
  BY DEF NeedsCatch
<1>3. i1 = i /\ n1 = n - Xs(Head(s).shape) + 1 /\ Xs(Head(s).shape) \in Nat /\ Xs(Head(s).shape) <= n
  BY <1>1 DEF Moves, Producing, Using
<1> QED
  BY <1>1, <1>2, <1>3 DEF Held

LEMMA HeadOperands ==
  ASSUME NEW t, NEW its, NEW s, NEW i, NEW n, NEW f, NEW m,
         Stack(t, its, s, i, n, f, m), s # <<>>, Head(s).do = "operands"
  PROVE  /\ Head(s).ranges \in Seq(Ranges)
         /\ \A k \in 1..Len(Head(s).ranges) : Below(t, Head(s).ranges[k], its[i].at)
         /\ \E f1, m1 \in Nat : m1 <= n /\ Held(t, its, Tail(s), i, n + Len(Head(s).ranges), f1, m1)
<1>1. PICK i1, n1, f1, m1 \in Nat :
        /\ Moves(t, its, Head(s), i, n, i1, n1) /\ m1 <= n
        /\ Stack(t, its, Tail(s), i1, n1, f1, m1)
        /\ NeedsCatch(Head(s)) => HasCatch(Tail(s))
  BY Done
<1>2. NeedsCatch(Head(s))
  BY DEF NeedsCatch
<1>3. /\ i1 = i /\ n1 = n + Len(Head(s).ranges) /\ Head(s).ranges \in Seq(Ranges)
      /\ \A k \in 1..Len(Head(s).ranges) : Below(t, Head(s).ranges[k], its[i].at)
  BY <1>1 DEF Moves, Producing, Using
<1> QED
  BY <1>1, <1>2, <1>3 DEF Held

LEMMA HeadCatch ==
  ASSUME NEW t, NEW its, NEW s, NEW i, NEW n, NEW f, NEW m,
         Stack(t, its, s, i, n, f, m), s # <<>>, Head(s).do = "catch"
  PROVE  \E f1, m1 \in Nat : Stack(t, its, Tail(s), i, n, f1, m1)
<1>1. PICK i1, n1, f1, m1 \in Nat :
        /\ Moves(t, its, Head(s), i, n, i1, n1)
        /\ Stack(t, its, Tail(s), i1, n1, f1, m1)
  BY Done
<1>2. i1 = i /\ n1 = n
  BY <1>1 DEF Moves, Producing, Using
<1> QED
  BY <1>1, <1>2

LEMMA HeadBlockEnd ==
  ASSUME NEW t, NEW its, NEW s, NEW i, NEW n, NEW f, NEW m,
         Stack(t, its, s, i, n, f, m), s # <<>>, Head(s).do \in {"block loop", "make block"}
  PROVE  /\ Head(s).nodes \in Nat /\ Head(s).nodes <= n
         /\ \E f1, m1 \in Nat : /\ Stack(t, its, Tail(s), i, Head(s).nodes + 1, f1, m1)
                                /\ m1 <= Head(s).nodes
         /\ Head(s).do = "block loop" =>
              /\ Head(s).kind = "toplevel" => Head(s).has_result = FALSE
              /\ Head(s).kind = "toplevel" \/ HasCatch(Tail(s))
<1>1. PICK i1, n1, f1, m1 \in Nat :
        /\ Moves(t, its, Head(s), i, n, i1, n1)
        /\ Stack(t, its, Tail(s), i1, n1, f1, m1)
        /\ Head(s).do \in Saving => Head(s).nodes \in Nat /\ m1 <= Head(s).nodes
        /\ NeedsCatch(Head(s)) => HasCatch(Tail(s))
  BY Done
<1>2. Head(s).do = "block loop" => Head(s).kind = "toplevel" \/ NeedsCatch(Head(s))
  BY DEF NeedsCatch
<1>3. Head(s).do \in Saving
  BY DEF Saving
<1>4. /\ i1 = i /\ n1 = Head(s).nodes + 1 /\ Head(s).nodes <= n
      /\ Head(s).do = "block loop" /\ Head(s).kind = "toplevel" => Head(s).has_result = FALSE
  BY <1>1 DEF Moves, Producing, Using
<1> QED
  BY <1>1, <1>2, <1>3, <1>4


-----------------------------------------------------------------------------
(* The sequences of instructions that depend on the one they replace.      *)
LEMMA NextArgumentIs ==
  ASSUME NEW t, NEW its, NEW s, NEW i \in Nat \ {0}, NEW n \in Nat, NEW f, NEW m,
         NEW k \in Nat, k + 1 <= n, Held(t, its, s, i, n - k, f, m)
  PROVE  /\ IsSeq(<<Expr, MoreArgs(k + 1)>>) /\ IsSeq(<<Make("Call", k + 1)>>)
         /\ Held(t, its, <<Expr, MoreArgs(k + 1)>> \o s, i, n, f, m)
         /\ Held(t, its, <<Make("Call", k + 1)>> \o s, i, n, f, m)
<1> DEFINE q == k + 1
           x == Expr
           y == MoreArgs(q)
           z == Make("Call", q)
<1>1. x.do \in Producing
  BY DEF Expr, Parse, Producing
<1>2. /\ q \in Nat /\ n + 1 \in Nat /\ q + 1 <= n + 1 /\ q <= n
      /\ n - k = (n + 1) - q /\ n - k = n - q + 1
  OBVIOUS
<1> HIDE DEF x, y, z, q
<1>3. IsSeq(s) /\ m \in Nat /\ m <= n - k
  BY HeldIs
<1>4. m <= n /\ m <= n + 1
  BY <1>3
<1>5. Held(t, its, Then(y, s), i, n + 1, f, m)
  <2>1. Held(t, its, s, i, (n + 1) - q, f, m)
    BY <1>2
  <2> QED
    BY <1>2, <1>4, <2>1, PutArguments DEF y
<1>6. Held(t, its, Then(x, Then(y, s)), i, n, f, m)
  BY <1>1, <1>4, <1>5, PutProducing
<1>7. Held(t, its, Then(z, s), i, n, f, m)
  <2>1. Held(t, its, s, i, n - q + 1, f, m)
    BY <1>2
  <2> QED
    BY <1>2, <1>4, <2>1, PutMake DEF z
<1>8. /\ IsSeq(<<x, y>>) /\ <<x, y>> \o s = Then(x, Then(y, s))
      /\ IsSeq(<<z>>) /\ <<z>> \o s = Then(z, s)
  <2>1. IsSeq(<<x, y>>) /\ <<x, y>> \o s = Then(x, Then(y, s))
    BY ONLY <1>3, Tuple2
  <2>2. IsSeq(<<z>>) /\ <<z>> \o s = Then(z, s)
    BY ONLY <1>3, Tuple1
  <2> QED
    BY ONLY <2>1, <2>2
<1> QED
  BY <1>6, <1>7, <1>8 DEF x, y, z, q

LEMMA NextParameterIs ==
  ASSUME NEW t, NEW its, NEW s, NEW i \in Nat \ {0}, NEW n \in Nat, NEW f, NEW m,
         NEW k \in Nat, k <= n, Held(t, its, s, i, n - k + 1, f, m), m <= n
  PROVE  /\ IsSeq(<<TakeName, MoreParams(k + 1)>>) /\ IsSeq(<<Make("Params", k)>>)
         /\ Held(t, its, <<TakeName, MoreParams(k + 1)>> \o s, i, n, f, m)
         /\ Held(t, its, <<Make("Params", k)>> \o s, i, n, f, m)
<1> DEFINE q == k + 1
           x == TakeName
           y == MoreParams(q)
           z == Make("Params", k)
<1>1. x.do \in Producing
  BY DEF TakeName, Producing
<1>2. /\ q \in Nat /\ n + 1 \in Nat /\ q <= n + 1
      /\ n - k + 1 = (n + 1) - q + 1
  OBVIOUS
<1> HIDE DEF x, y, z, q
<1>3. IsSeq(s) /\ m \in Nat
  BY HeldIs
<1>4. m <= n /\ m <= n + 1
  BY <1>3
<1>5. Held(t, its, Then(y, s), i, n + 1, f, m)
  <2>1. Held(t, its, s, i, (n + 1) - q + 1, f, m)
    BY <1>2
  <2> QED
    BY <1>2, <1>4, <2>1, PutParameters DEF y
<1>6. Held(t, its, Then(x, Then(y, s)), i, n, f, m)
  BY <1>1, <1>4, <1>5, PutProducing
<1>7. Held(t, its, Then(z, s), i, n, f, m)
  BY <1>4, PutMake DEF z
<1>8. /\ IsSeq(<<x, y>>) /\ <<x, y>> \o s = Then(x, Then(y, s))
      /\ IsSeq(<<z>>) /\ <<z>> \o s = Then(z, s)
  <2>1. IsSeq(<<x, y>>) /\ <<x, y>> \o s = Then(x, Then(y, s))
    BY ONLY <1>3, Tuple2
  <2>2. IsSeq(<<z>>) /\ <<z>> \o s = Then(z, s)
    BY ONLY <1>3, Tuple1
  <2> QED
    BY ONLY <2>1, <2>2
<1> QED
  BY <1>6, <1>7, <1>8 DEF x, y, z, q

LEMMA OperandsAre ==
  ASSUME NEW t, NEW its, NEW s, NEW i \in Nat \ {0}, NEW n \in Nat, NEW f, NEW m,
         Held(t, its, s, i, n + 1, f, m), m <= n,
         NEW ranges \in Seq(Ranges), NEW shape, Xs(shape) = Len(ranges),
         \A k \in 1..Len(ranges) : Below(t, ranges[k], its[i].at)
  PROVE  /\ IsSeq(<<Operands(ranges), Fuse(shape)>>)
         /\ Held(t, its, <<Operands(ranges), Fuse(shape)>> \o s, i, n, i, m)
<1> DEFINE x == Operands(ranges)
           y == Fuse(shape)
           h == n + Len(ranges)
<1>1. Len(ranges) \in Nat
  BY LenProperties
<1>2. IsSeq(s) /\ m \in Nat
  BY HeldIs
<1>3. h \in Nat /\ n + 1 = h - Xs(shape) + 1 /\ Xs(shape) \in Nat /\ Xs(shape) <= h /\ m <= h
  BY <1>1, <1>2
<1> HIDE DEF h
<1>4. Held(t, its, s, i, h - Xs(shape) + 1, f, m)
  BY <1>3
<1>5. Held(t, its, Then(y, s), i, h, f, m)
  BY <1>3, <1>4, PutFuse
<1>6. Held(t, its, Then(y, s), i, n + Len(ranges), f, m)
  BY <1>5 DEF h
<1> HIDE DEF y
<1>7. Held(t, its, Then(x, Then(y, s)), i, n, i, m)
  BY <1>6, PutOperands
<1> HIDE DEF x
<1>8. IsSeq(<<x, y>>) /\ <<x, y>> \o s = Then(x, Then(y, s))
  BY <1>2, Tuple2
<1> QED
  BY <1>7, <1>8 DEF x, y

LEMMA NextOperandIs ==
  ASSUME NEW t, NEW its, NEW s, NEW i \in Nat \ {0}, NEW n \in Nat, NEW f, NEW m,
         NEW left \in Seq(Ranges), left # <<>>,
         Held(t, its, s, i, n + Len(left), f, m), m <= n,
         \A k \in 1..Len(left) : Below(t, left[k], its[i].at)
  PROVE  LET body == InRange(Head(left), <<Expr>>) \o <<Operands(Tail(left))>>
         IN  IsSeq(body) /\ Held(t, its, body \o s, i, n, i, m)
<1> DEFINE x == Expr
           y == Operands(Tail(left))
           b == InRange(Head(left), <<x>>)
<1>1. x.do \in Producing
  BY DEF Expr, Parse, Producing
<1>2. /\ Tail(left) \in Seq(Ranges) /\ Len(Tail(left)) = Len(left) - 1
      /\ Len(left) \in Nat /\ Len(left) >= 1 /\ Head(left) = left[1]
      /\ \A k \in 1..Len(Tail(left)) : Tail(left)[k] = left[k + 1]
  BY HeadTailProperties, LenProperties, EmptySeq
<1>3. /\ Below(t, Head(left), its[i].at)
      /\ \A k \in 1..Len(Tail(left)) : Below(t, Tail(left)[k], its[i].at)
  <2>1. 1 \in 1..Len(left) /\ \A k \in 1..Len(Tail(left)) : k + 1 \in 1..Len(left)
    BY <1>2
  <2> QED
    BY <1>2, <2>1
<1>4. IsSeq(s) /\ m \in Nat
  BY HeldIs
<1>5. n + 1 \in Nat /\ m <= n + 1 /\ (n + 1) + Len(Tail(left)) = n + Len(left)
  BY <1>2, <1>4
<1>6. Held(t, its, Then(y, s), i, n + 1, i, m)
  <2>1. Held(t, its, s, i, (n + 1) + Len(Tail(left)), f, m)
    BY <1>5
  <2> QED
    BY <1>2, <1>3, <1>5, <2>1, PutOperands
<1> HIDE DEF x, y
<1>7. IsSeq(b) /\ Held(t, its, b \o Then(y, s), i, n, i, m)
  BY <1>1, <1>3, <1>6, OneInRange
<1> HIDE DEF b
<1>8. IsSeq(<<y>>) /\ <<y>> \o s = Then(y, s)
  BY <1>4, Tuple1
<1>9. IsSeq(b \o <<y>>) /\ (b \o <<y>>) \o s = b \o (<<y>> \o s)
  BY <1>4, <1>7, <1>8, JoinThree
<1> QED
  BY <1>7, <1>8, <1>9 DEF b, x, y

(* One turn of the loop over the statements of a block, x.                 *)
LEMMA NextStatementIs ==
  ASSUME NEW t, NEW its, NEW s, NEW i, NEW x, NEW f, NEW m,
         Stack(t, its, s, i, x.nodes + 1, f, m), m <= x.nodes, x.nodes \in Nat,
         x.do = "block loop", x.kind = "toplevel" => x.has_result = FALSE,
         x.kind = "toplevel" \/ HasCatch(s),
         NEW y, y.do \in Producing,
         NEW c, c.do = "catch", c.iters = i, c.nodes \in Nat, x.nodes <= c.nodes
  PROVE  IsSeq(<<y, c, x>>) /\ Held(t, its, <<y, c, x>> \o s, i, c.nodes, i, c.nodes)
<1> DEFINE n == c.nodes
<1>1. IsSeq(s) /\ m \in Nat /\ i \in Nat \ {0}
  BY StackIs
<1> DEFINE z == x.nodes
<1>2. n \in Nat /\ z \in Nat /\ z <= n /\ m <= z
  OBVIOUS
<1> HIDE DEF n, z
<1>3. n \in Nat /\ n + 1 \in Nat /\ z <= n + 1 /\ m <= n /\ n <= n
  BY ONLY <1>1, <1>2
<1>4. n \in Nat /\ n + 1 \in Nat /\ x.nodes <= n + 1 /\ m <= n /\ n <= n
  BY ONLY <1>3 DEF z
<1>5. Stack(t, its, Then(x, s), i, n + 1, f, m)
  BY <1>4, PutBlockEnd
<1>6. AfterCatch(c, Then(x, s))
  <2>1. Len(Then(x, s)) = Len(s) + 1 /\ Len(s) \in Nat /\ Then(x, s)[1] = x
    BY ONLY <1>1, ConsIs DEF Then
  <2>2. Len(Then(x, s)) >= 1
    BY ONLY <2>1
  <2> QED
    BY <2>1, <2>2 DEF AfterCatch
<1>7. Held(t, its, Then(c, Then(x, s)), i, n + 1, i, n)
  BY <1>4, <1>5, <1>6, PutCatch DEF n
<1>8. Held(t, its, Then(y, Then(c, Then(x, s))), i, n, i, n)
  BY <1>4, <1>7, PutProducing
<1>9. IsSeq(<<y, c, x>>) /\ <<y, c, x>> \o s = Then(y, Then(c, Then(x, s)))
  BY ONLY <1>1, Tuple3
<1> QED
  BY <1>8, <1>9 DEF n

(* What follows the loop of the block x.                                   *)
Ending(x, c, result) ==
  (IF result THEN <<Expr, Make("Result", 1), c>> ELSE <<>>)
    \o (IF x.kind = "toplevel" THEN <<>> ELSE <<Take({"}"})>>)
    \o <<[do |-> "make block", nodes |-> x.nodes]>>

LEMMA ClosingIs ==
  ASSUME NEW t, NEW its, NEW s, NEW i, NEW x, NEW f, NEW m,
         Stack(t, its, s, i, x.nodes + 1, f, m), m <= x.nodes, x.nodes \in Nat,
         x.kind = "toplevel" \/ HasCatch(s),
         NEW n \in Nat, x.nodes <= n,
         NEW c, c.do = "catch", c.iters = i, c.nodes = n,
         NEW result \in BOOLEAN, result => x.kind # "toplevel"
  PROVE  /\ IsSeq(Ending(x, c, result))
         /\ \E f1, m1 : Stack(t, its, Ending(x, c, result) \o s, i, n, f1, m1)
<1> DEFINE body == Ending(x, c, result)
           b  == [do |-> "make block", nodes |-> x.nodes]
           e  == Expr
           k  == Make("Result", 1)
           d  == Take({"}"})
           u  == IF result THEN <<e, k, c>> ELSE <<>>
           v  == IF x.kind = "toplevel" THEN <<>> ELSE <<d>>
<1>1. IsSeq(s) /\ m \in Nat /\ i \in Nat \ {0}
  BY StackIs
<1>2. b.do = "make block" /\ b.nodes = x.nodes
  OBVIOUS
<1>3. e.do \in Producing /\ d.do = "take"
  BY DEF Expr, Parse, Producing, Take
<1>4. body = (u \o v) \o <<b>>
  BY DEF Ending
<1>5. n + 1 \in Nat /\ x.nodes <= n + 1 /\ m <= n /\ n <= n + 1 /\ n <= n
        /\ n + 1 = (n + 1) - 1 + 1 /\ 1 <= n + 1 /\ 1 \in Nat
  BY <1>1
<1> HIDE DEF b, e, d, body
<1>6. Stack(t, its, Then(b, s), i, n, f, m) /\ Stack(t, its, Then(b, s), i, n + 1, f, m)
  BY <1>2, <1>5, PutBlockEnd
<1>7. IsSeq(Then(b, s)) /\ <<b>> \o s = Then(b, s) /\ IsSeq(<<b>>)
  BY <1>1, ThenIsSeq, OneIs
<1>8. IsSeq(v) /\ IsSeq(v \o Then(b, s))
  BY <1>7, NoneIs, OneIs, JoinIs
<1>9. ASSUME x.kind # "toplevel"
      PROVE  /\ v \o Then(b, s) = Then(d, Then(b, s))
             /\ Held(t, its, Then(d, Then(b, s)), i, n, f, m)
             /\ Held(t, its, Then(d, Then(b, s)), i, n + 1, f, m)
  <2>1. HasCatch(Then(b, s))
    BY <1>1, <1>9, StillCaught
  <2>2. Held(t, its, Then(d, Then(b, s)), i, n, f, m) /\ Held(t, its, Then(d, Then(b, s)), i, n + 1, f, m)
    <3>1. d.do \in {"take", "see"}
      BY ONLY <1>3
    <3> QED
      BY <3>1, <1>6, <2>1, PutStep DEF Held
  <2> QED
    BY <1>7, <1>9, <2>2, Tuple1
<1>10. IsSeq(u) /\ \E f1, m1 : Stack(t, its, u \o (v \o Then(b, s)), i, n, f1, m1)
  <2>1. CASE result
    <3> DEFINE w == v \o Then(b, s)
    <3>1. x.kind # "toplevel"
      BY <2>1
    <3>2. w = Then(d, Then(b, s)) /\ Held(t, its, w, i, n + 1, f, m)
      BY <1>9, <3>1
    <3>3. AfterCatch(c, w)
      <4>1. /\ Len(Then(b, s)) = Len(s) + 1 /\ Len(s) \in Nat /\ Then(b, s)[1] = b
        BY ONLY <1>1, ConsIs DEF Then
      <4>2. /\ Len(w) = Len(Then(b, s)) + 1 /\ w[1] = d
            /\ \A j \in 1..Len(Then(b, s)) : w[j + 1] = Then(b, s)[j]
        BY ONLY <1>7, <3>2, ConsIs DEF Then
      <4>3. Len(w) >= 2 /\ 1 \in 1..Len(Then(b, s)) /\ 1 + 1 = 2
        BY <4>1, <4>2
      <4>4. w[2] = b
        BY <4>1, <4>2, <4>3
      <4>5. w[1].do = "take"
        BY ONLY <1>3, <4>2
      <4> QED
        BY <1>2, <4>3, <4>4, <4>5 DEF AfterCatch
    <3> HIDE DEF w
    <3>4. Stack(t, its, w, i, c.nodes + 1, f, m) /\ c.nodes \in Nat /\ m <= c.nodes
      BY <1>5, <3>2 DEF Held
    <3>5. Held(t, its, Then(c, w), i, c.nodes + 1, i, c.nodes)
      BY <3>3, <3>4, PutCatch
    <3>6. Held(t, its, Then(c, w), i, n + 1, i, n)
      BY <3>5
    <3>7. Held(t, its, Then(k, Then(c, w)), i, n + 1, i, n)
      <4>1. Held(t, its, Then(c, w), i, (n + 1) - 1 + 1, i, n)
        BY <1>5, <3>6
      <4> QED
        BY <1>5, <4>1, PutMake
    <3> HIDE DEF k
    <3>8. Held(t, its, Then(e, Then(k, Then(c, w))), i, n, i, n)
      BY <1>3, <1>5, <3>7, PutProducing
    <3>9. IsSeq(<<e, k, c>>) /\ <<e, k, c>> \o w = Then(e, Then(k, Then(c, w)))
      <4>1. IsSeq(w)
        BY ONLY <1>8 DEF w
      <4> HIDE DEF w, u, v, k
      <4> QED
        BY ONLY <4>1, Tuple3
    <3> QED
      BY <2>1, <3>8, <3>9 DEF Held, w
  <2>2. CASE ~result
    <3>1. IsSeq(u) /\ u \o (v \o Then(b, s)) = v \o Then(b, s)
      BY <1>8, <2>2, NoneIs
    <3>2. CASE x.kind = "toplevel"
      <4>1. v \o Then(b, s) = Then(b, s)
        BY <1>7, <3>2, NoneIs
      <4> QED
        BY <1>6, <3>1, <4>1
    <3>3. CASE x.kind # "toplevel"
      BY <1>9, <3>1, <3>3 DEF Held
    <3> QED
      BY <3>2, <3>3
  <2> QED
    BY <2>1, <2>2
<1> HIDE DEF u, v
<1>11. IsSeq(u \o v) /\ IsSeq((u \o v) \o <<b>>)
  BY <1>7, <1>8, <1>10, JoinIs
<1>12. ((u \o v) \o <<b>>) \o s = (u \o v) \o (<<b>> \o s)
  BY ONLY <1>1, <1>7, <1>11, JoinThree
<1>13. (u \o v) \o Then(b, s) = u \o (v \o Then(b, s))
  BY ONLY <1>7, <1>8, <1>10, JoinThree
<1> QED
  BY <1>4, <1>7, <1>10, <1>11, <1>12, <1>13 DEF body


-----------------------------------------------------------------------------
(* The inductive invariant.                                                *)
IInv ==
  /\ tokens \in Seq(TokenType) /\ errors \in 0..MaxErrors /\ stalled \in BOOLEAN
  /\ outcome \in {"running", "done"} \union Crashes
  /\ Placed(tokens, iters) /\ IsSeq(nodes)
  /\ outcome = "running" => \E f, m : Stack(tokens, iters, todo, Len(iters), Len(nodes), f, m)
  /\ outcome = "done" => Len(nodes) = 1
  /\ BlockEndIsFound

LEMMA InitInv ==
  ASSUME Init
  PROVE  IInv
<1> DEFINE x == Block("toplevel")
           p == [at |-> 1, to |-> Len(tokens) + 1]
<1>1. tokens \in Inputs /\ iters = <<p>> /\ todo = <<x>> /\ nodes = <<>>
        /\ errors = 0 /\ stalled = FALSE /\ outcome = "running"
  BY DEF Init
<1>2. tokens \in Seq(TokenType) /\ Len(tokens) \in Nat
  BY <1>1, InputAssumption, LenProperties
<1>3. IsSeq(nodes) /\ Len(nodes) = 0
  <2>1. <<>> \in Seq({})
    OBVIOUS
  <2> QED
    BY <1>1, <2>1, SeqIs
<1>4. Placed(tokens, iters)
  <2>1. p \in States /\ p.at = 1 /\ p.to = Len(tokens) + 1
    BY <1>2 DEF States
  <2>2. LevelOn(tokens, 1, Len(tokens) + 1)
    BY DEF LevelOn, Matched
  <2> HIDE DEF p
  <2>3. iters \in Seq(States) /\ iters # <<>> /\ Len(iters) = 1 /\ iters[1] = p
    BY <1>1, <2>1
  <2>4. \A k \in 1..Len(iters) : k = 1
    BY <2>3
  <2>5. 1 <= 1 /\ 1 <= Len(tokens) + 1 /\ Len(tokens) + 1 <= Len(tokens) + 1
    BY <1>2
  <2>6. 2..1 = {}
    OBVIOUS
  <2>7. \A k \in 1..Len(iters) :
          /\ 1 <= iters[k].at /\ iters[k].at <= iters[k].to /\ iters[k].to <= Len(tokens) + 1
          /\ LevelOn(tokens, iters[k].at, iters[k].to)
    BY <2>1, <2>2, <2>3, <2>4, <2>5
  <2> QED
    BY <1>2, <2>3, <2>6, <2>7 DEF Placed
<1>5. Stack(tokens, iters, <<>>, 1, 1, 1, 0)
  BY EmptyStack
<1>6. x.do = "block" /\ x.kind = "toplevel"
  BY DEF Block
<1>7. x.do \in Producing /\ x.do \notin Pinning /\ x.do \notin Saving /\ ~NeedsCatch(x) /\ x.do # "catch"
  BY <1>6 DEF Producing, Pinning, Saving, NeedsCatch
<1> HIDE DEF x, p
<1>8. Moves(tokens, iters, x, 1, 0, 1, 1)
  <2>1. 1 = 0 + 1
    OBVIOUS
  <2> QED
    BY <1>7, <2>1 DEF Moves
<1>9. Stack(tokens, iters, <<x>> \o <<>>, 1, 0, 1, 0)
  <2>1. 1 \in Nat \ {0} /\ 1 \in Nat /\ 0 \in Nat /\ 1 <= 1 /\ 0 <= 0
    OBVIOUS
  <2> QED
    BY ONLY <1>5, <1>7, <1>8, <2>1, Put
<1>10. <<x>> \o <<>> = todo /\ Len(iters) = 1
  <2>1. <<x>> \o <<>> = <<x>>
    OBVIOUS
  <2> QED
    BY <1>1, <2>1
<1>11. Stack(tokens, iters, todo, Len(iters), Len(nodes), 1, 0)
  BY <1>3, <1>9, <1>10
<1>12. errors \in 0..MaxErrors
  BY <1>1, ErrorsAssumption
<1> QED
  BY <1>1, <1>2, <1>3, <1>4, <1>11, <1>12 DEF IInv, BlockEndIsFound

(* What an instruction does if it throws no error.                         *)
LEMMA GoKeeps ==
  ASSUME IInv, outcome = "running", NEW body, NEW its2, Go(body, its2),
         Placed(tokens, its2), IsSeq(nodes'),
         NEW f, NEW m, Stack(tokens, its2, body \o Tail(todo), Len(its2), Len(nodes'), f, m)
  PROVE  IInv'
<1>1. /\ todo' = body \o Tail(todo) /\ iters' = its2 /\ tokens' = tokens
      /\ errors' = errors /\ stalled' = stalled /\ outcome' = "running"
  BY DEF Go
<1>2. tokens \in Seq(TokenType) /\ errors \in 0..MaxErrors /\ stalled \in BOOLEAN
  BY DEF IInv
<1> QED
  BY <1>1, <1>2 DEF IInv, BlockEndIsFound

LEMMA OneMoreIs ==
  ASSUME NEW n \in 0..MaxErrors
  PROVE  OneMore(n) \in 0..MaxErrors
BY ErrorsAssumption DEF OneMore

(* An error unwinds to a catch.                                            *)
LEMMA ThrowKeeps ==
  ASSUME IInv, outcome = "running", todo # <<>>, NeedsCatch(Head(todo)),
         NEW its2, Throw(its2), Placed(tokens, its2), Len(its2) = Len(iters),
         \A k \in 1..Len(iters) :
           iters[k].at \in Nat /\ its2[k].at \in Nat /\ iters[k].at <= its2[k].at
  PROVE  IInv'
<1> DEFINE catches == {k \in 2..Len(todo) : todo[k].do = "catch"}
           c == Min(catches)
<1>1. tokens \in Seq(TokenType) /\ errors \in 0..MaxErrors /\ stalled \in BOOLEAN /\ IsSeq(nodes)
  BY DEF IInv
<1>2. PICK f, m : Stack(tokens, iters, todo, Len(iters), Len(nodes), f, m)
  BY DEF IInv
<1>3. HasCatch(Tail(todo))
  BY <1>2, Done
<1>4. IsSeq(todo) /\ Len(todo) \in Nat /\ Len(iters) \in Nat /\ Len(nodes) \in Nat
  BY <1>2, StackIs
<1>5. /\ Len(Tail(todo)) = Len(todo) - 1
      /\ \A k \in 1..(Len(todo) - 1) : Tail(todo)[k] = todo[k + 1]
  BY <1>4, TailIs
<1>6. catches # {}
  <2>1. PICK k \in 1..Len(Tail(todo)) : Tail(todo)[k].do = "catch"
    BY <1>3 DEF HasCatch
  <2>2. k + 1 \in 2..Len(todo) /\ k \in 1..(Len(todo) - 1)
    BY <1>4, <1>5
  <2>3. todo[k + 1].do = "catch"
    BY <1>5, <2>1, <2>2
  <2> QED
    BY <2>2, <2>3
<1>7. c \in catches
  <2>1. catches \in SUBSET Int /\ 2 \in Int /\ \A k \in catches : 2 <= k
    OBVIOUS
  <2> HIDE DEF catches
  <2> QED
    BY <1>6, <2>1, LeastOf
<1>8. /\ todo' = SubSeq(todo, c + 1, Len(todo)) /\ iters' = SubSeq(its2, 1, todo[c].iters)
      /\ nodes' = SubSeq(nodes, 1, todo[c].nodes) /\ errors' = OneMore(errors)
      /\ stalled' = (stalled \/ (todo[c].in_loop /\ its2[todo[c].iters].at = todo[c].at))
      /\ tokens' = tokens /\ outcome' = "running"
  BY <1>6 DEF Throw
<1>9. c \in 1..Len(todo) /\ todo[c].do = "catch"
  BY <1>4, <1>7
<1> HIDE DEF catches, c
<1>10. /\ todo[c].iters \in 1..Len(iters) /\ todo[c].nodes \in 0..Len(nodes)
       /\ Stack(tokens, iters, todo', todo[c].iters, todo[c].nodes, todo[c].iters, todo[c].nodes)
  <2>1. todo' = Rest(todo, c)
    BY <1>8 DEF Rest
  <2> QED
    BY ONLY <1>2, <1>9, <2>1, AtCatch
<1>11. /\ Placed(tokens, iters') /\ Len(iters') = todo[c].iters
       /\ \A k \in 1..todo[c].iters : iters'[k] = its2[k]
  <2> DEFINE d == todo[c].iters
  <2>1. d \in 1..Len(its2) /\ iters' = SubSeq(its2, 1, d)
    BY <1>8, <1>10
  <2> HIDE DEF d
  <2>2. /\ Placed(tokens, iters') /\ Len(iters') = d
        /\ \A k \in 1..d : iters'[k] = its2[k]
    BY ONLY Placed(tokens, its2), <2>1, CutPlaced
  <2> QED
    BY <2>2 DEF d
<1>12. Stack(tokens, iters', todo', todo[c].iters, todo[c].nodes, todo[c].iters, todo[c].nodes)
  <2>1. \A k \in 1..todo[c].iters : k \in 1..Len(iters)
    BY <1>4, <1>10
  <2>2. \A k \in 1..todo[c].iters :
          iters[k].at \in Nat /\ iters'[k].at \in Nat /\ iters[k].at <= iters'[k].at
    BY <1>11, <2>1
  <2> QED
    BY ONLY <1>10, <2>2, Advance
<1>13. IsSeq(nodes') /\ Len(nodes') = todo[c].nodes
  <2> DEFINE n == todo[c].nodes
  <2>1. n \in Nat /\ n <= Len(nodes) /\ 1 \in Nat /\ 1 <= 1 /\ 1 <= n + 1 /\ n - 1 + 1 = n
    BY <1>4, <1>10
  <2>2. nodes' = SubSeq(nodes, 1, n)
    BY <1>8
  <2> HIDE DEF n
  <2>3. IsSeq(nodes') /\ Len(nodes') = n
    BY ONLY <1>1, <2>1, <2>2, SubSeqIs
  <2> QED
    BY <2>3 DEF n
<1>14. Stack(tokens, iters', todo', Len(iters'), Len(nodes'), todo[c].iters, todo[c].nodes)
  BY ONLY <1>11, <1>12, <1>13
<1>15. errors' \in 0..MaxErrors /\ stalled' \in BOOLEAN /\ tokens' = tokens /\ outcome' = "running"
  BY <1>1, <1>8, OneMoreIs
<1>16. tokens' \in Seq(TokenType) /\ Placed(tokens', iters')
         /\ Stack(tokens', iters', todo', Len(iters'), Len(nodes'), todo[c].iters, todo[c].nodes)
  BY ONLY <1>1, <1>11, <1>14, <1>15
<1> QED
  BY ONLY <1>13, <1>15, <1>16 DEF IInv, BlockEndIsFound

(* The program ends.                                                       *)
LEMMA CrashKeeps ==
  ASSUME IInv, NEW why, Crash(why), why \in Crashes,
         why = "block_end has invalid value" => ~BracesMatch
  PROVE  IInv'
<1>1. outcome' = why /\ UNCHANGED <<tokens, iters, todo, nodes, errors, stalled>>
  BY DEF Crash
<1>2. why # "running" /\ why # "done"
  BY DEF Crashes
<1>3. BlockEndIsFound'
  BY <1>1 DEF BlockEndIsFound, BracesMatch, Count
<1> QED
  BY <1>1, <1>2, <1>3 DEF IInv

-----------------------------------------------------------------------------
(* Moving `ps` on.                                                         *)
Onward(its, its2) ==
  /\ Placed(tokens, its2) /\ Len(its2) = Len(its)
  /\ \A k \in 1..Len(its) : its[k].at \in Nat /\ its2[k].at \in Nat /\ its[k].at <= its2[k].at

LEMMA PsIs ==
  ASSUME Placed(tokens, iters)
  PROVE  /\ ps = iters[Len(iters)] /\ ps.at \in Nat /\ ps.to \in Nat
         /\ 1 <= ps.at /\ ps.at <= ps.to /\ ps.to <= Len(tokens) + 1
         /\ LevelOn(tokens, ps.at, ps.to) /\ Len(iters) \in Nat \ {0}
<1>1. Len(iters) \in Nat \ {0} /\ Last(iters) = iters[Len(iters)]
        /\ \A k \in 1..Len(iters) : iters[k].at \in Nat /\ iters[k].to \in Nat
  BY PlacedIs
<1>2. Len(iters) \in 1..Len(iters)
  BY <1>1
<1> QED
  BY <1>1, <1>2 DEF Placed, ps

LEMMA MovedIs ==
  ASSUME Placed(tokens, iters), NEW p, p \in ps.at..ps.to
  PROVE  /\ Onward(iters, MovedTo(p))
         /\ MovedTo(p)[Len(iters)].at = p /\ MovedTo(p)[Len(iters)].to = ps.to
<1>1. ps = iters[Len(iters)] /\ ps.at \in Nat /\ ps.to \in Nat
  BY PsIs
<1>2. p \in Nat /\ iters[Len(iters)].at <= p /\ p <= iters[Len(iters)].to
  BY <1>1
<1> QED
  BY <1>1, <1>2, MovePlaced DEF MovedTo, Onward

LEMMA Unmoved ==
  ASSUME Placed(tokens, iters)
  PROVE  Onward(iters, iters)
<1>1. \A k \in 1..Len(iters) : iters[k].at \in Nat
  BY PlacedIs
<1>2. \A k \in 1..Len(iters) : iters[k].at <= iters[k].at
  BY <1>1
<1> QED
  BY <1>1, <1>2 DEF Onward

LEMMA ConsumedIs ==
  ASSUME Placed(tokens, iters)
  PROVE  Onward(iters, Consumed)
<1>1. ps.at \in Nat /\ ps.to \in Nat /\ ps.at <= ps.to
  BY PsIs
<1>2. CASE HasMore
  <2>1. ps.at + 1 \in ps.at..ps.to
    BY <1>1, <1>2 DEF HasMore
  <2> QED
    BY <1>2, <2>1, MovedIs DEF Consumed
<1>3. CASE ~HasMore
  <2>1. ps.at \in ps.at..ps.to
    BY <1>1
  <2> QED
    BY <1>3, <2>1, MovedIs DEF Consumed
<1> QED
  BY <1>2, <1>3

(* What follows an instruction, behind a move of `ps`.                     *)
LEMMA StackOnward ==
  ASSUME NEW its2, Onward(iters, its2), NEW s, NEW i, NEW n, NEW f, NEW m,
         Stack(tokens, iters, s, i, n, f, m), Len(iters) \in Nat, f <= Len(iters)
  PROVE  Stack(tokens, its2, s, i, n, f, m)
<1>1. f \in Nat
  BY StackIs
<1>2. \A k \in 1..f : k \in 1..Len(iters)
  BY <1>1
<1>3. \A k \in 1..f : iters[k].at \in Nat /\ its2[k].at \in Nat /\ iters[k].at <= its2[k].at
  BY <1>2 DEF Onward
<1> QED
  BY ONLY <1>3, Stack(tokens, iters, s, i, n, f, m), Advance

LEMMA HeldOnward ==
  ASSUME NEW its2, Onward(iters, its2), NEW s, NEW n, NEW f, NEW m,
         Held(tokens, iters, s, Len(iters), n, f, m)
  PROVE  Held(tokens, its2, s, Len(its2), n, f, m)
<1>1. Len(iters) \in Nat \ {0} /\ f <= Len(iters)
  BY HeldIs
<1>2. Stack(tokens, its2, s, Len(iters), n, f, m)
  BY <1>1, StackOnward DEF Held
<1> QED
  BY <1>2 DEF Held, Onward

(* The last n nodes become one.                                            *)
LEMMA GatheredIs ==
  ASSUME IsSeq(nodes), NEW kind, NEW n \in Nat, n <= Len(nodes)
  PROVE  /\ IsSeq(Gathered(kind, n)) /\ Len(Gathered(kind, n)) = Len(nodes) - n + 1
<1> DEFINE u == SubSeq(nodes, 1, Len(nodes) - n)
           q == Len(nodes) - n
<1>1. Len(nodes) \in Nat
  BY ListIs
<1>2. q \in Nat /\ 1 \in Nat /\ 1 <= 1 /\ 1 <= q + 1 /\ q <= Len(nodes) /\ q - 1 + 1 = q
  BY <1>1
<1>3. u = SubSeq(nodes, 1, q)
  OBVIOUS
<1> HIDE DEF q, u
<1>4. IsSeq(u) /\ Len(u) = q
  BY ONLY <1>2, <1>3, IsSeq(nodes), SubSeqIs
<1>5. \A x : IsSeq(Append(u, x)) /\ Len(Append(u, x)) = q + 1
  BY ONLY <1>4, AppendIs
<1> QED
  BY <1>5 DEF Gathered, q, u


-----------------------------------------------------------------------------
(* Every step keeps the invariant.                                         *)
LEMMA Running ==
  ASSUME IInv, NEW what, Doing(what)
  PROVE  /\ outcome = "running" /\ todo # <<>> /\ Head(todo).do = what
         /\ Placed(tokens, iters) /\ IsSeq(nodes)
         /\ Len(nodes) \in Nat /\ Len(iters) \in Nat \ {0} /\ Len(tokens) \in Nat
         /\ IsSeq(Tail(todo)) /\ <<>> \o Tail(todo) = Tail(todo)
         /\ \E f, m : Stack(tokens, iters, todo, Len(iters), Len(nodes), f, m)
<1>1. outcome = "running" /\ todo # <<>> /\ Head(todo).do = what
  BY DEF Doing
<1>2. PICK f, m : Stack(tokens, iters, todo, Len(iters), Len(nodes), f, m)
  BY <1>1 DEF IInv
<1>3. Placed(tokens, iters) /\ IsSeq(nodes) /\ Len(tokens) \in Nat
  BY DEF IInv, Placed
<1>4. IsSeq(todo) /\ Len(nodes) \in Nat /\ Len(iters) \in Nat \ {0}
  BY <1>2, StackIs
<1>5. IsSeq(Tail(todo))
  BY <1>1, <1>4, TailIs
<1>6. <<>> \o Tail(todo) = Tail(todo)
  BY <1>5, NoneIs
<1> QED
  BY <1>1, <1>2, <1>3, <1>4, <1>5, <1>6

LEMMA GoHeld ==
  ASSUME IInv, outcome = "running", NEW body, NEW its2, Go(body, its2),
         Onward(iters, its2), IsSeq(nodes'),
         NEW f, NEW m, Held(tokens, its2, body \o Tail(todo), Len(its2), Len(nodes'), f, m)
  PROVE  IInv'
BY GoKeeps DEF Onward, Held

LEMMA ThrowOnward ==
  ASSUME IInv, outcome = "running", todo # <<>>, NeedsCatch(Head(todo)),
         NEW its2, Throw(its2), Onward(iters, its2)
  PROVE  IInv'
BY ThrowKeeps DEF Onward

LEMMA Pushed ==
  ASSUME IsSeq(nodes), NEW x, Push(x)
  PROVE  IsSeq(nodes') /\ Len(nodes') = Len(nodes) + 1
BY AppendIs DEF Push

LEMMA TakeTokenKeeps ==
  ASSUME IInv, TakeToken
  PROVE  IInv'
<1>1. Doing("take")
  BY DEF TakeToken
<1>2. PICK f, m : Stack(tokens, iters, todo, Len(iters), Len(nodes), f, m)
  BY <1>1, Running
<1>3. outcome = "running" /\ todo # <<>> /\ Head(todo).do \in {"take", "see"}
        /\ Placed(tokens, iters) /\ IsSeq(nodes) /\ <<>> \o Tail(todo) = Tail(todo)
  BY <1>1, Running
<1>4. NeedsCatch(Head(todo)) /\ \E f1, m1 : Held(tokens, iters, Tail(todo), Len(iters), Len(nodes), f1, m1)
  BY <1>2, <1>3, HeadStep
<1>5. Onward(iters, Consumed)
  BY <1>3, ConsumedIs
<1>6. CASE Go(<<>>, Consumed) /\ UNCHANGED nodes
  <2>1. PICK f1, m1 : Held(tokens, iters, Tail(todo), Len(iters), Len(nodes), f1, m1)
    BY <1>4
  <2>2. Held(tokens, Consumed, Tail(todo), Len(Consumed), Len(nodes), f1, m1)
    BY ONLY <1>5, <2>1, HeldOnward
  <2>3. Held(tokens, Consumed, <<>> \o Tail(todo), Len(Consumed), Len(nodes'), f1, m1) /\ IsSeq(nodes')
    BY <1>3, <1>6, <2>2
  <2> QED
    BY <1>3, <1>5, <1>6, <2>3, GoHeld
<1>7. CASE Throw(Consumed)
  BY <1>3, <1>4, <1>5, <1>7, ThrowOnward
<1> QED
  BY <1>6, <1>7 DEF TakeToken

LEMMA SeeTokenKeeps ==
  ASSUME IInv, SeeToken
  PROVE  IInv'
<1>1. Doing("see")
  BY DEF SeeToken
<1>2. PICK f, m : Stack(tokens, iters, todo, Len(iters), Len(nodes), f, m)
  BY <1>1, Running
<1>3. outcome = "running" /\ todo # <<>> /\ Head(todo).do \in {"take", "see"}
        /\ Placed(tokens, iters) /\ IsSeq(nodes) /\ <<>> \o Tail(todo) = Tail(todo)
  BY <1>1, Running
<1>4. NeedsCatch(Head(todo)) /\ \E f1, m1 : Held(tokens, iters, Tail(todo), Len(iters), Len(nodes), f1, m1)
  BY <1>2, <1>3, HeadStep
<1>5. Onward(iters, iters)
  BY <1>3, Unmoved
<1>6. CASE Go(<<>>, iters) /\ UNCHANGED nodes
  BY <1>3, <1>4, <1>5, <1>6, GoHeld
<1>7. CASE Throw(iters)
  BY <1>3, <1>4, <1>5, <1>7, ThrowOnward
<1> QED
  BY <1>6, <1>7 DEF SeeToken

LEMMA TakeIdentifierKeeps ==
  ASSUME IInv, TakeIdentifier
  PROVE  IInv'
<1>1. Doing("name")
  BY DEF TakeIdentifier
<1>2. PICK f, m : Stack(tokens, iters, todo, Len(iters), Len(nodes), f, m)
  BY <1>1, Running
<1>3. outcome = "running" /\ todo # <<>> /\ Head(todo).do = "name"
        /\ Placed(tokens, iters) /\ IsSeq(nodes) /\ <<>> \o Tail(todo) = Tail(todo)
  BY <1>1, Running
<1>4. Head(todo).do \in Producing /\ Head(todo).do # "block"
  BY <1>3 DEF Producing
<1>5. NeedsCatch(Head(todo)) /\ \E f1, m1 : Held(tokens, iters, Tail(todo), Len(iters), Len(nodes) + 1, f1, m1)
  BY <1>2, <1>3, <1>4, HeadProducing DEF Held
<1>6. Onward(iters, Consumed)
  BY <1>3, ConsumedIs
<1>7. CASE Go(<<>>, Consumed) /\ Push(Node(Peek, <<>>))
  <2>1. PICK f1, m1 : Held(tokens, iters, Tail(todo), Len(iters), Len(nodes) + 1, f1, m1)
    BY <1>5
  <2>2. Held(tokens, Consumed, Tail(todo), Len(Consumed), Len(nodes) + 1, f1, m1)
    BY ONLY <1>6, <2>1, HeldOnward
  <2>3. IsSeq(nodes') /\ Len(nodes') = Len(nodes) + 1
    BY <1>3, <1>7, Pushed
  <2>4. Held(tokens, Consumed, <<>> \o Tail(todo), Len(Consumed), Len(nodes'), f1, m1)
    BY <1>3, <2>2, <2>3
  <2> QED
    BY <1>3, <1>6, <1>7, <2>3, <2>4, GoHeld
<1>8. CASE Throw(Consumed)
  BY <1>3, <1>5, <1>6, <1>8, ThrowOnward
<1> QED
  BY <1>7, <1>8 DEF TakeIdentifier

(* A copy of a ParseState becomes `ps`.                                    *)
LEMMA EnterKeeps ==
  ASSUME IInv, outcome = "running", todo # <<>>,
         NEW its2, Onward(iters, its2), NEW r, Below(tokens, r, its2[Len(its2)].at),
         NEW x, x = [at |-> r.from, to |-> r.to], Go(<<>>, Append(its2, x)), nodes' = nodes,
         NEW f1 \in Nat, NEW m1, f1 <= Len(iters),
         Stack(tokens, iters, Tail(todo), Len(iters) + 1, Len(nodes), f1, m1)
  PROVE  IInv'
<1> DEFINE its3 == Append(its2, x)
<1>1. Placed(tokens, its2) /\ Len(its2) = Len(iters)
        /\ \A k \in 1..Len(iters) : iters[k].at \in Nat /\ its2[k].at \in Nat /\ iters[k].at <= its2[k].at
  BY DEF Onward
<1>2. /\ Placed(tokens, its3) /\ Len(its3) = Len(its2) + 1
      /\ \A k \in 1..Len(its2) : its3[k] = its2[k]
  BY ONLY <1>1, Below(tokens, r, its2[Len(its2)].at), x = [at |-> r.from, to |-> r.to], EnterPlaced
<1>3. Go(<<>>, its3)
  OBVIOUS
<1> HIDE DEF its3
<1>4. Len(iters) \in Nat /\ IsSeq(nodes)
  BY <1>1, PlacedIs DEF IInv
<1>5. \A k \in 1..f1 : k \in 1..Len(iters)
  BY <1>4
<1>6. \A k \in 1..f1 : iters[k].at \in Nat /\ its3[k].at \in Nat /\ iters[k].at <= its3[k].at
  BY ONLY <1>1, <1>2, <1>5
<1>7. Stack(tokens, its3, Tail(todo), Len(iters) + 1, Len(nodes), f1, m1)
  BY ONLY <1>6, Stack(tokens, iters, Tail(todo), Len(iters) + 1, Len(nodes), f1, m1), Advance
<1>8. <<>> \o Tail(todo) = Tail(todo)
  BY <1>7, StackIs, NoneIs
<1>9. Stack(tokens, its3, <<>> \o Tail(todo), Len(its3), Len(nodes'), f1, m1)
  BY <1>1, <1>2, <1>7, <1>8
<1>10. IsSeq(nodes')
  BY <1>4
<1> QED
  BY <1>2, <1>3, <1>9, <1>10, GoKeeps

LEMMA EnterRangeKeeps ==
  ASSUME IInv, EnterRange
  PROVE  IInv'
<1> DEFINE r == Instr.range
           x == [at |-> r.from, to |-> r.to]
<1>1. Doing("enter") /\ Go(<<>>, Append(iters, x)) /\ nodes' = nodes
  BY DEF EnterRange
<1>2. PICK f, m : Stack(tokens, iters, todo, Len(iters), Len(nodes), f, m)
  BY <1>1, Running
<1>3. outcome = "running" /\ todo # <<>> /\ Head(todo).do = "enter" /\ Placed(tokens, iters)
  BY <1>1, Running
<1>4. /\ Below(tokens, r, iters[Len(iters)].at)
      /\ \E f1, m1 \in Nat : f1 <= Len(iters)
           /\ Stack(tokens, iters, Tail(todo), Len(iters) + 1, Len(nodes), f1, m1)
  BY <1>2, <1>3, HeadEnter DEF Instr
<1>5. Onward(iters, iters)
  BY <1>3, Unmoved
<1>6. x = [at |-> r.from, to |-> r.to]
  OBVIOUS
<1> HIDE DEF r, x
<1> QED
  BY <1>1, <1>3, <1>4, <1>5, <1>6, EnterKeeps

LEMMA LeaveRangeKeeps ==
  ASSUME IInv, LeaveRange
  PROVE  IInv'
<1> DEFINE its2 == Front(iters)
<1>1. Doing("leave") /\ Go(<<>>, its2) /\ nodes' = nodes
  BY DEF LeaveRange
<1>2. PICK f, m : Stack(tokens, iters, todo, Len(iters), Len(nodes), f, m)
  BY <1>1, Running
<1>3. outcome = "running" /\ todo # <<>> /\ Head(todo).do = "leave"
        /\ Placed(tokens, iters) /\ IsSeq(nodes) /\ <<>> \o Tail(todo) = Tail(todo)
        /\ Len(iters) \in Nat \ {0}
  BY <1>1, Running
<1>4. PICK c \in Nat \ {0} : Len(iters) = c + 1
        /\ \E f1, m1 \in Nat : Stack(tokens, iters, Tail(todo), c, Len(nodes), f1, m1)
  BY <1>2, <1>3, HeadLeave
<1>5. c \in 1..Len(iters) /\ its2 = SubSeq(iters, 1, c)
  <2>1. Len(iters) - 1 = c /\ c \in 1..Len(iters)
    BY <1>4
  <2>2. its2 = SubSeq(iters, 1, Len(iters) - 1)
    BY DEF Front
  <2> QED
    BY <2>1, <2>2
<1> HIDE DEF its2
<1>6. Placed(tokens, iters)
  BY <1>3
<1>7. /\ Placed(tokens, its2) /\ Len(its2) = c
      /\ \A k \in 1..c : its2[k] = iters[k]
  BY ONLY <1>6, <1>5, CutPlaced
<1>8. PICK f1 \in Nat, m1 \in Nat : Stack(tokens, iters, Tail(todo), c, Len(nodes), f1, m1)
  BY <1>4
<1>9. \A k \in 1..f1 : iters[k].at \in Nat /\ its2[k].at \in Nat /\ iters[k].at <= its2[k].at
  <2>1. f1 <= c
    BY <1>8, StackIs
  <2>2. \A k \in 1..f1 : k \in 1..Len(iters) /\ k \in 1..c
    BY <1>4, <2>1
  <2>3. \A k \in 1..Len(iters) : iters[k].at \in Nat
    BY <1>3, PlacedIs
  <2>4. \A k \in 1..f1 : its2[k] = iters[k] /\ iters[k].at \in Nat
    BY <1>7, <2>2, <2>3
  <2> QED
    BY <2>4
<1>10. Stack(tokens, its2, Tail(todo), c, Len(nodes), f1, m1)
  BY ONLY <1>8, <1>9, Advance
<1>11. Stack(tokens, its2, <<>> \o Tail(todo), Len(its2), Len(nodes'), f1, m1)
  BY <1>1, <1>3, <1>7, <1>10
<1> QED
  BY <1>1, <1>3, <1>7, <1>11, GoKeeps

LEMMA MakeNodeKeeps ==
  ASSUME IInv, MakeNode
  PROVE  IInv'
<1> DEFINE n == Instr.n
<1>1. Doing("make") /\ Go(<<>>, iters) /\ nodes' = Gathered(Instr.kind, n)
  BY DEF MakeNode
<1>2. PICK f, m : Stack(tokens, iters, todo, Len(iters), Len(nodes), f, m)
  BY <1>1, Running
<1>3. outcome = "running" /\ todo # <<>> /\ Head(todo).do = "make"
        /\ Placed(tokens, iters) /\ IsSeq(nodes) /\ <<>> \o Tail(todo) = Tail(todo)
  BY <1>1, Running
<1>4. /\ n \in Nat /\ n <= Len(nodes)
      /\ \E f1, m1 \in Nat : Stack(tokens, iters, Tail(todo), Len(iters), Len(nodes) - n + 1, f1, m1)
  BY <1>2, <1>3, HeadMake DEF Instr
<1> HIDE DEF n
<1>5. IsSeq(nodes') /\ Len(nodes') = Len(nodes) - n + 1
  BY <1>1, <1>3, <1>4, GatheredIs
<1>6. \E f1, m1 : Stack(tokens, iters, <<>> \o Tail(todo), Len(iters), Len(nodes'), f1, m1)
  BY <1>3, <1>4, <1>5
<1> QED
  BY <1>1, <1>3, <1>5, <1>6, GoKeeps

LEMMA LeaveTryKeeps ==
  ASSUME IInv, LeaveTry
  PROVE  IInv'
<1>1. Doing("catch") /\ Go(<<>>, iters) /\ nodes' = nodes
  BY DEF LeaveTry
<1>2. PICK f, m : Stack(tokens, iters, todo, Len(iters), Len(nodes), f, m)
  BY <1>1, Running
<1>3. outcome = "running" /\ todo # <<>> /\ Head(todo).do = "catch"
        /\ Placed(tokens, iters) /\ IsSeq(nodes) /\ <<>> \o Tail(todo) = Tail(todo)
  BY <1>1, Running
<1>4. \E f1, m1 \in Nat : Stack(tokens, iters, Tail(todo), Len(iters), Len(nodes), f1, m1)
  BY <1>2, <1>3, HeadCatch
<1>5. \E f1, m1 : Stack(tokens, iters, <<>> \o Tail(todo), Len(iters), Len(nodes'), f1, m1)
  BY <1>1, <1>3, <1>4
<1> QED
  BY <1>1, <1>3, <1>5, GoKeeps

LEMMA SplitAtBraceKeeps ==
  ASSUME IInv, SplitAtBrace
  PROVE  IInv'
<1> DEFINE end == Min({p \in ps.at..(ps.to - 1) :
                         SplitPlace(tokens, ps.at, p) \/ SplitError(tokens, ps.at, p)} \union {ps.to})
           r == Span(ps.at, end)
           x == [at |-> r.from, to |-> r.to]
<1>1. /\ Doing("split")
      /\ \/ end < ps.to /\ SplitError(tokens, ps.at, end) /\ Throw(MovedTo(end))
         \/ /\ ~(end < ps.to /\ SplitError(tokens, ps.at, end))
            /\ Go(<<>>, Append(MovedTo(end), [at |-> ps.at, to |-> end]))
            /\ nodes' = nodes
  BY DEF SplitAtBrace, SplitPlace, SplitError
<1>2. PICK f, m : Stack(tokens, iters, todo, Len(iters), Len(nodes), f, m)
  BY <1>1, Running
<1>3. outcome = "running" /\ todo # <<>> /\ Head(todo).do = "split" /\ Placed(tokens, iters)
        /\ Len(iters) \in Nat \ {0}
  BY <1>1, Running
<1>4. /\ NeedsCatch(Head(todo))
      /\ \E f1, m1 \in Nat : f1 <= Len(iters)
           /\ Stack(tokens, iters, Tail(todo), Len(iters) + 1, Len(nodes), f1, m1)
  BY <1>2, <1>3, HeadSplit
<1>5. /\ ps.at \in Nat /\ ps.to \in Nat /\ 1 <= ps.at /\ ps.at <= ps.to
      /\ LevelOn(tokens, ps.at, ps.to)
  BY <1>3, PsIs
<1>6. /\ end \in ps.at..ps.to
      /\ (end < ps.to /\ SplitError(tokens, ps.at, end)) \/ LevelOn(tokens, ps.at, end)
  BY ONLY <1>5, SplitIsLevel
<1> HIDE DEF end
<1>7. Onward(iters, MovedTo(end)) /\ MovedTo(end)[Len(iters)].at = end
  BY <1>3, <1>6, MovedIs
<1>8. CASE Throw(MovedTo(end))
  BY <1>3, <1>4, <1>7, <1>8, ThrowOnward
<1>9. CASE /\ ~(end < ps.to /\ SplitError(tokens, ps.at, end))
           /\ Go(<<>>, Append(MovedTo(end), [at |-> ps.at, to |-> end]))
           /\ nodes' = nodes
  <2>1. r.from = ps.at /\ r.to = end /\ r \in Ranges /\ x = [at |-> r.from, to |-> r.to]
          /\ x = [at |-> ps.at, to |-> end]
    BY <1>5, <1>6 DEF Span, Ranges
  <2> HIDE DEF r, x
  <2>2. 1 <= r.from /\ r.from <= r.to /\ r.to <= end
    BY <1>5, <1>6, <2>1
  <2>3. Below(tokens, r, MovedTo(end)[Len(MovedTo(end))].at)
    BY <1>6, <1>7, <1>9, <2>1, <2>2 DEF Below, Onward
  <2>4. Go(<<>>, Append(MovedTo(end), x)) /\ nodes' = nodes
    BY <1>9, <2>1
  <2> QED
    BY <1>3, <1>4, <1>7, <2>1, <2>3, <2>4, EnterKeeps
<1> QED
  BY <1>1, <1>8, <1>9

LEMMA ElseBranchKeeps ==
  ASSUME IInv, ElseBranch
  PROVE  IInv'
<1>1. /\ Doing("else") /\ nodes' = nodes
      /\ Go(ElseBody, Consumed) \/ Go(NoElse, iters)
  BY DEF ElseBranch, ElseBody, NoElse
<1>2. PICK f, m : Stack(tokens, iters, todo, Len(iters), Len(nodes), f, m)
  BY <1>1, Running
<1>3. outcome = "running" /\ todo # <<>> /\ Head(todo).do = "else" /\ Placed(tokens, iters)
        /\ IsSeq(nodes) /\ Len(iters) \in Nat \ {0}
  BY <1>1, Running
<1>4. PICK n \in Nat : Len(nodes) = n + 2
        /\ \E f1, m1 : Held(tokens, iters, Tail(todo), Len(iters), n + 1, f1, m1)
  BY <1>2, <1>3, HeadElse
<1>5. PICK f1, m1 : Held(tokens, iters, Tail(todo), Len(iters), n + 1, f1, m1)
  BY <1>4
<1>6. ASSUME NEW its2, Onward(iters, its2)
      PROVE  /\ Held(tokens, its2, ElseBody \o Tail(todo), Len(its2), Len(nodes'), f1, m1)
             /\ Held(tokens, its2, NoElse \o Tail(todo), Len(its2), Len(nodes'), f1, m1)
  <2>1. Held(tokens, its2, Tail(todo), Len(its2), n + 1, f1, m1)
    BY ONLY <1>5, <1>6, HeldOnward
  <2>2. Len(its2) \in Nat \ {0}
    BY <2>1, HeldIs
  <2>3. /\ Held(tokens, its2, ElseBody \o Tail(todo), Len(its2), n + 2, f1, m1)
        /\ Held(tokens, its2, NoElse \o Tail(todo), Len(its2), n + 2, f1, m1)
    BY ONLY <1>4, <2>1, <2>2, ElseBodyIs, NoElseIs
  <2> QED
    BY <1>1, <1>4, <2>3
<1>7. CASE Go(ElseBody, Consumed)
  BY <1>1, <1>3, <1>6, <1>7, ConsumedIs, GoHeld
<1>8. CASE Go(NoElse, iters)
  BY <1>1, <1>3, <1>6, <1>8, Unmoved, GoHeld
<1> QED
  BY <1>1, <1>7, <1>8

LEMMA MoreArgumentsKeeps ==
  ASSUME IInv, MoreArguments
  PROVE  IInv'
<1> DEFINE k == Instr.n
           b1 == <<Expr, MoreArgs(k + 1)>>
           b2 == <<Make("Call", k + 1)>>
<1>1. /\ Doing("arguments")
      /\ \/ (Go(b1, Consumed) \/ Go(b2, Consumed)) /\ nodes' = nodes
         \/ Throw(Consumed)
  BY DEF MoreArguments
<1>2. PICK f, m : Stack(tokens, iters, todo, Len(iters), Len(nodes), f, m)
  BY <1>1, Running
<1>3. outcome = "running" /\ todo # <<>> /\ Head(todo).do = "arguments" /\ Placed(tokens, iters)
        /\ IsSeq(nodes) /\ Len(nodes) \in Nat
  BY <1>1, Running
<1>4. /\ NeedsCatch(Head(todo)) /\ k \in Nat /\ k + 1 <= Len(nodes)
      /\ \E f1, m1 : Held(tokens, iters, Tail(todo), Len(iters), Len(nodes) - k, f1, m1)
  BY <1>2, <1>3, HeadArguments DEF Instr
<1> HIDE DEF k
<1>5. PICK f1, m1 : Held(tokens, iters, Tail(todo), Len(iters), Len(nodes) - k, f1, m1)
  BY <1>4
<1>6. Onward(iters, Consumed)
  BY <1>3, ConsumedIs
<1>7. Held(tokens, Consumed, Tail(todo), Len(Consumed), Len(nodes) - k, f1, m1)
  BY ONLY <1>5, <1>6, HeldOnward
<1>8. Len(Consumed) \in Nat \ {0}
  BY <1>7, HeldIs
<1>9. /\ Held(tokens, Consumed, b1 \o Tail(todo), Len(Consumed), Len(nodes), f1, m1)
      /\ Held(tokens, Consumed, b2 \o Tail(todo), Len(Consumed), Len(nodes), f1, m1)
  BY ONLY <1>3, <1>4, <1>7, <1>8, NextArgumentIs
<1> HIDE DEF b1, b2
<1>10. CASE Go(b1, Consumed) /\ nodes' = nodes
  BY <1>3, <1>6, <1>9, <1>10, GoHeld
<1>11. CASE Go(b2, Consumed) /\ nodes' = nodes
  BY <1>3, <1>6, <1>9, <1>11, GoHeld
<1>12. CASE Throw(Consumed)
  BY <1>3, <1>4, <1>6, <1>12, ThrowOnward
<1> QED
  BY <1>1, <1>10, <1>11, <1>12

LEMMA InitializerKeeps ==
  ASSUME IInv, Initializer
  PROVE  IInv'
<1>1. /\ Doing("initializer")
      /\ \/ (Go(WithValue, Consumed) \/ Go(WithoutValue, Consumed)) /\ nodes' = nodes
         \/ Throw(Consumed)
  BY DEF Initializer, WithValue, WithoutValue
<1>2. PICK f, m : Stack(tokens, iters, todo, Len(iters), Len(nodes), f, m)
  BY <1>1, Running
<1>3. outcome = "running" /\ todo # <<>> /\ Head(todo).do \in Using /\ Placed(tokens, iters)
        /\ IsSeq(nodes)
  BY <1>1, Running DEF Using
<1>4. /\ NeedsCatch(Head(todo))
      /\ \E f1, m1 : Held(tokens, iters, Tail(todo), Len(iters), Len(nodes), f1, m1)
      /\ \E n \in Nat : Len(nodes) = n + 1
  BY <1>2, <1>3, HeadUsing
<1>5. PICK n \in Nat : Len(nodes) = n + 1
  BY <1>4
<1>6. PICK f1, m1 : Held(tokens, iters, Tail(todo), Len(iters), Len(nodes), f1, m1)
  BY <1>4
<1>7. Onward(iters, Consumed)
  BY <1>3, ConsumedIs
<1>8. Held(tokens, Consumed, Tail(todo), Len(Consumed), n + 1, f1, m1)
  BY ONLY <1>5, <1>6, <1>7, HeldOnward
<1>9. Len(Consumed) \in Nat \ {0}
  BY <1>8, HeldIs
<1>10. /\ Held(tokens, Consumed, WithValue \o Tail(todo), Len(Consumed), Len(nodes), f1, m1)
       /\ Held(tokens, Consumed, WithoutValue \o Tail(todo), Len(Consumed), Len(nodes), f1, m1)
  BY ONLY <1>5, <1>8, <1>9, WithValueIs, WithoutValueIs
<1>11. CASE Go(WithValue, Consumed) /\ nodes' = nodes
  BY <1>3, <1>7, <1>10, <1>11, GoHeld
<1>12. CASE Go(WithoutValue, Consumed) /\ nodes' = nodes
  BY <1>3, <1>7, <1>10, <1>12, GoHeld
<1>13. CASE Throw(Consumed)
  BY <1>3, <1>4, <1>7, <1>13, ThrowOnward
<1> QED
  BY <1>1, <1>11, <1>12, <1>13

LEMMA ParameterListKeeps ==
  ASSUME IInv, ParameterList
  PROVE  IInv'
<1>1. /\ Doing("parameter list") /\ nodes' = nodes
      /\ Go(FirstParameter, iters) \/ Go(NoParameters, Consumed)
  BY DEF ParameterList, FirstParameter, NoParameters
<1>2. PICK f, m : Stack(tokens, iters, todo, Len(iters), Len(nodes), f, m)
  BY <1>1, Running
<1>3. outcome = "running" /\ todo # <<>> /\ Head(todo).do = "parameter list"
        /\ Placed(tokens, iters) /\ IsSeq(nodes) /\ Len(nodes) \in Nat
  BY <1>1, Running
<1>4. Head(todo).do \in Producing /\ Head(todo).do # "block"
  BY <1>3 DEF Producing
<1>5. PICK f1, m1 : m1 <= Len(nodes) /\ Held(tokens, iters, Tail(todo), Len(iters), Len(nodes) + 1, f1, m1)
  BY <1>2, <1>3, <1>4, HeadProducing DEF Held
<1>6. ASSUME NEW its2, Onward(iters, its2)
      PROVE  /\ Held(tokens, its2, FirstParameter \o Tail(todo), Len(its2), Len(nodes), f1, m1)
             /\ Held(tokens, its2, NoParameters \o Tail(todo), Len(its2), Len(nodes), f1, m1)
  <2>1. Held(tokens, its2, Tail(todo), Len(its2), Len(nodes) + 1, f1, m1)
    BY ONLY <1>5, <1>6, HeldOnward
  <2>2. Len(its2) \in Nat \ {0} /\ Len(nodes) \in Nat /\ m1 <= Len(nodes)
    BY <1>3, <1>5, <2>1, HeldIs
  <2> QED
    BY ONLY <2>1, <2>2, FirstParameterIs, NoParametersIs
<1>7. CASE Go(FirstParameter, iters)
  BY <1>1, <1>3, <1>6, <1>7, Unmoved, GoHeld
<1>8. CASE Go(NoParameters, Consumed)
  BY <1>1, <1>3, <1>6, <1>8, ConsumedIs, GoHeld
<1> QED
  BY <1>1, <1>7, <1>8

LEMMA MoreParametersKeeps ==
  ASSUME IInv, MoreParameters
  PROVE  IInv'
<1> DEFINE k == Instr.n
           b1 == <<TakeName, MoreParams(k + 1)>>
           b2 == <<Make("Params", k)>>
<1>1. /\ Doing("parameters")
      /\ \/ (Go(b1, Consumed) \/ Go(b2, Consumed)) /\ nodes' = nodes
         \/ Throw(Consumed)
  BY DEF MoreParameters
<1>2. PICK f, m : Stack(tokens, iters, todo, Len(iters), Len(nodes), f, m)
  BY <1>1, Running
<1>3. outcome = "running" /\ todo # <<>> /\ Head(todo).do = "parameters" /\ Placed(tokens, iters)
        /\ IsSeq(nodes) /\ Len(nodes) \in Nat
  BY <1>1, Running
<1>4. /\ NeedsCatch(Head(todo)) /\ k \in Nat /\ k <= Len(nodes)
      /\ \E f1, m1 \in Nat : m1 <= Len(nodes)
           /\ Held(tokens, iters, Tail(todo), Len(iters), Len(nodes) - k + 1, f1, m1)
  BY <1>2, <1>3, HeadParameters DEF Instr
<1> HIDE DEF k
<1>5. PICK f1, m1 \in Nat : m1 <= Len(nodes)
        /\ Held(tokens, iters, Tail(todo), Len(iters), Len(nodes) - k + 1, f1, m1)
  BY <1>4
<1>6. Onward(iters, Consumed)
  BY <1>3, ConsumedIs
<1>7. Held(tokens, Consumed, Tail(todo), Len(Consumed), Len(nodes) - k + 1, f1, m1)
  BY ONLY <1>5, <1>6, HeldOnward
<1>8. Len(Consumed) \in Nat \ {0} /\ m1 <= Len(nodes)
  BY <1>5, <1>7, HeldIs
<1>9. /\ Held(tokens, Consumed, b1 \o Tail(todo), Len(Consumed), Len(nodes), f1, m1)
      /\ Held(tokens, Consumed, b2 \o Tail(todo), Len(Consumed), Len(nodes), f1, m1)
  BY ONLY <1>3, <1>4, <1>7, <1>8, NextParameterIs
<1> HIDE DEF b1, b2
<1>10. CASE Go(b1, Consumed) /\ nodes' = nodes
  BY <1>3, <1>6, <1>9, <1>10, GoHeld
<1>11. CASE Go(b2, Consumed) /\ nodes' = nodes
  BY <1>3, <1>6, <1>9, <1>11, GoHeld
<1>12. CASE Throw(Consumed)
  BY <1>3, <1>4, <1>6, <1>12, ThrowOnward
<1> QED
  BY <1>1, <1>10, <1>11, <1>12

LEMMA ParseStatementKeeps ==
  ASSUME IInv, ParseStatement
  PROVE  IInv'
<1> DEFINE Body(b) == b \in {DeclAssignment, FunctionDef(Peek), Return, ExpressionStatement(Peek)}
<1>1. /\ Doing("statement")
      /\ \/ Throw(iters)
         \/ nodes' = nodes /\ \E b : Body(b) /\ Go(b, iters)
  BY DEF ParseStatement, ExpressionStatement, StatementEndOf
<1>2. PICK f, m : Stack(tokens, iters, todo, Len(iters), Len(nodes), f, m)
  BY <1>1, Running
<1>3. outcome = "running" /\ todo # <<>> /\ Head(todo).do = "statement"
        /\ Placed(tokens, iters) /\ IsSeq(nodes) /\ Len(nodes) \in Nat /\ Len(iters) \in Nat \ {0}
  BY <1>1, Running
<1>4. Head(todo).do \in Producing /\ Head(todo).do # "block"
  BY <1>3 DEF Producing
<1>5. NeedsCatch(Head(todo))
  BY <1>2, <1>3, <1>4, HeadProducing
<1>6. PICK f1, m1 : m1 <= Len(nodes) /\ Held(tokens, iters, Tail(todo), Len(iters), Len(nodes) + 1, f1, m1)
  BY <1>2, <1>3, <1>4, HeadProducing DEF Held
<1>7. Onward(iters, iters)
  BY <1>3, Unmoved
<1>8. CASE Throw(iters)
  BY <1>3, <1>5, <1>7, <1>8, ThrowOnward
<1>9. CASE nodes' = nodes /\ \E b : Body(b) /\ Go(b, iters)
  <2>1. PICK b : Body(b) /\ Go(b, iters)
    BY <1>9
  <2>2. Held(tokens, iters, b \o Tail(todo), Len(iters), Len(nodes), f1, m1)
    <3> HIDE DEF Body
    <3>1. \/ b = DeclAssignment \/ b = FunctionDef(Peek) \/ b = Return
          \/ b = ExpressionStatement(Peek)
      BY <2>1 DEF Body
    <3>2. Len(iters) \in Nat \ {0} /\ Len(nodes) \in Nat
      BY ONLY <1>3
    <3>3. CASE b = DeclAssignment
      BY ONLY <1>6, <3>2, <3>3, DeclAssignmentIs
    <3>4. CASE b = FunctionDef(Peek)
      BY ONLY <1>6, <3>2, <3>4, FunctionDefIs
    <3>5. CASE b = Return
      BY ONLY <1>6, <3>2, <3>5, ReturnIs
    <3>6. CASE b = ExpressionStatement(Peek)
      BY ONLY <1>6, <3>2, <3>6, ExpressionStatementIs
    <3> QED
      BY <3>1, <3>3, <3>4, <3>5, <3>6
  <2> QED
    BY <1>3, <1>7, <1>9, <2>1, <2>2, GoHeld
<1> QED
  BY <1>1, <1>8, <1>9

LEMMA StatementEndKeeps ==
  ASSUME IInv, StatementEnd
  PROVE  IInv'
<1>1. /\ Doing("statement end")
      /\ \/ Throw(iters)
         \/ nodes' = nodes /\ (Go(Assignment, Consumed) \/ Go(PlainStatement, iters) \/ Go(EndedStatement, iters))
  <2>1. <<>> \o <<Make("ExprStmt", 1)>> = PlainStatement
    BY DEF PlainStatement
  <2>2. <<Take({";"})>> \o <<Make("ExprStmt", 1)>> = EndedStatement
    <3> DEFINE x == Take({";"})
               y == Make("ExprStmt", 1)
    <3>1. EndedStatement = <<x, y>>
      BY DEF EndedStatement
    <3> HIDE DEF x, y
    <3>2. <<x, y>> = Append(<<x>>, y) /\ Append(<<x>>, y) = <<x>> \o <<y>>
      OBVIOUS
    <3> QED
      BY <3>1, <3>2 DEF x, y
  <2> QED
    BY <2>1, <2>2 DEF StatementEnd, Assignment
<1>2. PICK f, m : Stack(tokens, iters, todo, Len(iters), Len(nodes), f, m)
  BY <1>1, Running
<1>3. outcome = "running" /\ todo # <<>> /\ Head(todo).do \in Using /\ Placed(tokens, iters)
        /\ IsSeq(nodes)
  BY <1>1, Running DEF Using
<1>4. /\ NeedsCatch(Head(todo))
      /\ \E f1, m1 : Held(tokens, iters, Tail(todo), Len(iters), Len(nodes), f1, m1)
      /\ \E n \in Nat : Len(nodes) = n + 1
  BY <1>2, <1>3, HeadUsing
<1>5. PICK n \in Nat : Len(nodes) = n + 1
  BY <1>4
<1>6. PICK f1, m1 : Held(tokens, iters, Tail(todo), Len(iters), Len(nodes), f1, m1)
  BY <1>4
<1>7. ASSUME NEW its2, Onward(iters, its2)
      PROVE  /\ Held(tokens, its2, Assignment \o Tail(todo), Len(its2), Len(nodes), f1, m1)
             /\ Held(tokens, its2, PlainStatement \o Tail(todo), Len(its2), Len(nodes), f1, m1)
             /\ Held(tokens, its2, EndedStatement \o Tail(todo), Len(its2), Len(nodes), f1, m1)
  <2>1. Held(tokens, its2, Tail(todo), Len(its2), n + 1, f1, m1)
    BY ONLY <1>5, <1>6, <1>7, HeldOnward
  <2>2. Len(its2) \in Nat \ {0}
    BY <2>1, HeldIs
  <2> QED
    BY ONLY <1>5, <2>1, <2>2, AssignmentIs, PlainStatementIs, EndedStatementIs
<1>8. Onward(iters, iters) /\ Onward(iters, Consumed)
  BY <1>3, Unmoved, ConsumedIs
<1>9. CASE nodes' = nodes /\ Go(Assignment, Consumed)
  BY <1>3, <1>7, <1>8, <1>9, GoHeld
<1>10. CASE nodes' = nodes /\ Go(PlainStatement, iters)
  BY <1>3, <1>7, <1>8, <1>10, GoHeld
<1>11. CASE nodes' = nodes /\ Go(EndedStatement, iters)
  BY <1>3, <1>7, <1>8, <1>11, GoHeld
<1>12. CASE Throw(iters)
  BY <1>3, <1>4, <1>8, <1>12, ThrowOnward
<1> QED
  BY <1>1, <1>9, <1>10, <1>11, <1>12

LEMMA ParseToplevelKeeps ==
  ASSUME IInv, ParseToplevel
  PROVE  IInv'
<1> DEFINE x == BlockLoop("toplevel", ps.to - 1, FALSE)
<1>1. /\ Doing("block") /\ Instr.kind = "toplevel"
      /\ \/ Go(<<>>, iters) /\ Push(Node("Block", <<>>))
         \/ Go(<<x>>, iters) /\ nodes' = nodes
  BY DEF ParseToplevel
<1>2. PICK f, m : Stack(tokens, iters, todo, Len(iters), Len(nodes), f, m)
  BY <1>1, Running
<1>3. outcome = "running" /\ todo # <<>> /\ Head(todo).do = "block"
        /\ Placed(tokens, iters) /\ IsSeq(nodes) /\ Len(nodes) \in Nat
        /\ IsSeq(Tail(todo)) /\ <<>> \o Tail(todo) = Tail(todo)
  BY <1>1, Running
<1>4. Head(todo).do \in Producing
  BY <1>3 DEF Producing
<1>5. PICK f1, m1 \in Nat : m1 <= Len(nodes) /\ Stack(tokens, iters, Tail(todo), Len(iters), Len(nodes) + 1, f1, m1)
  BY <1>2, <1>3, <1>4, HeadProducing
<1>6. CASE Go(<<>>, iters) /\ Push(Node("Block", <<>>))
  <2>1. IsSeq(nodes') /\ Len(nodes') = Len(nodes) + 1
    BY <1>3, <1>6, Pushed
  <2>2. Stack(tokens, iters, <<>> \o Tail(todo), Len(iters), Len(nodes'), f1, m1)
    BY <1>3, <1>5, <2>1
  <2> QED
    BY <1>3, <1>6, <2>1, <2>2, GoKeeps
<1>7. CASE Go(<<x>>, iters) /\ nodes' = nodes
  <2>1. x.do = "block loop" /\ x.kind = "toplevel" /\ x.has_result = FALSE /\ x.nodes = Len(nodes)
    BY DEF BlockLoop
  <2> HIDE DEF x
  <2>2. x.nodes = Len(nodes)
    BY ONLY <2>1
  <2>3. Len(nodes) \in Nat
    BY ONLY <1>3
  <2>4. m1 <= Len(nodes)
    BY ONLY <1>5
  <2>5. x.nodes \in Nat /\ x.nodes <= Len(nodes) /\ m1 <= x.nodes
    BY ONLY <2>2, <2>3, <2>4
  <2>6. Stack(tokens, iters, Tail(todo), Len(iters), x.nodes + 1, f1, m1)
    BY <1>5, <2>1
  <2>7. Stack(tokens, iters, Then(x, Tail(todo)), Len(iters), Len(nodes), f1, m1)
    BY ONLY <1>3, <2>1, <2>5, <2>6, PutBlockEnd
  <2>8. Stack(tokens, iters, <<x>> \o Tail(todo), Len(iters), Len(nodes'), f1, m1)
    BY <1>7, <2>7 DEF Then
  <2> QED
    BY <1>3, <1>7, <2>8, GoKeeps
<1> QED
  BY <1>1, <1>6, <1>7

LEMMA ParseBlockKeeps ==
  ASSUME IInv, ParseBlock
  PROVE  IInv'
<1> DEFINE a == ps.at + 1
           end == BlockEnd(a, ps.to)
           start == ResultStart(a, end)
           x == BlockLoop(Instr.kind, start, start # end)
<1>1. Doing("block") /\ Instr.kind # "toplevel"
  BY DEF ParseBlock
<1>2. PICK f, m : Stack(tokens, iters, todo, Len(iters), Len(nodes), f, m)
  BY <1>1, Running
<1>3. outcome = "running" /\ todo # <<>> /\ Head(todo).do = "block"
        /\ Placed(tokens, iters) /\ IsSeq(nodes) /\ Len(nodes) \in Nat
        /\ IsSeq(Tail(todo)) /\ <<>> \o Tail(todo) = Tail(todo)
  BY <1>1, Running
<1>4. Head(todo).do \in Producing /\ Head(todo).kind # "toplevel"
  BY <1>1, <1>3 DEF Producing, Instr
<1>5. NeedsCatch(Head(todo)) /\ HasCatch(Tail(todo))
  BY <1>2, <1>3, <1>4, HeadProducing
<1>6. PICK f1, m1 \in Nat : m1 <= Len(nodes) /\ Stack(tokens, iters, Tail(todo), Len(iters), Len(nodes) + 1, f1, m1)
  BY <1>2, <1>3, <1>4, HeadProducing
<1>7. Onward(iters, Consumed)
  BY <1>3, ConsumedIs
<1>8. Held(tokens, Consumed, Tail(todo), Len(Consumed), Len(nodes) + 1, f1, m1)
  <2>1. Held(tokens, iters, Tail(todo), Len(iters), Len(nodes) + 1, f1, m1)
    BY <1>5, <1>6 DEF Held
  <2> QED
    BY ONLY <1>7, <2>1, HeldOnward
<1>9. \/ Throw(Consumed)
      \/ Go(<<>>, Consumed) /\ Push(Node("Block", <<>>))
      \/ /\ Peek = "{" /\ a # ps.to /\ NoBlockEnd(a, ps.to)
         /\ Crash("block_end has invalid value")
      \/ Go(<<x>>, Consumed) /\ nodes' = nodes
  BY DEF ParseBlock
<1>10. CASE Throw(Consumed)
  BY <1>3, <1>5, <1>7, <1>10, ThrowOnward
<1>11. CASE Go(<<>>, Consumed) /\ Push(Node("Block", <<>>))
  <2>1. IsSeq(nodes') /\ Len(nodes') = Len(nodes) + 1
    BY <1>3, <1>11, Pushed
  <2>2. Held(tokens, Consumed, <<>> \o Tail(todo), Len(Consumed), Len(nodes'), f1, m1)
    BY <1>3, <1>8, <2>1
  <2> QED
    BY <1>3, <1>7, <1>11, <2>1, <2>2, GoHeld
<1>12. CASE /\ Peek = "{" /\ a # ps.to /\ NoBlockEnd(a, ps.to)
            /\ Crash("block_end has invalid value")
  <2>1. ps.at \in Nat /\ ps.to \in Nat /\ 1 <= ps.at /\ ps.at <= ps.to
          /\ LevelOn(tokens, ps.at, ps.to)
    BY <1>3, PsIs
  <2>2. HasMore /\ tokens[ps.at] \in OpeningBrace
    BY <1>12 DEF Peek, OpeningBrace
  <2>3. ps.at < ps.to
    BY <2>2 DEF HasMore
  <2>4. ps.at + 1 < ps.to
    <3>1. ps.at + 1 # ps.to
      BY ONLY <1>12
    <3> QED
      BY ONLY <2>1, <2>3, <3>1
  <2>5. ~BracesMatch
    <3>1. tokens \in Seq(TokenType)
      BY DEF IInv
    <3>2. NoBlockEnd(ps.at + 1, ps.to)
      BY <1>12
    <3> QED
      BY ONLY <2>1, <2>2, <2>4, <3>1, <3>2, BlockHasEnd
  <2>6. "block_end has invalid value" \in Crashes
    BY DEF Crashes
  <2> QED
    BY <1>12, <2>5, <2>6, CrashKeeps
<1>13. CASE Go(<<x>>, Consumed) /\ nodes' = nodes
  <2>1. x.do = "block loop" /\ x.kind # "toplevel" /\ x.nodes = Len(nodes)
    BY <1>1 DEF BlockLoop
  <2> HIDE DEF x
  <2>2. x.nodes = Len(nodes)
    BY ONLY <2>1
  <2>3. Len(nodes) \in Nat
    BY ONLY <1>3
  <2>4. m1 <= Len(nodes)
    BY ONLY <1>6
  <2>5. x.nodes \in Nat /\ x.nodes <= Len(nodes) /\ m1 <= x.nodes
    BY ONLY <2>2, <2>3, <2>4
  <2>6. Stack(tokens, Consumed, Tail(todo), Len(Consumed), x.nodes + 1, f1, m1)
    BY <1>8, <2>1 DEF Held
  <2>7. Stack(tokens, Consumed, Then(x, Tail(todo)), Len(Consumed), Len(nodes), f1, m1)
    BY ONLY <1>3, <1>5, <2>1, <2>5, <2>6, PutBlockEnd
  <2>8. Stack(tokens, Consumed, <<x>> \o Tail(todo), Len(Consumed), Len(nodes'), f1, m1)
    BY <1>13, <2>7 DEF Then
  <2> QED
    BY <1>3, <1>7, <1>13, <2>8, GoKeeps DEF Onward
<1> QED
  BY <1>9, <1>10, <1>11, <1>12, <1>13

LEMMA SkippedIs ==
  ASSUME Placed(tokens, iters)
  PROVE  SkipSemicolons(ps.at) \in ps.at..ps.to
<1> DEFINE a == ps.at
           b == ps.to
           T == {q \in a..(b - 1) : tokens[q] # ";"}
           S == T \union {b}
<1>1. a \in Nat /\ b \in Nat /\ a <= b
  BY PsIs
<1>2. T \subseteq a..(b - 1)
  OBVIOUS
<1>3. SkipSemicolons(ps.at) = Min(S)
  BY DEF SkipSemicolons
<1> HIDE DEF T, a, b
<1>4. S \subseteq a..b
  BY ONLY <1>1, <1>2
<1>5. b \in S
  OBVIOUS
<1> HIDE DEF S
<1>6. S \in SUBSET Int /\ S # {}
  BY ONLY <1>1, <1>4, <1>5
<1>7. \A q \in S : a <= q
  BY ONLY <1>1, <1>4
<1>8. a \in Int
  BY ONLY <1>1
<1>9. Min(S) \in S
  BY ONLY <1>6, <1>7, <1>8, LeastOf
<1> QED
  BY <1>3, <1>4, <1>9 DEF a, b

LEMMA NextStatementKeeps ==
  ASSUME IInv, NextStatement
  PROVE  IInv'
<1> DEFINE at == SkipSemicolons(ps.at)
           x == Instr
           y == Statement(Instr.kind = "toplevel")
           c == EndOfTry(TRUE, at)
<1>1. Doing("block loop") /\ Go(<<y, c, x>>, MovedTo(at)) /\ nodes' = nodes
  BY DEF NextStatement
<1>2. PICK f, m : Stack(tokens, iters, todo, Len(iters), Len(nodes), f, m)
  BY <1>1, Running
<1>3. outcome = "running" /\ todo # <<>> /\ Head(todo).do = "block loop"
        /\ Placed(tokens, iters) /\ IsSeq(nodes) /\ Len(nodes) \in Nat /\ Len(iters) \in Nat
  BY <1>1, Running
<1>4. Head(todo).do \in {"block loop", "make block"}
  BY <1>3
<1>5. /\ x.nodes \in Nat /\ x.nodes <= Len(nodes) /\ x.do = "block loop"
      /\ \E f1, m1 \in Nat : /\ Stack(tokens, iters, Tail(todo), Len(iters), x.nodes + 1, f1, m1)
                             /\ m1 <= x.nodes
      /\ x.kind = "toplevel" => x.has_result = FALSE
      /\ x.kind = "toplevel" \/ HasCatch(Tail(todo))
  BY <1>2, <1>3, <1>4, HeadBlockEnd DEF Instr
<1>6. PICK f1, m1 \in Nat : /\ Stack(tokens, iters, Tail(todo), Len(iters), x.nodes + 1, f1, m1)
                            /\ m1 <= x.nodes
  BY <1>5
<1>7. Onward(iters, MovedTo(at))
  BY <1>3, SkippedIs, MovedIs
<1>8. y.do \in Producing
  BY DEF Statement, Producing
<1>9. c.do = "catch" /\ c.iters = Len(iters) /\ c.nodes = Len(nodes)
  BY DEF EndOfTry
<1> DEFINE its2 == MovedTo(at)
<1>10. Go(<<y, c, x>>, its2) /\ Onward(iters, its2)
  BY <1>1, <1>7
<1> HIDE DEF x, y, c, at, its2
<1>11. Stack(tokens, its2, Tail(todo), Len(its2), x.nodes + 1, f1, m1)
  <2>1. f1 <= Len(iters)
    BY <1>6, StackIs
  <2>2. Stack(tokens, its2, Tail(todo), Len(iters), x.nodes + 1, f1, m1)
    BY ONLY <1>3, <1>6, <1>10, <2>1, StackOnward
  <2> QED
    BY <1>10, <2>2 DEF Onward
<1>12. Held(tokens, its2, <<y, c, x>> \o Tail(todo), Len(its2), c.nodes, Len(its2), c.nodes)
  <2>1. c.iters = Len(its2) /\ c.nodes \in Nat /\ x.nodes <= c.nodes /\ x.nodes \in Nat
    BY <1>3, <1>5, <1>9, <1>10 DEF Onward
  <2>2. m1 <= x.nodes /\ x.do = "block loop" /\ c.do = "catch"
        /\ (x.kind = "toplevel" => x.has_result = FALSE)
        /\ (x.kind = "toplevel" \/ HasCatch(Tail(todo)))
    BY ONLY <1>5, <1>6, <1>9
  <2> QED
    BY ONLY <1>8, <1>11, <2>1, <2>2, NextStatementIs
<1>13. Held(tokens, its2, <<y, c, x>> \o Tail(todo), Len(its2), Len(nodes'), Len(its2), c.nodes)
  BY <1>1, <1>9, <1>12
<1> QED
  BY <1>1, <1>3, <1>13, <1>10, GoHeld

LEMMA EndOfStatementsKeeps ==
  ASSUME IInv, EndOfStatements
  PROVE  IInv'
<1> DEFINE at == SkipSemicolons(ps.at)
           x == Instr
           c == EndOfTry(FALSE, at)
           result == /\ Instr.has_result /\ Instr.kind # "loop" /\ InReach(at)
                     /\ at = Instr.result_start
           its2 == MovedTo(at)
<1>1. /\ Doing("block loop") /\ todo' = Closing(at) \o Tail(todo) /\ iters' = its2
      /\ errors' = (IF ps.at < Instr.result_start THEN OneMore(errors) ELSE errors)
      /\ tokens' = tokens /\ nodes' = nodes /\ stalled' = stalled /\ outcome' = outcome
  BY DEF EndOfStatements
<1>2. PICK f, m : Stack(tokens, iters, todo, Len(iters), Len(nodes), f, m)
  BY <1>1, Running
<1>3. outcome = "running" /\ todo # <<>> /\ Head(todo).do = "block loop"
        /\ Placed(tokens, iters) /\ IsSeq(nodes) /\ Len(nodes) \in Nat /\ Len(iters) \in Nat
  BY <1>1, Running
<1>4. Head(todo).do \in {"block loop", "make block"}
  BY <1>3
<1>5. /\ x.nodes \in Nat /\ x.nodes <= Len(nodes)
      /\ \E f1, m1 \in Nat : /\ Stack(tokens, iters, Tail(todo), Len(iters), x.nodes + 1, f1, m1)
                             /\ m1 <= x.nodes
      /\ x.kind = "toplevel" => x.has_result = FALSE
      /\ x.kind = "toplevel" \/ HasCatch(Tail(todo))
  BY <1>2, <1>3, <1>4, HeadBlockEnd DEF Instr
<1>6. PICK f1, m1 \in Nat : /\ Stack(tokens, iters, Tail(todo), Len(iters), x.nodes + 1, f1, m1)
                            /\ m1 <= x.nodes
  BY <1>5
<1>7. Onward(iters, its2)
  BY <1>3, SkippedIs, MovedIs
<1>8. c.do = "catch" /\ c.iters = Len(iters) /\ c.nodes = Len(nodes)
  BY DEF EndOfTry
<1>9. result \in BOOLEAN /\ (result => x.kind # "toplevel")
  BY <1>5
<1>10. Closing(at) = Ending(x, c, result)
  BY DEF Closing, Ending
<1>11. errors' \in 0..MaxErrors
  BY <1>1, OneMoreIs DEF IInv
<1> HIDE DEF x, c, at, its2, result
<1>12. Stack(tokens, its2, Tail(todo), Len(its2), x.nodes + 1, f1, m1)
  <2>1. f1 <= Len(iters)
    BY <1>6, StackIs
  <2>2. Stack(tokens, its2, Tail(todo), Len(iters), x.nodes + 1, f1, m1)
    BY ONLY <1>3, <1>6, <1>7, <2>1, StackOnward
  <2> QED
    BY <1>7, <2>2 DEF Onward
<1>13. \E f2, m2 : Stack(tokens, its2, Ending(x, c, result) \o Tail(todo), Len(its2), Len(nodes), f2, m2)
  <2>1. c.iters = Len(its2)
    BY <1>7, <1>8 DEF Onward
  <2>2. m1 <= x.nodes /\ x.nodes \in Nat /\ x.nodes <= Len(nodes) /\ Len(nodes) \in Nat
        /\ (x.kind = "toplevel" \/ HasCatch(Tail(todo)))
        /\ c.do = "catch" /\ c.nodes = Len(nodes)
    BY ONLY <1>3, <1>5, <1>6, <1>8
  <2> QED
    BY ONLY <1>9, <1>12, <2>1, <2>2, ClosingIs
<1>14. \E f2, m2 : Stack(tokens', iters', todo', Len(iters'), Len(nodes'), f2, m2)
  BY <1>1, <1>10, <1>13
<1>15. tokens' \in Seq(TokenType) /\ stalled' \in BOOLEAN /\ IsSeq(nodes') /\ Placed(tokens', iters')
         /\ outcome' = "running"
  BY <1>1, <1>3, <1>7 DEF IInv, Onward
<1> QED
  BY ONLY <1>11, <1>14, <1>15 DEF IInv, BlockEndIsFound

LEMMA MakeBlockKeeps ==
  ASSUME IInv, MakeBlock
  PROVE  IInv'
<1> DEFINE n == Len(nodes) - Instr.nodes
<1>1. Doing("make block") /\ Go(<<>>, iters) /\ nodes' = Gathered("Block", n)
  BY DEF MakeBlock
<1>2. PICK f, m : Stack(tokens, iters, todo, Len(iters), Len(nodes), f, m)
  BY <1>1, Running
<1>3. outcome = "running" /\ todo # <<>> /\ Head(todo).do \in {"block loop", "make block"}
        /\ Placed(tokens, iters) /\ IsSeq(nodes) /\ Len(nodes) \in Nat
        /\ <<>> \o Tail(todo) = Tail(todo)
  BY <1>1, Running
<1>4. /\ Instr.nodes \in Nat /\ Instr.nodes <= Len(nodes)
      /\ \E f1, m1 \in Nat : Stack(tokens, iters, Tail(todo), Len(iters), Instr.nodes + 1, f1, m1)
  BY <1>2, <1>3, HeadBlockEnd DEF Instr
<1>5. n \in Nat /\ n <= Len(nodes) /\ Len(nodes) - n + 1 = Instr.nodes + 1
  <2> DEFINE z == Instr.nodes
             l == Len(nodes)
  <2>1. l \in Nat
    BY ONLY <1>3
  <2>2. z \in Nat /\ z <= l
    BY ONLY <1>4
  <2>3. n = l - z
    OBVIOUS
  <2> HIDE DEF z, l, n
  <2>4. n \in Nat /\ n <= l /\ l - n + 1 = z + 1
    BY ONLY <2>1, <2>2, <2>3
  <2> QED
    BY <2>4 DEF z, l
<1> HIDE DEF n
<1>6. IsSeq(nodes') /\ Len(nodes') = Instr.nodes + 1
  BY <1>1, <1>3, <1>5, GatheredIs
<1>7. \E f1, m1 : Stack(tokens, iters, <<>> \o Tail(todo), Len(iters), Len(nodes'), f1, m1)
  BY <1>3, <1>4, <1>6
<1> QED
  BY <1>1, <1>3, <1>6, <1>7, GoKeeps


LEMMA ParseExpressionKeeps ==
  ASSUME IInv, ParseExpression
  PROVE  IInv'
<1> DEFINE end    == ScanEnd(tokens, ps.at, ps.to)
           ranges == OperandRanges(tokens, ps.at, end)
           shape  == ScanShape(tokens, ps.at, end)
           r      == ranges[1]
           throws == ScanThrows(tokens, ps.at, ps.to, end)
           its2   == MovedTo(end)
           inner  == Span(r.from + 1, r.to - 1)
           b1     == InRange(inner, <<Expr>>)
           b2     == <<Operands(ranges), Fuse(shape)>>
<1>1. /\ Doing("expression")
      /\ \/ throws /\ Throw(its2)
         \/ ~throws /\ WrappedInParens(tokens, ps.at, ps.to, end) /\ Go(b1, its2) /\ nodes' = nodes
         \/ ~throws /\ Go(b2, its2) /\ nodes' = nodes
         \/ Crash("unreachable: paren")
         \/ Go(<<>>, its2) /\ Push(Node(tokens[r.from], <<>>))
         \/ /\ ~throws /\ tokens[r.from] \in WithBlock \union Name
            /\ Go(Operand(r), its2) /\ nodes' = nodes
         \/ Throw(its2)
  BY DEF ParseExpression
<1>2. PICK f, m : Stack(tokens, iters, todo, Len(iters), Len(nodes), f, m)
  BY <1>1, Running
<1>3. outcome = "running" /\ todo # <<>> /\ Head(todo).do = "expression"
        /\ Placed(tokens, iters) /\ IsSeq(nodes) /\ Len(nodes) \in Nat
        /\ <<>> \o Tail(todo) = Tail(todo)
  BY <1>1, Running
<1>4. Head(todo).do \in Producing /\ Head(todo).do # "block"
  BY <1>3 DEF Producing
<1>5. NeedsCatch(Head(todo)) /\ HasCatch(Tail(todo))
  BY <1>2, <1>3, <1>4, HeadProducing
<1>6. PICK f1, m1 \in Nat : m1 <= Len(nodes) /\ Stack(tokens, iters, Tail(todo), Len(iters), Len(nodes) + 1, f1, m1)
  BY <1>2, <1>3, <1>4, HeadProducing
<1>7. /\ ps.at \in Nat /\ ps.to \in Nat /\ 1 <= ps.at /\ ps.at <= ps.to
  BY <1>3, PsIs
<1>8. end \in ps.at..ps.to /\ end \in Nat /\ ps.at <= end
  BY ONLY <1>7, ScanNests
<1>9. ~throws => /\ ranges \in Seq(Ranges) /\ ranges # <<>>
                 /\ \A k \in 1..Len(ranges) : Below(tokens, ranges[k], end)
  BY ONLY <1>7, OperandsBelow
<1>10. Xs(shape) = Len(ranges)
  BY ONLY <1>7, <1>8, ShapeCounts
<1>11. ~throws /\ WrappedInParens(tokens, ps.at, ps.to, end) => Below(tokens, inner, end)
  BY ONLY <1>7, StrippedBelow
<1> HIDE DEF end, ranges, shape, throws
<1>12. Onward(iters, its2) /\ its2[Len(iters)].at = end
  BY <1>3, <1>8, MovedIs
<1> HIDE DEF its2, inner
<1>13. its2[Len(its2)].at = end
  BY <1>12 DEF Onward
<1>14. Held(tokens, its2, Tail(todo), Len(its2), Len(nodes) + 1, f1, m1)
  <2>1. Held(tokens, iters, Tail(todo), Len(iters), Len(nodes) + 1, f1, m1)
    BY <1>5, <1>6 DEF Held
  <2> QED
    BY ONLY <1>12, <2>1, HeldOnward
<1>15. Len(its2) \in Nat \ {0} /\ m1 <= Len(nodes) /\ Len(nodes) \in Nat
  BY <1>3, <1>6, <1>14, HeldIs
<1>16. CASE Throw(its2)
  BY <1>3, <1>5, <1>12, <1>16, ThrowOnward
<1>17. CASE ~throws /\ WrappedInParens(tokens, ps.at, ps.to, end) /\ Go(b1, its2) /\ nodes' = nodes
  <2> DEFINE e == Expr
  <2>1. e.do \in Producing
    BY DEF Expr, Parse, Producing
  <2>2. Below(tokens, inner, its2[Len(its2)].at)
    BY <1>11, <1>13, <1>17
  <2> HIDE DEF e
  <2>3. Held(tokens, its2, InRange(inner, <<e>>) \o Tail(todo), Len(its2), Len(nodes), Len(its2), m1)
    BY ONLY <1>14, <1>15, <2>1, <2>2, OneInRange
  <2>4. Held(tokens, its2, b1 \o Tail(todo), Len(its2), Len(nodes'), Len(its2), m1)
    BY <1>17, <2>3 DEF e
  <2> QED
    BY <1>3, <1>12, <1>17, <2>4, GoHeld
<1>18. CASE ~throws /\ Go(b2, its2) /\ nodes' = nodes
  <2>1. ranges \in Seq(Ranges) /\ \A k \in 1..Len(ranges) : Below(tokens, ranges[k], its2[Len(its2)].at)
    BY <1>9, <1>13, <1>18
  <2>2. Held(tokens, its2, b2 \o Tail(todo), Len(its2), Len(nodes), Len(its2), m1)
    BY ONLY <1>10, <1>14, <1>15, <2>1, OperandsAre
  <2>3. Held(tokens, its2, b2 \o Tail(todo), Len(its2), Len(nodes'), Len(its2), m1)
    BY <1>18, <2>2
  <2> QED
    BY <1>3, <1>12, <1>18, <2>3, GoHeld
<1>19. CASE Crash("unreachable: paren")
  BY <1>19, CrashKeeps DEF Crashes
<1>20. CASE Go(<<>>, its2) /\ Push(Node(tokens[r.from], <<>>))
  <2>1. IsSeq(nodes') /\ Len(nodes') = Len(nodes) + 1
    BY <1>3, <1>20, Pushed
  <2>2. Held(tokens, its2, <<>> \o Tail(todo), Len(its2), Len(nodes'), f1, m1)
    BY <1>3, <1>14, <2>1
  <2> QED
    BY <1>3, <1>12, <1>20, <2>1, <2>2, GoHeld
<1>21. CASE /\ ~throws /\ tokens[r.from] \in WithBlock \union Name
            /\ Go(Operand(r), its2) /\ nodes' = nodes
  <2>1. 1 \in 1..Len(ranges)
    <3>1. Len(ranges) \in Nat /\ Len(ranges) # 0
      BY <1>9, <1>21, EmptySeq, LenProperties
    <3> QED
      BY ONLY <3>1
  <2>2. Below(tokens, r, its2[Len(its2)].at)
    BY <1>9, <1>13, <1>21, <2>1
  <2>3. Held(tokens, its2, Operand(r) \o Tail(todo), Len(its2), Len(nodes), Len(its2), m1)
    BY <1>14, <1>15, <1>21, <2>2, OperandIs
  <2>4. Held(tokens, its2, Operand(r) \o Tail(todo), Len(its2), Len(nodes'), Len(its2), m1)
    BY <1>21, <2>3
  <2> QED
    BY <1>3, <1>12, <1>21, <2>4, GoHeld
<1> QED
  BY <1>1, <1>16, <1>17, <1>18, <1>19, <1>20, <1>21

LEMMA NextOperandKeeps ==
  ASSUME IInv, NextOperand
  PROVE  IInv'
<1> DEFINE left == Instr.ranges
           body == InRange(Head(left), <<Expr>>) \o <<Operands(Tail(left))>>
<1>1. /\ Doing("operands") /\ nodes' = nodes
      /\ \/ left = <<>> /\ Go(<<>>, iters)
         \/ left # <<>> /\ Go(body, iters)
  BY DEF NextOperand
<1>2. PICK f, m : Stack(tokens, iters, todo, Len(iters), Len(nodes), f, m)
  BY <1>1, Running
<1>3. outcome = "running" /\ todo # <<>> /\ Head(todo).do = "operands"
        /\ Placed(tokens, iters) /\ IsSeq(nodes) /\ Len(nodes) \in Nat /\ Len(iters) \in Nat \ {0}
        /\ <<>> \o Tail(todo) = Tail(todo)
  BY <1>1, Running
<1>4. /\ left \in Seq(Ranges) /\ \A k \in 1..Len(left) : Below(tokens, left[k], iters[Len(iters)].at)
      /\ \E f1, m1 \in Nat : m1 <= Len(nodes)
           /\ Held(tokens, iters, Tail(todo), Len(iters), Len(nodes) + Len(left), f1, m1)
  BY <1>2, <1>3, HeadOperands DEF Instr
<1> HIDE DEF left
<1>5. PICK f1, m1 \in Nat : m1 <= Len(nodes)
           /\ Held(tokens, iters, Tail(todo), Len(iters), Len(nodes) + Len(left), f1, m1)
  BY <1>4
<1>6. Onward(iters, iters) /\ IsSeq(nodes')
  BY <1>1, <1>3, Unmoved
<1>7. CASE left = <<>> /\ Go(<<>>, iters)
  <2>1. Len(nodes) + Len(left) = Len(nodes)
    <3>1. Len(left) = 0
      BY ONLY <1>7, EmptySeq
    <3>2. Len(nodes) \in Nat
      BY ONLY <1>3
    <3> QED
      BY ONLY <3>1, <3>2
  <2>2. Held(tokens, iters, <<>> \o Tail(todo), Len(iters), Len(nodes'), f1, m1)
    BY <1>1, <1>3, <1>5, <2>1
  <2> QED
    BY <1>3, <1>6, <1>7, <2>2, GoHeld
<1>8. CASE left # <<>> /\ Go(body, iters)
  <2>1. Held(tokens, iters, body \o Tail(todo), Len(iters), Len(nodes), Len(iters), m1)
    BY <1>3, <1>4, <1>5, <1>8, NextOperandIs
  <2>2. Held(tokens, iters, body \o Tail(todo), Len(iters), Len(nodes'), Len(iters), m1)
    BY <1>1, <2>1
  <2> QED
    BY <1>3, <1>6, <1>8, <2>2, GoHeld
<1> QED
  BY <1>1, <1>7, <1>8

LEMMA FuseOperandsKeeps ==
  ASSUME IInv, FuseOperands
  PROVE  IInv'
<1> DEFINE shape == Instr.shape
           upto(k) == Cardinality({j \in 1..k : shape[j] = "x"})
           n == Xs(shape)
           fused == Fused([k \in 1..Len(shape) |->
                             IF shape[k] = "x" THEN nodes[Len(nodes) - n + upto(k)]
                                               ELSE Node(shape[k], <<>>)])
           front == SubSeq(nodes, 1, Len(nodes) - n)
           y == fused.tree
<1>1. /\ Doing("fuse")
      /\ \/ Go(<<>>, iters) /\ nodes' = Append(front, y)
         \/ Throw(iters)
         \/ Crash("operator fusion")
  BY DEF FuseOperands, Xs
<1> HIDE DEF fused, y
<1>2. PICK f, m : Stack(tokens, iters, todo, Len(iters), Len(nodes), f, m)
  BY <1>1, Running
<1>3. outcome = "running" /\ todo # <<>> /\ Head(todo).do = "fuse"
        /\ Placed(tokens, iters) /\ IsSeq(nodes) /\ Len(nodes) \in Nat
        /\ IsSeq(Tail(todo)) /\ <<>> \o Tail(todo) = Tail(todo)
  BY <1>1, Running
<1>4. /\ NeedsCatch(Head(todo)) /\ n \in Nat /\ n <= Len(nodes)
      /\ \E f1, m1 \in Nat : m1 <= Len(nodes)
           /\ Held(tokens, iters, Tail(todo), Len(iters), Len(nodes) - n + 1, f1, m1)
  BY <1>2, <1>3, HeadFuse DEF Instr
<1>5. PICK f1, m1 \in Nat : m1 <= Len(nodes)
           /\ Held(tokens, iters, Tail(todo), Len(iters), Len(nodes) - n + 1, f1, m1)
  BY <1>4
<1>6. Onward(iters, iters)
  BY <1>3, Unmoved
<1>7. Len(Append(front, y)) = Len(nodes) - n + 1 /\ IsSeq(Append(front, y))
  <2> DEFINE q == Len(nodes) - n
  <2>1. Len(nodes) \in Nat /\ n \in Nat /\ n <= Len(nodes)
    BY ONLY <1>3, <1>4
  <2> HIDE DEF n
  <2>2. q \in Nat /\ 1 \in Nat /\ 1 <= 1 /\ 1 <= q + 1 /\ q <= Len(nodes) /\ q - 1 + 1 = q
    BY ONLY <2>1
  <2>3. front = SubSeq(nodes, 1, q)
    OBVIOUS
  <2> HIDE DEF q, front
  <2>4. IsSeq(front) /\ Len(front) = q
    BY ONLY <1>3, <2>2, <2>3, SubSeqIs
  <2>5. IsSeq(Append(front, y)) /\ Len(Append(front, y)) = q + 1
    BY ONLY <2>4, AppendIs
  <2> QED
    BY <2>5 DEF q
<1> HIDE DEF n, front
<1>8. CASE Go(<<>>, iters) /\ nodes' = Append(front, y)
  <2>1. IsSeq(nodes') /\ Len(nodes') = Len(nodes) - n + 1
    BY <1>7, <1>8
  <2>2. Held(tokens, iters, <<>> \o Tail(todo), Len(iters), Len(nodes'), f1, m1)
    BY <1>3, <1>5, <2>1
  <2> QED
    BY <1>3, <1>6, <1>8, <2>1, <2>2, GoHeld
<1>9. CASE Throw(iters)
  BY <1>3, <1>4, <1>6, <1>9, ThrowOnward
<1>10. CASE Crash("operator fusion")
  BY <1>10, CrashKeeps DEF Crashes
<1> QED
  BY <1>1, <1>8, <1>9, <1>10

LEMMA FinishKeeps ==
  ASSUME IInv, Finish
  PROVE  IInv'
<1>1. /\ outcome = "running" /\ todo = <<>> /\ outcome' = "done"
      /\ UNCHANGED <<tokens, iters, todo, nodes, errors, stalled>>
  BY DEF Finish
<1>2. PICK f, m : Stack(tokens, iters, todo, Len(iters), Len(nodes), f, m)
  BY <1>1 DEF IInv
<1>3. PICK h, g : Heights(tokens, iters, todo, h, g) /\ h[1] = Len(iters) /\ g[1] = Len(nodes)
  BY <1>2 DEF Stack
<1>4. Len(todo) = 0
  BY <1>1
<1>5. g[Len(todo) + 1] = 1
  BY <1>3 DEF Heights
<1>6. Len(todo) + 1 = 1
  BY ONLY <1>4
<1>7. Len(nodes) = 1
  BY <1>3, <1>5, <1>6
<1>8. outcome' # "running" /\ outcome' # "block_end has invalid value"
  BY <1>1
<1> QED
  BY <1>1, <1>7, <1>8 DEF IInv, BlockEndIsFound

LEMMA ReturnedKeeps ==
  ASSUME IInv, UNCHANGED vars
  PROVE  IInv'
<1>1. /\ tokens' = tokens /\ iters' = iters /\ todo' = todo /\ nodes' = nodes
      /\ errors' = errors /\ stalled' = stalled /\ outcome' = outcome
  BY DEF vars
<1>2. BracesMatch' <=> BracesMatch
  BY <1>1 DEF BracesMatch, Count
<1> QED
  BY <1>1, <1>2 DEF IInv, BlockEndIsFound

LEMMA StepInv ==
  ASSUME IInv, [Next]_vars
  PROVE  IInv'
<1>1. CASE TakeToken
  BY <1>1, TakeTokenKeeps
<1>2. CASE SeeToken
  BY <1>2, SeeTokenKeeps
<1>3. CASE TakeIdentifier
  BY <1>3, TakeIdentifierKeeps
<1>4. CASE EnterRange
  BY <1>4, EnterRangeKeeps
<1>5. CASE LeaveRange
  BY <1>5, LeaveRangeKeeps
<1>6. CASE SplitAtBrace
  BY <1>6, SplitAtBraceKeeps
<1>7. CASE MakeNode
  BY <1>7, MakeNodeKeeps
<1>8. CASE LeaveTry
  BY <1>8, LeaveTryKeeps
<1>9. CASE ElseBranch
  BY <1>9, ElseBranchKeeps
<1>10. CASE MoreArguments
  BY <1>10, MoreArgumentsKeeps
<1>11. CASE Initializer
  BY <1>11, InitializerKeeps
<1>12. CASE ParameterList
  BY <1>12, ParameterListKeeps
<1>13. CASE MoreParameters
  BY <1>13, MoreParametersKeeps
<1>14. CASE ParseStatement
  BY <1>14, ParseStatementKeeps
<1>15. CASE StatementEnd
  BY <1>15, StatementEndKeeps
<1>16. CASE ParseToplevel
  BY <1>16, ParseToplevelKeeps
<1>17. CASE ParseBlock
  BY <1>17, ParseBlockKeeps
<1>18. CASE NextStatement
  BY <1>18, NextStatementKeeps
<1>19. CASE EndOfStatements
  BY <1>19, EndOfStatementsKeeps
<1>20. CASE MakeBlock
  BY <1>20, MakeBlockKeeps
<1>21. CASE ParseExpression
  BY <1>21, ParseExpressionKeeps
<1>22. CASE NextOperand
  BY <1>22, NextOperandKeeps
<1>23. CASE FuseOperands
  BY <1>23, FuseOperandsKeeps
<1>24. CASE Finish
  BY <1>24, FinishKeeps
<1>25. CASE Returned \/ UNCHANGED vars
  BY <1>25, ReturnedKeeps DEF Returned
<1> QED
  BY <1>1, <1>2, <1>3, <1>4, <1>5, <1>6, <1>7, <1>8, <1>9, <1>10, <1>11, <1>12, <1>13,
     <1>14, <1>15, <1>16, <1>17, <1>18, <1>19, <1>20, <1>21, <1>22, <1>23, <1>24, <1>25
     DEF Next

LEMMA InvIsEnough ==
  ASSUME IInv
  PROVE  TypeOK /\ IteratorsNested /\ EveryErrorIsCaught /\ BlockEndIsFound
<1>1. TypeOK
  <2>1. iters \in Seq([at : Nat, to : Nat]) /\ iters # <<>>
    BY DEF IInv, Placed, States
  <2> QED
    BY <2>1 DEF IInv, TypeOK
<1>2. IteratorsNested
  BY DEF IInv, Placed, IteratorsNested
<1>3. EveryErrorIsCaught
  BY DEF IInv, EveryErrorIsCaught, Crashes
<1> QED
  BY <1>1, <1>2, <1>3 DEF IInv

LEMMA Always == Spec => []IInv
<1>1. Init => IInv
  BY InitInv
<1>2. IInv /\ [Next]_vars => IInv'
  BY StepInv
<1> QED
  BY <1>1, <1>2, PTL DEF Spec

-----------------------------------------------------------------------------
(* The variables of the parser keep their types for every file, and when   *)
(* it returns, exactly the node of the whole file is left: parseBlock and  *)
(* all it calls hand each of their nodes on (parser.cpp:704-845).          *)
THEOREM ParserTypeOK == Spec => []TypeOK
<1>1. IInv => TypeOK
  BY InvIsEnough
<1> QED
  BY <1>1, Always, PTL

(* For every sequence of tokens, however its braces lie and behind any     *)
(* number of errors: no ParseState runs past the tokens or past its own    *)
(* limit, and a copy that was made for a part of an expression stays in    *)
(* front of what its original has still to read, also when an error drops  *)
(* some of them (parser.cpp:229-260, 437-455, 704-845).                    *)
THEOREM ParserIteratorsNest == Spec => []IteratorsNested
<1>1. IInv => IteratorsNested
  BY InvIsEnough
<1> QED
  BY <1>1, Always, PTL

(* Whatever the tokens are, wherever an UnexpectedTokenError is thrown the *)
(* catch of a statement or of a block result is active (parser.cpp:806,    *)
(* 824), so that the parser never leaves the program by one.               *)
THEOREM ParserCatchesEveryError == Spec => []EveryErrorIsCaught
<1>1. IInv => EveryErrorIsCaught
  BY InvIsEnough
<1> QED
  BY <1>1, Always, PTL

(* A file whose braces match never raises the internal error that the end  *)
(* of a block was not found (parser.cpp:750): in every ParseState a block  *)
(* is parsed from, ranges of operands and states behind an error among     *)
(* them, the braces of what is left never close more than they opened.     *)
THEOREM ParserFindsBlockEnds == Spec => []BlockEndIsFound
<1>1. IInv => BlockEndIsFound
  BY InvIsEnough
<1> QED
  BY <1>1, Always, PTL

=============================================================================
