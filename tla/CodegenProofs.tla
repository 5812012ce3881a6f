---------------------------- MODULE CodegenProofs ---------------------------
(***************************************************************************)
(* What the code generator keeps for every program: its stacks stay in     *)
(* step with the recursion, ctx->state is alive whenever it is used, a     *)
(* name means what lexical scoping says, and the basic blocks of what is   *)
(* generated without errors end as they should once they are cleaned.      *)
(*                                                                         *)
(* The invariant behind it, IInv, says of the control stack `todo` that    *)
(* there are heights h and g for each instruction, the frames and the      *)
(* values that are there when it is reached, which every instruction       *)
(* changes as it should (Heights), and that nothing in front of a catch    *)
(* takes away what the catch goes back to.  Of the frames it says that     *)
(* each binds the names it declares and takes the others from the one      *)
(* before it (Scoped).                                                     *)
(***************************************************************************)
EXTENDS Codegen, FunctionTheorems, SequenceTheorems, FiniteSetTheorems, TLAPS

-----------------------------------------------------------------------------
(* Induction over the natural numbers, for a set of them.                  *)
LEMMA Induction ==
  ASSUME NEW S, 0 \in S, \A n \in Nat : n \in S => n + 1 \in S
  PROVE  Nat \subseteq S
<1> SUFFICES ASSUME NEW m \in Nat, m \notin S
             PROVE  FALSE
  OBVIOUS
<1> DEFINE U == (0..m) \ S
           f == [x \in U |-> x - 1]
<1>1. IsFiniteSet(U) /\ m \in U
  <2>1. IsFiniteSet(0..m) /\ U \subseteq 0..m /\ m \in 0..m
    BY FS_Interval
  <2> QED
    BY <2>1, FS_Subset
<1>2. ASSUME NEW x \in U
      PROVE  x - 1 \in U \ {m} /\ x \in Nat
  <2>1. x \in 0..m /\ x # 0
    OBVIOUS
  <2>2. x - 1 \in Nat /\ x - 1 \in 0..m /\ x - 1 # m
    BY <2>1
  <2>3. x - 1 \notin S
    BY <2>1, <2>2
  <2> QED
    BY <2>1, <2>2, <2>3
<1>3. f \in [U -> U \ {m}]
  BY <1>2
<1>4. \A x, y \in U : f[x] = f[y] => x = y
  BY <1>2
<1> HIDE DEF U, f
<1>5. f \in Injection(U, U \ {m})
  BY <1>3, <1>4 DEF Injection, IsInjective
<1>6. Cardinality(U) <= Cardinality(U \ {m})
  BY <1>1, <1>5, FS_RemoveElement, FS_Injection
<1>7. Cardinality(U) \in Nat /\ Cardinality(U \ {m}) = Cardinality(U) - 1
  BY <1>1, FS_CardinalityType, FS_RemoveElement
<1> QED
  BY <1>6, <1>7

LEMMA MinIs ==
  ASSUME NEW S \in SUBSET Int, NEW m \in S, \A x \in S : m <= x
  PROVE  Min(S) = m
<1>1. ASSUME NEW y \in S, \A x \in S : y <= x
      PROVE  y = m
  <2>1. y \in Int /\ m \in Int /\ y <= m /\ m <= y
    BY <1>1
  <2> QED
    BY <2>1
<1> QED
  BY <1>1 DEF Min

LEMMA MaxIs ==
  ASSUME NEW S \in SUBSET Int, NEW m \in S, \A x \in S : x <= m
  PROVE  Max(S) = m
<1>1. ASSUME NEW y \in S, \A x \in S : y >= x
      PROVE  y = m
  <2>1. y \in Int /\ m \in Int /\ y >= m /\ m >= y
    BY <1>1
  <2> QED
    BY <2>1
<1>2. \A x \in S : m >= x
  OBVIOUS
<1> QED
  BY <1>1, <1>2 DEF Max

(* A set of integers that is bounded below has a least member.             *)
LEMMA LeastOf ==
  ASSUME NEW S \in SUBSET Int, S # {}, NEW a \in Int, \A x \in S : a <= x
  PROVE  Min(S) \in S /\ \A x \in S : Min(S) <= x
<1>1. \E m \in S : \A x \in S : m <= x
  <2> SUFFICES ASSUME \A m \in S : \E x \in S : x < m
               PROVE  FALSE
    OBVIOUS
  <2> DEFINE Z == {n \in Nat : \A x \in S : a + n <= x}
  <2>1. 0 \in Z
    OBVIOUS
  <2>2. ASSUME NEW n \in Nat, n \in Z
        PROVE  n + 1 \in Z
    <3>1. a + n \notin S
      BY <2>2
    <3>2. ASSUME NEW x \in S
          PROVE  a + (n + 1) <= x
      <4>1. x \in Int /\ a + n <= x /\ x # a + n
        BY <2>2, <3>1
      <4> QED
        BY <4>1
    <3> QED
      BY <3>2
  <2> HIDE DEF Z
  <2>3. Nat \subseteq Z
    BY <2>1, <2>2, Induction
  <2>4. PICK x \in S : TRUE
    OBVIOUS
  <2>5. x \in Int /\ a <= x /\ x - a + 1 \in Nat
    OBVIOUS
  <2>6. a + (x - a + 1) <= x
    BY <2>3, <2>5 DEF Z
  <2> QED
    BY <2>5, <2>6
<1>2. PICK m \in S : \A x \in S : m <= x
  BY <1>1
<1>3. Min(S) = m
  BY <1>2, MinIs
<1> QED
  BY <1>2, <1>3

(* A set of integers that is bounded above has a greatest member.          *)
LEMMA GreatestOf ==
  ASSUME NEW S \in SUBSET Int, S # {}, NEW b \in Int, \A x \in S : x <= b
  PROVE  Max(S) \in S /\ \A x \in S : x <= Max(S)
<1> DEFINE N == {-x : x \in S}
<1>1. N \in SUBSET Int /\ N # {} /\ -b \in Int
  <2>1. PICK x \in S : TRUE
    OBVIOUS
  <2>2. -x \in N
    OBVIOUS
  <2>3. \A y \in Int : -y \in Int
    OBVIOUS
  <2> QED
    BY <2>2, <2>3
<1>2. \A y \in N : -b <= y
  OBVIOUS
<1>3. \A x \in S : -x \in N
  OBVIOUS
<1>4. \A y \in N : y \in Int /\ -y \in S
  OBVIOUS
<1> HIDE DEF N
<1>5. Min(N) \in N /\ \A y \in N : Min(N) <= y
  BY <1>1, <1>2, LeastOf
<1> DEFINE m == -Min(N)
<1>6. m \in S /\ Min(N) \in Int
  BY <1>4, <1>5
<1>7. ASSUME NEW x \in S
      PROVE  x <= m
  <2>1. Min(N) <= -x /\ x \in Int
    BY <1>3, <1>5
  <2> QED
    BY <1>6, <2>1
<1> HIDE DEF m
<1>8. Max(S) = m
  BY <1>6, <1>7, MaxIs
<1> QED
  BY <1>6, <1>7, <1>8

-----------------------------------------------------------------------------
(* Sequences of whatever they hold.                                        *)
IsSeq(s) == s \in Seq({s[k] : k \in 1..Len(s)})

LEMMA SeqIs ==
  ASSUME NEW S, NEW s \in Seq(S)
  PROVE  IsSeq(s) /\ Len(s) \in Nat /\ s = [k \in 1..Len(s) |-> s[k]]
<1> DEFINE Z == {s[k] : k \in 1..Len(s)}
<1>1. s \in [1..Len(s) -> S] /\ Len(s) \in Nat
  BY LenProperties
<1>2. s \in [1..Len(s) -> Z]
  BY <1>1
<1> HIDE DEF Z
<1>3. s \in Seq(Z)
  BY <1>1, <1>2
<1> QED
  BY <1>1, <1>3 DEF IsSeq, Z

LEMMA ListIs ==
  ASSUME NEW s, IsSeq(s)
  PROVE  Len(s) \in Nat /\ s = [k \in 1..Len(s) |-> s[k]]
<1> DEFINE S == {s[k] : k \in 1..Len(s)}
<1>1. s \in Seq(S)
  BY DEF IsSeq
<1> HIDE DEF S
<1> QED
  BY <1>1, SeqIs

LEMMA JoinIs ==
  ASSUME NEW b, NEW s, IsSeq(b), IsSeq(s)
  PROVE  /\ IsSeq(b \o s) /\ Len(b \o s) = Len(b) + Len(s)
         /\ Len(b) \in Nat /\ Len(s) \in Nat
         /\ \A k \in 1..Len(b) : (b \o s)[k] = b[k]
         /\ \A k \in 1..Len(s) : (b \o s)[Len(b) + k] = s[k]
<1> DEFINE S == {b[k] : k \in 1..Len(b)} \union {s[k] : k \in 1..Len(s)}
<1>1. Len(b) \in Nat /\ Len(s) \in Nat
  BY SeqIs DEF IsSeq
<1>2. b \in [1..Len(b) -> S] /\ s \in [1..Len(s) -> S]
  <2>1. b \in [1..Len(b) -> {b[k] : k \in 1..Len(b)}]
    BY LenProperties DEF IsSeq
  <2>2. s \in [1..Len(s) -> {s[k] : k \in 1..Len(s)}]
    BY LenProperties DEF IsSeq
  <2> QED
    BY <2>1, <2>2
<1> HIDE DEF S
<1>3. b \in Seq(S) /\ s \in Seq(S)
  BY <1>1, <1>2
<1>4. /\ b \o s \in Seq(S) /\ Len(b \o s) = Len(b) + Len(s)
      /\ \A k \in 1..(Len(b) + Len(s)) :
           (b \o s)[k] = IF k <= Len(b) THEN b[k] ELSE s[k - Len(b)]
  BY <1>3, ConcatProperties
<1>5. \A k \in 1..Len(b) : (b \o s)[k] = b[k]
  BY <1>1, <1>4
<1>6. ASSUME NEW k \in 1..Len(s)
      PROVE  (b \o s)[Len(b) + k] = s[k]
  <2>1. Len(b) + k \in 1..(Len(b) + Len(s)) /\ ~(Len(b) + k <= Len(b)) /\ (Len(b) + k) - Len(b) = k
    BY <1>1
  <2> QED
    BY <1>4, <2>1
<1>7. IsSeq(b \o s)
  BY <1>4, SeqIs
<1> QED
  BY <1>1, <1>4, <1>5, <1>6, <1>7

LEMMA OneIs ==
  ASSUME NEW x
  PROVE  IsSeq(<<x>>) /\ Len(<<x>>) = 1 /\ <<x>>[1] = x
<1>1. <<x>> \in Seq({x})
  OBVIOUS
<1> QED
  BY <1>1, SeqIs

LEMMA ConsIs ==
  ASSUME NEW x, NEW s, IsSeq(s)
  PROVE  /\ IsSeq(<<x>> \o s) /\ Len(<<x>> \o s) = Len(s) + 1 /\ Len(s) \in Nat
         /\ (<<x>> \o s)[1] = x
         /\ \A k \in 1..Len(s) : (<<x>> \o s)[k + 1] = s[k]
<1>1. IsSeq(<<x>>) /\ Len(<<x>>) = 1 /\ <<x>>[1] = x
  BY OneIs
<1>2. /\ IsSeq(<<x>> \o s) /\ Len(<<x>> \o s) = Len(<<x>>) + Len(s) /\ Len(s) \in Nat
      /\ \A k \in 1..Len(<<x>>) : (<<x>> \o s)[k] = <<x>>[k]
      /\ \A k \in 1..Len(s) : (<<x>> \o s)[Len(<<x>>) + k] = s[k]
  BY <1>1, JoinIs
<1>3. 1 \in 1..1 /\ \A k \in 1..Len(s) : 1 + k = k + 1
  OBVIOUS
<1> QED
  BY <1>1, <1>2, <1>3

LEMMA TailIs ==
  ASSUME NEW s, IsSeq(s), s # <<>>
  PROVE  /\ IsSeq(Tail(s)) /\ Len(Tail(s)) = Len(s) - 1
         /\ Len(s) \in Nat /\ Len(s) >= 1 /\ Head(s) = s[1]
         /\ \A k \in 1..(Len(s) - 1) : Tail(s)[k] = s[k + 1]
<1> DEFINE S == {s[k] : k \in 1..Len(s)}
<1>1. s \in Seq(S)
  BY DEF IsSeq
<1> HIDE DEF S
<1>2. Len(s) \in Nat /\ Len(s) >= 1
  BY <1>1, EmptySeq, LenProperties
<1>3. /\ Tail(s) \in Seq(S) /\ Len(Tail(s)) = Len(s) - 1
      /\ \A k \in 1..Len(Tail(s)) : Tail(s)[k] = s[k + 1]
  BY <1>1, HeadTailProperties
<1>4. IsSeq(Tail(s))
  BY <1>3, SeqIs
<1>5. Head(s) = s[1]
  BY <1>1
<1> QED
  BY <1>2, <1>3, <1>4, <1>5

LEMMA SubSeqIs ==
  ASSUME NEW s, IsSeq(s), NEW m \in Nat, NEW n \in Nat, 1 <= m, m <= n + 1, n <= Len(s)
  PROVE  /\ IsSeq(SubSeq(s, m, n)) /\ Len(SubSeq(s, m, n)) = n - m + 1
         /\ \A k \in 1..(n - m + 1) : SubSeq(s, m, n)[k] = s[m + k - 1]
<1> DEFINE S == {s[k] : k \in 1..Len(s)}
<1>1. s \in Seq(S)
  BY DEF IsSeq
<1> HIDE DEF S
<1>2. Len(s) \in Nat /\ \A k \in 1..Len(s) : s[k] \in S
  BY <1>1, LenProperties, ElementOfSeq
<1>3. SubSeq(s, m, n) = [k \in 1..(n - m + 1) |-> s[k + m - 1]]
  BY <1>1 DEF SubSeq
<1>4. \A k \in 1..(n - m + 1) : k + m - 1 \in 1..Len(s) /\ k + m - 1 = m + k - 1
  BY <1>2
<1>5. n - m + 1 \in Nat
  OBVIOUS
<1>6. \A k \in 1..(n - m + 1) : s[k + m - 1] \in S
  BY <1>2, <1>4
<1>7. SubSeq(s, m, n) \in Seq(S) /\ Len(SubSeq(s, m, n)) = n - m + 1
  BY <1>3, <1>5, <1>6
<1>8. \A k \in 1..(n - m + 1) : SubSeq(s, m, n)[k] = s[m + k - 1]
  BY <1>3, <1>4
<1> QED
  BY <1>7, <1>8, SeqIs

LEMMA AppendIs ==
  ASSUME NEW s, IsSeq(s), NEW x
  PROVE  /\ IsSeq(Append(s, x)) /\ Len(Append(s, x)) = Len(s) + 1 /\ Len(s) \in Nat
         /\ Append(s, x)[Len(s) + 1] = x
         /\ \A k \in 1..Len(s) : Append(s, x)[k] = s[k]
<1> DEFINE S == {s[k] : k \in 1..Len(s)} \union {x}
<1>1. Len(s) \in Nat /\ s \in [1..Len(s) -> {s[k] : k \in 1..Len(s)}]
  BY LenProperties DEF IsSeq
<1>2. s \in [1..Len(s) -> S] /\ x \in S
  BY <1>1
<1> HIDE DEF S
<1>3. s \in Seq(S)
  BY <1>1, <1>2
<1>4. /\ Append(s, x) \in Seq(S) /\ Len(Append(s, x)) = Len(s) + 1
      /\ Append(s, x)[Len(s) + 1] = x
      /\ \A k \in 1..Len(s) : Append(s, x)[k] = s[k]
  BY <1>2, <1>3, AppendProperties
<1> QED
  BY <1>1, <1>4, SeqIs

LEMMA MapIs ==
  ASSUME NEW s, NEW n \in Nat, s = [k \in 1..n |-> s[k]]
  PROVE  IsSeq(s) /\ Len(s) = n
<1> DEFINE S == {s[k] : k \in 1..n}
<1>1. \A k \in 1..n : s[k] \in S
  OBVIOUS
<1> HIDE DEF S
<1>2. s \in [1..n -> S]
  BY <1>1
<1>3. s \in Seq(S) /\ Len(s) = n
  BY <1>2
<1> QED
  BY <1>3, SeqIs

-----------------------------------------------------------------------------
(* A sequence of instructions in front of others, one after the other.     *)
LEMMA Peel ==
  ASSUME NEW x, NEW b, NEW s, IsSeq(b), IsSeq(s)
  PROVE  Cons(x, b) \o s = Cons(x, b \o s) /\ IsSeq(Cons(x, b))
<1> DEFINE S == {x} \union {b[k] : k \in 1..Len(b)} \union {s[k] : k \in 1..Len(s)}
<1>1. <<x>> \in Seq(S)
  OBVIOUS
<1>2. b \in [1..Len(b) -> S] /\ s \in [1..Len(s) -> S] /\ Len(b) \in Nat /\ Len(s) \in Nat
  <2>1. b = [k \in 1..Len(b) |-> b[k]] /\ s = [k \in 1..Len(s) |-> s[k]]
    BY ListIs
  <2>2. (\A k \in 1..Len(b) : b[k] \in S) /\ (\A k \in 1..Len(s) : s[k] \in S)
    OBVIOUS
  <2>3. Len(b) \in Nat /\ Len(s) \in Nat
    BY ListIs
  <2> HIDE DEF S
  <2> QED
    BY <2>1, <2>2, <2>3
<1> HIDE DEF S
<1>3. b \in Seq(S) /\ s \in Seq(S)
  BY <1>2
<1>4. (<<x>> \o b) \o s = <<x>> \o (b \o s)
  BY <1>1, <1>3, ConcatAssociative
<1>5. IsSeq(<<x>> \o b)
  BY ConsIs
<1> QED
  BY <1>4, <1>5 DEF Cons

LEMMA JoinsIs ==
  ASSUME NEW a, NEW b, NEW s, IsSeq(a), IsSeq(b), IsSeq(s)
  PROVE  (a \o b) \o s = a \o (b \o s) /\ IsSeq(a \o b)
<1> DEFINE A == {a[k] : k \in 1..Len(a)}
           B == {b[k] : k \in 1..Len(b)}
           C == {s[k] : k \in 1..Len(s)}
           S == A \union (B \union C)
<1>1. a \in Seq(A) /\ b \in Seq(B) /\ s \in Seq(C)
  BY DEF IsSeq
<1> HIDE DEF A, B, C
<1>2. A \subseteq S /\ B \subseteq S /\ C \subseteq S
  OBVIOUS
<1> HIDE DEF S
<1>3. a \in Seq(S) /\ b \in Seq(S) /\ s \in Seq(S)
  BY <1>1, <1>2
<1>4. (a \o b) \o s = a \o (b \o s)
  BY <1>3, ConcatAssociative
<1> QED
  BY <1>4, JoinIs

LEMMA NoneIs ==
  ASSUME NEW s, IsSeq(s)
  PROVE  IsSeq(<<>>) /\ <<>> \o s = s
<1> DEFINE S == {s[k] : k \in 1..Len(s)}
<1>1. s \in Seq(S) /\ <<>> \in Seq(S)
  BY DEF IsSeq
<1> HIDE DEF S
<1>2. <<>> \o s = s
  BY <1>1
<1> QED
  BY <1>1, <1>2, SeqIs

LEMMA Tuple1 ==
  ASSUME NEW a, NEW s, IsSeq(s)
  PROVE  IsSeq(<<a>>) /\ <<a>> \o s = Cons(a, s)
BY OneIs DEF Cons

LEMMA Tuple2 ==
  ASSUME NEW a, NEW b, NEW s, IsSeq(s)
  PROVE  IsSeq(<<a, b>>) /\ <<a, b>> \o s =
           Cons(a, Cons(b, s))
<1> DEFINE u == <<b>>
<1>1. <<a, b>> = Cons(a, u)
  <2>1. <<a, b>> = Append(<<a>>, b)
    OBVIOUS
  <2>2. Append(<<a>>, b) = <<a>> \o <<b>>
    OBVIOUS
  <2> QED
    BY <2>1, <2>2 DEF Cons
<1>2. IsSeq(u)
  BY Tuple1
<1>3. u \o s = Cons(b, s)
  BY Tuple1
<1> HIDE DEF u
<1>4. Cons(a, u) \o s = Cons(a, u \o s)
  BY ONLY <1>2, IsSeq(s), Peel
<1>5. IsSeq(Cons(a, u))
  BY ONLY <1>2, IsSeq(s), Peel
<1> QED
  BY <1>1, <1>3, <1>4, <1>5

LEMMA Tuple3 ==
  ASSUME NEW a, NEW b, NEW c, NEW s, IsSeq(s)
  PROVE  IsSeq(<<a, b, c>>) /\ <<a, b, c>> \o s =
           Cons(a, Cons(b, Cons(c, s)))
<1> DEFINE u == <<b, c>>
<1>1. <<a, b, c>> = Cons(a, u)
  BY DEF Cons
<1>2. IsSeq(u)
  BY Tuple2
<1>3. u \o s = Cons(b, Cons(c, s))
  BY Tuple2
<1> HIDE DEF u
<1>4. Cons(a, u) \o s = Cons(a, u \o s)
  BY ONLY <1>2, IsSeq(s), Peel
<1>5. IsSeq(Cons(a, u))
  BY ONLY <1>2, IsSeq(s), Peel
<1> QED
  BY <1>1, <1>3, <1>4, <1>5

LEMMA Tuple4 ==
  ASSUME NEW a, NEW b, NEW c, NEW d, NEW s, IsSeq(s)
  PROVE  IsSeq(<<a, b, c, d>>) /\ <<a, b, c, d>> \o s =
           Cons(a, Cons(b, Cons(c, Cons(d, s))))
<1> DEFINE u == <<b, c, d>>
<1>1. <<a, b, c, d>> = Cons(a, u)
  BY DEF Cons
<1>2. IsSeq(u)
  BY Tuple3
<1>3. u \o s = Cons(b, Cons(c, Cons(d, s)))
  BY Tuple3
<1> HIDE DEF u
<1>4. Cons(a, u) \o s = Cons(a, u \o s)
  BY ONLY <1>2, IsSeq(s), Peel
<1>5. IsSeq(Cons(a, u))
  BY ONLY <1>2, IsSeq(s), Peel
<1> QED
  BY <1>1, <1>3, <1>4, <1>5

LEMMA TwoOneOne ==
  ASSUME NEW a, NEW b, NEW c, NEW d, NEW s, IsSeq(s)
  PROVE  ((<<a, b>> \o <<c>>) \o <<d>>) \o s = Cons(a, Cons(b, Cons(c, Cons(d, s))))
<1>1. IsSeq(<<a, b>>) /\ IsSeq(<<c>>) /\ IsSeq(<<d>>)
  BY Tuple1, Tuple2
<1> DEFINE u == <<a, b>>
           v == <<c>>
           w == <<d>>
<1>2. IsSeq(w \o s) /\ w \o s = Cons(d, s)
  BY <1>1, Tuple1, JoinIs
<1>3. IsSeq(v \o (w \o s)) /\ v \o (w \o s) = Cons(c, w \o s)
  BY <1>1, <1>2, Tuple1, JoinIs
<1>4. u \o (v \o (w \o s)) = Cons(a, Cons(b, v \o (w \o s)))
  <2> DEFINE q == v \o (w \o s)
  <2>1. IsSeq(q)
    BY <1>3
  <2> HIDE DEF q
  <2>2. <<a, b>> \o q = Cons(a, Cons(b, q))
    BY ONLY <2>1, Tuple2
  <2> QED
    BY <2>2 DEF q
<1> HIDE DEF u, v, w
<1>5. ((u \o v) \o w) \o s = (u \o v) \o (w \o s) /\ IsSeq(u \o v)
  BY <1>1, JoinsIs DEF u, v, w
<1>6. (u \o v) \o (w \o s) = u \o (v \o (w \o s))
  BY <1>1, <1>2, JoinsIs DEF u, v, w
<1> QED
  BY <1>2, <1>3, <1>4, <1>5, <1>6 DEF u, v, w

-----------------------------------------------------------------------------
(* What an instruction, and all that it is replaced by, does to the number *)
(* of frames, i, and of values, n, if nothing is thrown.                   *)
Toplevel == {t \in Trees : t.node \in {"Fn", "Let"}}

Pushes(x) == x.do = "no value" \/ (x.do = "gen" /\ x.tree \in Exprs)
Keeps(x)  == \/ x.do \in {"if false", "try each", "define each", "global"}
             \/ x.do = "gen" /\ x.tree \in Trees /\ x.tree.node \in StmtNode \union {"Fn"}
             \/ x.do = "declare" /\ ~x.has_value
Pops(x)   == \/ x.do \in {"drop", "ret", "assign", "loop body"}
             \/ x.do = "declare" /\ x.has_value
Looks(x)  == x.do \in {"if true", "post while"}
Merges(x) == x.do \in {"operator", "call"}

Moves(x, i, n, i1, n1) ==
  \/ Pushes(x) /\ i1 = i /\ n1 = n + 1
  \/ Keeps(x) /\ i1 = i /\ n1 = n
  \/ Pops(x) /\ i1 = i /\ n = n1 + 1
  \/ Looks(x) /\ i1 = i /\ n1 = n /\ n >= 1
  \/ Merges(x) /\ i1 = i /\ x.n \in Nat /\ n1 >= 1 /\ n + 1 = n1 + x.n
  \/ x.do = "each" /\ i1 = i /\ n1 = n + Len(x.trees)
  \/ x.do = "post if" /\ i1 = i /\ n1 >= 1 /\ n = n1 + 1
  \/ x.do = "leave block" /\ i = i1 + 1 /\ n1 = n /\ x.old = i1
  \/ x.do = "end function" /\ i = i1 + 1 /\ n = n1 + 1 /\ x.old = i1
  \/ x.do = "prototypes" /\ i = 1 /\ i1 = i /\ n1 = n
  \/ x.do = "verify" /\ i = 2 /\ i1 = 1 /\ n1 = n
  \/ x.do = "catch" /\ x.of = "result" /\ i1 = i /\ n1 = n /\ x.frames = i /\ n = x.values + 1
  \/ x.do = "catch" /\ x.of # "result" /\ i1 = i /\ n1 = n /\ x.frames = i /\ n = x.values

(* What it refers to: trees, the first b basic blocks, the first v allocas.*)
Refers(b, v, x) ==
  /\ x.do = "each" => x.trees \in Seq(Exprs)
  /\ x.do = "try each" => x.trees \in Seq(Stmts)
  /\ x.do = "define each" => x.trees \in Seq(Toplevel)
  /\ x.do = "if true" => x.tree \in Exprs /\ x.tree.node = "If"
  /\ x.do = "global" => x.tree \in Trees /\ x.tree.node = "Let"
  /\ x.do = "if false" => x.no \in 1..b
  /\ x.do \in {"post if", "post while"} => x.post \in 1..b
  /\ x.do = "loop body" => x.body \in 1..b
  /\ x.do = "leave block" => x.end \in 1..b
  /\ x.do = "end function" => x.decls \in 1..b
  /\ x.do = "declare" => x.name \in Name /\ x.var \in 1..v
  /\ x.do = "assign" => x.key \in Exprs

(* The values that are left while it is done: an if goes on without the    *)
(* value of its condition.                                                 *)
Low(x, n) == IF x.do = "if true" THEN n - 1 ELSE n

(* A catch finds what it goes back to among the first i frames and the     *)
(* first n values.                                                         *)
Spares(x, i, n) ==
  x.do = "catch" => x.frames \in Nat /\ x.values \in Nat /\ x.frames <= i /\ x.values <= n

(* What has to follow: a result that is given up ends its block at once.   *)
Behind(s, k) == IF k < Len(s) THEN {s[k + 1].do} ELSE {}
Follows(x, behind) ==
  /\ x.do \in {"prototypes", "verify"} => behind = {}
  /\ x.do = "catch" /\ x.of = "result" => behind = {"leave block"}

(* The instructions s are done one after the other from h[1] frames and    *)
(* g[1] values, and leave the outermost frame and no value.                *)
Heights(b, v, s, h, g) ==
  /\ h \in [1..(Len(s) + 1) -> Nat \ {0}] /\ g \in [1..(Len(s) + 1) -> Nat]
  /\ h[Len(s) + 1] = 1 /\ g[Len(s) + 1] = 0
  /\ \A k \in 1..Len(s) : Moves(s[k], h[k], g[k], h[k + 1], g[k + 1])
  /\ \A k \in 1..Len(s) : Refers(b, v, s[k])
  /\ \A k \in 1..Len(s) : Follows(s[k], Behind(s, k))
  /\ \A k \in 1..Len(s) : \A j \in 1..k : Spares(s[k], h[j], Low(s[j], g[j]))

(* All their catches go back to the first f frames and the first m values. *)
Stack(b, v, s, i, n, f, m) ==
  /\ IsSeq(s) /\ f \in Nat /\ m \in Nat /\ f <= i /\ m <= n
  /\ \E h, g : /\ Heights(b, v, s, h, g) /\ h[1] = i /\ g[1] = n
               /\ \A k \in 1..Len(s) : Spares(s[k], f, m)

LEMMA StackIs ==
  ASSUME NEW b, NEW v, NEW s, NEW i, NEW n, NEW f, NEW m, Stack(b, v, s, i, n, f, m)
  PROVE  IsSeq(s) /\ i \in Nat \ {0} /\ n \in Nat /\ f \in Nat /\ m \in Nat
           /\ f <= i /\ m <= n /\ Len(s) \in Nat
<1>1. PICK h, g : Heights(b, v, s, h, g) /\ h[1] = i /\ g[1] = n
  BY DEF Stack
<1>2. IsSeq(s) /\ f \in Nat /\ m \in Nat /\ f <= i /\ m <= n
  BY DEF Stack
<1>3. Len(s) \in Nat
  BY <1>2, ListIs
<1>4. h \in [1..(Len(s) + 1) -> Nat \ {0}] /\ g \in [1..(Len(s) + 1) -> Nat]
  BY <1>1 DEF Heights
<1>5. 1 \in 1..(Len(s) + 1)
  BY <1>3
<1> QED
  BY <1>1, <1>2, <1>3, <1>4, <1>5

LEMMA SparesMore ==
  ASSUME NEW x, NEW i \in Int, NEW n \in Int, Spares(x, i, n),
         NEW i2 \in Int, NEW n2 \in Int, i <= i2, n <= n2
  PROVE  Spares(x, i2, n2)
<1>1. CASE x.do = "catch"
  <2>1. x.frames \in Nat /\ x.values \in Nat /\ x.frames <= i /\ x.values <= n
    BY <1>1 DEF Spares
  <2>2. x.frames <= i2 /\ x.values <= n2
    BY <2>1
  <2> QED
    BY <2>1, <2>2 DEF Spares
<1>2. CASE x.do # "catch"
  BY <1>2 DEF Spares
<1> QED
  BY <1>1, <1>2

(* Without instructions there are only the outermost frame and no value.   *)
LEMMA EmptyStack ==
  ASSUME NEW b, NEW v
  PROVE  Stack(b, v, <<>>, 1, 0, 1, 0)
<1> DEFINE h == [k \in 1..1 |-> 1]
           g == [k \in 1..1 |-> 0]
<1>1. IsSeq(<<>>) /\ Len(<<>>) = 0
  <2>1. <<>> \in Seq({})
    OBVIOUS
  <2> QED
    BY <2>1, SeqIs
<1>2. 1..0 = {} /\ h \in [1..(0 + 1) -> Nat \ {0}] /\ g \in [1..(0 + 1) -> Nat] /\ h[1] = 1
        /\ h[0 + 1] = 1 /\ g[1] = 0 /\ g[0 + 1] = 0
  OBVIOUS
<1> HIDE DEF h, g
<1>3. Heights(b, v, <<>>, h, g)
  BY <1>1, <1>2 DEF Heights
<1>4. 1 \in Nat /\ 0 \in Nat /\ 1 <= 1 /\ 0 <= 0
  OBVIOUS
<1> QED
  BY <1>1, <1>2, <1>3, <1>4 DEF Stack

LEMMA NoStack ==
  ASSUME NEW b, NEW v, NEW i, NEW n, NEW f, NEW m, Stack(b, v, <<>>, i, n, f, m)
  PROVE  i = 1 /\ n = 0
<1>1. PICK h, g : Heights(b, v, <<>>, h, g) /\ h[1] = i /\ g[1] = n
  BY DEF Stack
<1>2. Len(<<>>) + 1 = 1
  OBVIOUS
<1> QED
  BY <1>1, <1>2 DEF Heights

(* One more instruction in front.                                          *)
LEMMA Put ==
  ASSUME NEW b, NEW v, NEW s, NEW i1, NEW n1, NEW f1, NEW m1,
         Stack(b, v, s, i1, n1, f1, m1),
         NEW x, NEW i \in Nat \ {0}, NEW n \in Nat, NEW f \in Nat, NEW m \in Nat,
         Moves(x, i, n, i1, n1), Refers(b, v, x), Low(x, n) \in Nat, Low(x, n) <= n,
         f1 <= f, f <= i, m1 <= m, m <= Low(x, n),
         Spares(x, f, m), Follows(x, IF s = <<>> THEN {} ELSE {Head(s).do})
  PROVE  Stack(b, v, Cons(x, s), i, n, f, m)
<1> DEFINE u == Cons(x, s)
           low == Low(x, n)
<1>1. /\ IsSeq(u) /\ Len(u) = Len(s) + 1 /\ Len(s) \in Nat /\ u[1] = x
      /\ \A k \in 1..Len(s) : u[k + 1] = s[k]
  BY StackIs, ConsIs DEF Cons
<1>2. i1 \in Nat /\ n1 \in Nat /\ f1 \in Nat /\ m1 \in Nat /\ IsSeq(s)
  BY StackIs
<1>3. PICK h, g : /\ Heights(b, v, s, h, g) /\ h[1] = i1 /\ g[1] = n1
                  /\ \A k \in 1..Len(s) : Spares(s[k], f1, m1)
  BY DEF Stack
<1>4. /\ h \in [1..(Len(s) + 1) -> Nat \ {0}] /\ g \in [1..(Len(s) + 1) -> Nat]
      /\ h[Len(s) + 1] = 1 /\ g[Len(s) + 1] = 0
      /\ \A k \in 1..Len(s) : Moves(s[k], h[k], g[k], h[k + 1], g[k + 1])
      /\ \A k \in 1..Len(s) : Refers(b, v, s[k])
      /\ \A k \in 1..Len(s) : Follows(s[k], Behind(s, k))
      /\ \A k \in 1..Len(s) : \A j \in 1..k : Spares(s[k], h[j], Low(s[j], g[j]))
  BY <1>3 DEF Heights
<1> DEFINE hu == [k \in 1..(Len(u) + 1) |-> IF k = 1 THEN i ELSE h[k - 1]]
           gu == [k \in 1..(Len(u) + 1) |-> IF k = 1 THEN n ELSE g[k - 1]]
<1>5. /\ hu \in [1..(Len(u) + 1) -> Nat \ {0}] /\ gu \in [1..(Len(u) + 1) -> Nat]
      /\ hu[1] = i /\ gu[1] = n
      /\ \A k \in 1..(Len(s) + 1) : hu[k + 1] = h[k] /\ gu[k + 1] = g[k]
  BY <1>1, <1>4
<1>6. hu[Len(u) + 1] = 1 /\ gu[Len(u) + 1] = 0
  <2>1. Len(s) + 1 \in 1..(Len(s) + 1)
    BY <1>1
  <2> QED
    BY <1>1, <1>4, <1>5, <2>1
<1>7. low \in Nat /\ m <= low
  OBVIOUS
<1> HIDE DEF hu, gu, u, low
<1>8. ASSUME NEW k \in 1..Len(u), k # 1
      PROVE  \E q \in 1..Len(s) : k = q + 1 /\ u[k] = s[q]
  <2>1. k - 1 \in 1..Len(s) /\ k = (k - 1) + 1
    BY <1>1, <1>8
  <2> QED
    BY <1>1, <2>1
<1>9. ASSUME NEW k \in 1..Len(u)
      PROVE  /\ Moves(u[k], hu[k], gu[k], hu[k + 1], gu[k + 1]) /\ Refers(b, v, u[k])
             /\ Spares(u[k], f, m)
  <2>1. CASE k = 1
    <3>1. 1 \in 1..(Len(s) + 1)
      BY <1>1
    <3>2. hu[1 + 1] = i1 /\ gu[1 + 1] = n1
      BY <1>3, <1>5, <3>1
    <3> QED
      BY <1>1, <1>5, <2>1, <3>2
  <2>2. CASE k # 1
    <3>1. PICK q \in 1..Len(s) : k = q + 1 /\ u[k] = s[q]
      BY <1>8, <2>2
    <3>2. q \in 1..(Len(s) + 1) /\ q + 1 \in 1..(Len(s) + 1)
      BY <1>1
    <3>3. hu[k] = h[q] /\ gu[k] = g[q] /\ hu[k + 1] = h[q + 1] /\ gu[k + 1] = g[q + 1]
      BY <1>5, <3>1, <3>2
    <3>4. Spares(s[q], f1, m1)
      BY <1>3
    <3>5. Spares(s[q], f, m)
      BY <1>2, <3>4, SparesMore
    <3> QED
      BY <1>4, <3>1, <3>3, <3>5
  <2> QED
    BY <2>1, <2>2
<1>10. ASSUME NEW k \in 1..Len(u)
      PROVE  Follows(u[k], Behind(u, k))
  <2>1. CASE k = 1
    <3>1. CASE s = <<>>
      <4>1. Len(s) = 0
        BY <3>1
      <4>2. ~(k < Len(u))
        BY <1>1, <2>1, <4>1
      <4>3. Behind(u, k) = {}
        BY <4>2 DEF Behind
      <4> QED
        BY <1>1, <2>1, <3>1, <4>3
    <3>2. CASE s # <<>>
      <4>1. Head(s) = s[1] /\ Len(s) >= 1
        BY <1>2, <3>2, TailIs
      <4>2. 1 < Len(u) /\ 1 \in 1..Len(s)
        BY <1>1, <4>1
      <4>3. Behind(u, 1) = {u[1 + 1].do} /\ u[1 + 1] = s[1]
        BY <1>1, <4>2 DEF Behind
      <4> QED
        BY <1>1, <2>1, <3>2, <4>1, <4>3
    <3> QED
      BY <3>1, <3>2
  <2>2. CASE k # 1
    <3>1. PICK q \in 1..Len(s) : k = q + 1 /\ u[k] = s[q]
      BY <1>8, <2>2
    <3>2. Behind(u, k) = Behind(s, q)
      <4>1. CASE q < Len(s)
        <5>1. q + 1 \in 1..Len(s) /\ k < Len(u)
          BY <1>1, <3>1, <4>1
        <5>2. u[k + 1] = s[q + 1]
          BY <1>1, <3>1, <5>1
        <5> QED
          BY <4>1, <5>1, <5>2 DEF Behind
      <4>2. CASE ~(q < Len(s))
        <5>1. ~(k < Len(u))
          BY <1>1, <3>1, <4>2
        <5> QED
          BY <4>2, <5>1 DEF Behind
      <4> QED
        BY <4>1, <4>2
    <3> QED
      BY <1>4, <3>1, <3>2
  <2> QED
    BY <2>1, <2>2
<1>11. ASSUME NEW k \in 1..Len(u), NEW j \in 1..k
       PROVE  Spares(u[k], hu[j], Low(u[j], gu[j]))
  <2>1. CASE j = 1
    <3>1. Spares(u[k], i, low)
      BY <1>7, <1>9, SparesMore
    <3> QED
      BY <1>1, <1>5, <2>1, <3>1 DEF low
  <2>2. CASE j # 1
    <3>1. j \in 1..Len(u) /\ k # 1
      BY <1>1, <2>2
    <3>2. PICK q \in 1..Len(s) : k = q + 1 /\ u[k] = s[q]
      BY <1>8, <3>1
    <3>3. PICK p \in 1..Len(s) : j = p + 1 /\ u[j] = s[p]
      BY <1>8, <2>2, <3>1
    <3>4. p \in 1..q /\ p \in 1..(Len(s) + 1)
      BY <1>1, <3>2, <3>3
    <3>5. hu[j] = h[p] /\ gu[j] = g[p]
      BY <1>5, <3>3, <3>4
    <3> QED
      BY <1>4, <3>2, <3>3, <3>4, <3>5
  <2> QED
    BY <2>1, <2>2
<1>12. Heights(b, v, u, hu, gu)
  BY <1>5, <1>6, <1>9, <1>10, <1>11 DEF Heights
<1>13. m <= n
  BY <1>7 DEF low
<1>14. Stack(b, v, u, i, n, f, m)
  BY <1>1, <1>5, <1>9, <1>12, <1>13 DEF Stack
<1> QED
  BY <1>14 DEF u

(* What is left behind the first c instructions.                           *)
LEMMA RestStack ==
  ASSUME NEW b, NEW v, NEW s, IsSeq(s), NEW h, NEW g, Heights(b, v, s, h, g),
         NEW c \in 1..Len(s), NEW f \in Nat, NEW m \in Nat, f <= h[c + 1], m <= g[c + 1],
         \A k \in (c + 1)..Len(s) : Spares(s[k], f, m)
  PROVE  Stack(b, v, SubSeq(s, c + 1, Len(s)), h[c + 1], g[c + 1], f, m)
<1> DEFINE u == SubSeq(s, c + 1, Len(s))
           d == c + 1
<1>1. Len(s) \in Nat /\ c \in Nat /\ 1 <= c /\ c <= Len(s)
  <2>1. Len(s) \in Nat
    BY ListIs
  <2> QED
    BY <2>1
<1>2. d \in Nat /\ 1 <= d /\ d <= Len(s) + 1 /\ Len(s) <= Len(s) /\ Len(s) - d + 1 = Len(s) - c
        /\ \A k \in 1..(Len(s) - c) : d + k - 1 = c + k
  BY <1>1
<1>3. u = SubSeq(s, d, Len(s))
  OBVIOUS
<1> HIDE DEF d, u
<1>4. /\ IsSeq(u) /\ Len(u) = Len(s) - d + 1
      /\ \A k \in 1..(Len(s) - d + 1) : u[k] = s[d + k - 1]
  BY <1>1, <1>2, <1>3, SubSeqIs
<1>5. /\ IsSeq(u) /\ Len(u) = Len(s) - c /\ Len(u) \in Nat
      /\ \A k \in 1..(Len(s) - c) : u[k] = s[c + k]
  <2>1. Len(s) - c \in Nat
    BY <1>1
  <2>2. Len(u) = Len(s) - c /\ \A k \in 1..(Len(s) - c) : u[k] = s[d + k - 1]
    BY <1>2, <1>4
  <2>3. \A k \in 1..(Len(s) - c) : u[k] = s[c + k]
    BY <1>2, <2>2
  <2> QED
    BY <1>4, <2>1, <2>2, <2>3
<1>6. /\ h \in [1..(Len(s) + 1) -> Nat \ {0}] /\ g \in [1..(Len(s) + 1) -> Nat]
      /\ h[Len(s) + 1] = 1 /\ g[Len(s) + 1] = 0
      /\ \A k \in 1..Len(s) : Moves(s[k], h[k], g[k], h[k + 1], g[k + 1])
      /\ \A k \in 1..Len(s) : Refers(b, v, s[k])
      /\ \A k \in 1..Len(s) : Follows(s[k], Behind(s, k))
      /\ \A k \in 1..Len(s) : \A j \in 1..k : Spares(s[k], h[j], Low(s[j], g[j]))
  BY DEF Heights
<1> DEFINE hu == [k \in 1..(Len(u) + 1) |-> h[c + k]]
           gu == [k \in 1..(Len(u) + 1) |-> g[c + k]]
<1>7. /\ hu \in [1..(Len(u) + 1) -> Nat \ {0}] /\ gu \in [1..(Len(u) + 1) -> Nat]
      /\ \A k \in 1..(Len(u) + 1) : hu[k] = h[c + k] /\ gu[k] = g[c + k]
  <2>1. \A k \in 1..(Len(u) + 1) : c + k \in 1..(Len(s) + 1)
    BY <1>1, <1>5
  <2> QED
    BY <1>6, <2>1
<1> HIDE DEF hu, gu
<1>8. hu[1] = h[c + 1] /\ gu[1] = g[c + 1] /\ hu[Len(u) + 1] = 1 /\ gu[Len(u) + 1] = 0
  <2>1. Len(u) + 1 \in 1..(Len(u) + 1) /\ c + (Len(u) + 1) = Len(s) + 1 /\ 1 \in 1..(Len(u) + 1)
    BY <1>1, <1>5
  <2>2. hu[1] = h[c + 1] /\ gu[1] = g[c + 1]
    BY <1>7, <2>1
  <2>3. hu[Len(u) + 1] = h[c + (Len(u) + 1)] /\ gu[Len(u) + 1] = g[c + (Len(u) + 1)]
    BY <1>7, <2>1
  <2> QED
    BY <1>6, <2>1, <2>2, <2>3
<1>9. ASSUME NEW k \in 1..Len(u)
      PROVE  /\ c + k \in 1..Len(s) /\ c + k \in (c + 1)..Len(s) /\ c + (k + 1) = (c + k) + 1
             /\ u[k] = s[c + k] /\ hu[k] = h[c + k] /\ gu[k] = g[c + k]
             /\ hu[k + 1] = h[(c + k) + 1] /\ gu[k + 1] = g[(c + k) + 1]
  <2>1. /\ c + k \in 1..Len(s) /\ c + k \in (c + 1)..Len(s) /\ c + (k + 1) = (c + k) + 1
        /\ k \in 1..(Len(s) - c) /\ k \in 1..(Len(u) + 1) /\ k + 1 \in 1..(Len(u) + 1)
    BY <1>1, <1>5
  <2> QED
    BY <1>5, <1>7, <2>1
<1>10. ASSUME NEW k \in 1..Len(u)
       PROVE  Behind(u, k) = Behind(s, c + k)
  <2>1. CASE k < Len(u)
    <3>1. k + 1 \in 1..(Len(s) - c) /\ c + k < Len(s) /\ c + (k + 1) = (c + k) + 1
      BY <1>1, <1>5, <2>1
    <3>2. u[k + 1] = s[(c + k) + 1]
      BY <1>5, <3>1
    <3> QED
      BY <2>1, <3>1, <3>2 DEF Behind
  <2>2. CASE ~(k < Len(u))
    <3>1. ~(c + k < Len(s))
      BY <1>1, <1>5, <2>2
    <3> QED
      BY <2>2, <3>1 DEF Behind
  <2> QED
    BY <2>1, <2>2
<1>11. ASSUME NEW k \in 1..Len(u), NEW j \in 1..k
       PROVE  Spares(u[k], hu[j], Low(u[j], gu[j]))
  <2>1. j \in 1..Len(u) /\ c + j \in 1..(c + k)
    BY <1>1, <1>5
  <2> QED
    BY <1>6, <1>9, <2>1
<1>12. Heights(b, v, u, hu, gu)
  BY <1>6, <1>7, <1>8, <1>9, <1>10, <1>11 DEF Heights
<1>13. \A k \in 1..Len(u) : Spares(u[k], f, m)
  BY <1>9
<1>14. Stack(b, v, u, h[c + 1], g[c + 1], f, m)
  BY <1>5, <1>8, <1>12, <1>13 DEF Stack
<1> QED
  BY <1>14 DEF u

LEMMA LowIs ==
  ASSUME NEW x, NEW i, NEW n \in Nat, NEW i1, NEW n1, Moves(x, i, n, i1, n1)
  PROVE  Low(x, n) \in Nat /\ Low(x, n) <= n
<1>1. CASE x.do = "if true"
  <2>1. n >= 1
    BY <1>1 DEF Moves, Pushes, Keeps, Pops, Looks, Merges
  <2>2. Low(x, n) = n - 1
    BY <1>1 DEF Low
  <2> QED
    BY <2>1, <2>2
<1>2. CASE x.do # "if true"
  <2>1. Low(x, n) = n
    BY <1>2 DEF Low
  <2> QED
    BY <2>1
<1> QED
  BY <1>1, <1>2

(* The first instruction is done.                                          *)
LEMMA Done ==
  ASSUME NEW b, NEW v, NEW s, NEW i, NEW n, NEW f, NEW m,
         Stack(b, v, s, i, n, f, m), s # <<>>
  PROVE  /\ Refers(b, v, Head(s))
         /\ Follows(Head(s), IF Tail(s) = <<>> THEN {} ELSE {Head(Tail(s)).do})
         /\ \E i1 \in Nat \ {0}, n1, f1, m1 \in Nat :
              /\ Moves(Head(s), i, n, i1, n1)
              /\ Stack(b, v, Tail(s), i1, n1, f1, m1)
              /\ f1 <= i /\ m1 <= Low(Head(s), n)
<1>1. /\ IsSeq(Tail(s)) /\ Len(Tail(s)) = Len(s) - 1 /\ Len(s) \in Nat /\ Len(s) >= 1
      /\ Head(s) = s[1] /\ \A k \in 1..(Len(s) - 1) : Tail(s)[k] = s[k + 1]
      /\ IsSeq(s) /\ i \in Nat \ {0} /\ n \in Nat
  BY StackIs, TailIs
<1>2. PICK h, g : Heights(b, v, s, h, g) /\ h[1] = i /\ g[1] = n
  BY DEF Stack
<1>3. /\ h \in [1..(Len(s) + 1) -> Nat \ {0}] /\ g \in [1..(Len(s) + 1) -> Nat]
      /\ \A k \in 1..Len(s) : Moves(s[k], h[k], g[k], h[k + 1], g[k + 1])
      /\ \A k \in 1..Len(s) : Refers(b, v, s[k])
      /\ \A k \in 1..Len(s) : Follows(s[k], Behind(s, k))
      /\ \A k \in 1..Len(s) : \A j \in 1..k : Spares(s[k], h[j], Low(s[j], g[j]))
  BY <1>2 DEF Heights
<1>4. 1 \in 1..Len(s) /\ 1 + 1 = 2 /\ 2 \in 1..(Len(s) + 1)
  BY <1>1
<1>5. /\ Moves(Head(s), i, n, h[2], g[2]) /\ Refers(b, v, Head(s))
      /\ h[2] \in Nat \ {0} /\ g[2] \in Nat
  BY <1>1, <1>2, <1>3, <1>4
<1>6. Low(Head(s), n) \in Nat
  BY <1>1, <1>5, LowIs
<1> DEFINE low == Low(Head(s), n)
           h2 == h[2]
           g2 == g[2]
<1>7. h2 \in Nat /\ g2 \in Nat /\ low \in Nat
  BY <1>5, <1>6
<1>8. ASSUME NEW k \in 2..Len(s)
      PROVE  \E i2, n2 \in Nat : /\ Spares(s[k], i, low) /\ Spares(s[k], h2, n2)
                                 /\ n2 <= g2
  <2>1. k \in 1..Len(s) /\ 1 \in 1..k /\ 2 \in 1..k /\ 2 \in 1..Len(s)
    BY <1>1
  <2>2. Spares(s[k], h[1], Low(s[1], g[1])) /\ Spares(s[k], h[2], Low(s[2], g[2]))
    BY <1>3, <2>1
  <2>3. Moves(s[2], h[2], g[2], h[2 + 1], g[2 + 1])
    BY <1>3, <2>1
  <2>4. Low(s[2], g[2]) \in Nat /\ Low(s[2], g[2]) <= g[2]
    BY <1>5, <2>3, LowIs
  <2> QED
    BY <1>1, <1>2, <1>7, <2>2, <2>4
<1> HIDE DEF low, h2, g2
<1>9. PICK f1 \in Nat : f1 <= h2 /\ f1 <= i /\ (f1 = h2 \/ f1 = i)
  <2>1. CASE i <= h2
    BY <1>1, <1>7, <2>1
  <2>2. CASE ~(i <= h2)
    BY <1>1, <1>7, <2>2
  <2> QED
    BY <2>1, <2>2
<1>10. PICK m1 \in Nat : m1 <= g2 /\ m1 <= low /\ (m1 = g2 \/ m1 = low)
  <2>1. CASE low <= g2
    BY <1>7, <2>1
  <2>2. CASE ~(low <= g2)
    BY <1>7, <2>2
  <2> QED
    BY <2>1, <2>2
<1>11. ASSUME NEW k \in 2..Len(s)
       PROVE  Spares(s[k], f1, m1)
  <2>1. PICK n2 \in Nat : Spares(s[k], i, low) /\ Spares(s[k], h2, n2) /\ n2 <= g2
    BY <1>8
  <2>2. Spares(s[k], h2, g2)
    <3>1. h2 <= h2 /\ h2 \in Int /\ g2 \in Int /\ n2 \in Int
      BY <1>7
    <3> QED
      BY ONLY <2>1, <3>1, SparesMore
  <2>3. Spares(s[k], f1, m1)
    <3>1. CASE s[k].do = "catch"
      <4>1. /\ s[k].frames \in Nat /\ s[k].values \in Nat
            /\ s[k].frames <= i /\ s[k].values <= low /\ s[k].frames <= h2 /\ s[k].values <= g2
        BY <2>1, <2>2, <3>1 DEF Spares
      <4>2. s[k].frames <= f1 /\ s[k].values <= m1
        BY <1>9, <1>10, <4>1
      <4> QED
        BY <4>1, <4>2 DEF Spares
    <3>2. CASE s[k].do # "catch"
      BY <3>2 DEF Spares
    <3> QED
      BY <3>1, <3>2
  <2> QED
    BY <2>3
<1>12. Stack(b, v, SubSeq(s, 2, Len(s)), h2, g2, f1, m1)
  <2>1. \A k \in (1 + 1)..Len(s) : Spares(s[k], f1, m1)
    BY <1>4, <1>11
  <2>2. f1 <= h[1 + 1] /\ m1 <= g[1 + 1]
    BY <1>4, <1>9, <1>10 DEF h2, g2
  <2>3. Stack(b, v, SubSeq(s, 1 + 1, Len(s)), h[1 + 1], g[1 + 1], f1, m1)
    BY ONLY <1>1, <1>2, <1>4, <1>9, <1>10, <2>1, <2>2, RestStack
  <2> QED
    BY <1>4, <2>3 DEF h2, g2
<1>13. SubSeq(s, 2, Len(s)) = Tail(s)
  <2> DEFINE u == SubSeq(s, 2, Len(s))
             t == Tail(s)
  <2>1. 2 \in Nat /\ 1 <= 2 /\ 2 <= Len(s) + 1 /\ Len(s) <= Len(s) /\ Len(s) - 2 + 1 = Len(s) - 1
          /\ \A k \in 1..(Len(s) - 1) : 2 + k - 1 = k + 1
    BY <1>1
  <2>2. /\ IsSeq(u) /\ Len(u) = Len(s) - 2 + 1
        /\ \A k \in 1..(Len(s) - 2 + 1) : u[k] = s[2 + k - 1]
    BY <1>1, <2>1, SubSeqIs
  <2>3. IsSeq(t) /\ Len(t) = Len(s) - 1 /\ \A k \in 1..(Len(s) - 1) : t[k] = s[k + 1]
    BY <1>1
  <2> HIDE DEF u, t
  <2>4. u = [k \in 1..Len(u) |-> u[k]] /\ t = [k \in 1..Len(t) |-> t[k]]
    BY <2>2, <2>3, ListIs
  <2>5. Len(u) = Len(t) /\ \A k \in 1..Len(t) : u[k] = t[k]
    BY <2>1, <2>2, <2>3
  <2>6. u = t
    BY <2>4, <2>5
  <2> QED
    BY <2>6 DEF u, t
<1>14. Follows(Head(s), IF Tail(s) = <<>> THEN {} ELSE {Head(Tail(s)).do})
  <2>1. Follows(s[1], Behind(s, 1))
    BY <1>3, <1>4
  <2>2. CASE Tail(s) = <<>>
    <3>1. Len(s) \in Nat /\ 0 = Len(s) - 1
      <4>1. Len(<<>>) = 0
        OBVIOUS
      <4>2. Len(<<>>) = Len(s) - 1
        BY <1>1, <2>2
      <4> QED
        BY <1>1, <4>1, <4>2
    <3>2. ~(1 < Len(s))
      <4> DEFINE l == Len(s)
      <4>1. l \in Nat /\ 0 = l - 1
        BY <3>1
      <4> HIDE DEF l
      <4>2. ~(1 < l)
        BY ONLY <4>1
      <4> QED
        BY <4>2 DEF l
    <3>3. Behind(s, 1) = {}
      BY <3>2 DEF Behind
    <3> QED
      BY <1>1, <2>1, <2>2, <3>3
  <2>3. CASE Tail(s) # <<>>
    <3>1. Head(Tail(s)) = Tail(s)[1] /\ Len(Tail(s)) >= 1
      BY <1>1, <2>3, TailIs
    <3>2. 1 < Len(s) /\ 1 \in 1..(Len(s) - 1) /\ 1 + 1 = 2
      BY <1>1, <3>1
    <3>3. Behind(s, 1) = {s[1 + 1].do} /\ Tail(s)[1] = s[1 + 1]
      BY <1>1, <3>2 DEF Behind
    <3> QED
      BY <1>1, <2>1, <2>3, <3>1, <3>3
  <2> QED
    BY <2>2, <2>3
<1>15. Stack(b, v, Tail(s), h2, g2, f1, m1)
  BY <1>12, <1>13
<1>16. m1 <= Low(Head(s), n) /\ Moves(Head(s), i, n, h2, g2) /\ h2 \in Nat \ {0} /\ g2 \in Nat
  BY <1>5, <1>10 DEF low, h2, g2
<1> QED
  BY <1>5, <1>9, <1>14, <1>15, <1>16

(* Behind a catch.                                                         *)
LEMMA AtCatch ==
  ASSUME NEW b, NEW v, NEW s, NEW i, NEW n, NEW f, NEW m,
         Stack(b, v, s, i, n, f, m), NEW c \in 1..Len(s), s[c].do = "catch"
  PROVE  LET x == s[c]
             rest == SubSeq(s, c + 1, Len(s))
         IN  /\ x.frames \in 1..i /\ x.values \in 0..n
             /\ x.of = "result" =>
                  /\ Stack(b, v, rest, x.frames, x.values + 1, x.frames, x.values + 1)
                  /\ rest # <<>> /\ Head(rest).do = "leave block"
             /\ x.of # "result" =>
                  Stack(b, v, rest, x.frames, x.values, x.frames, x.values)
<1> DEFINE x == s[c]
           rest == SubSeq(s, c + 1, Len(s))
<1>1. IsSeq(s) /\ i \in Nat \ {0} /\ n \in Nat /\ Len(s) \in Nat
  BY StackIs
<1>2. PICK h, g : Heights(b, v, s, h, g) /\ h[1] = i /\ g[1] = n
  BY DEF Stack
<1>3. /\ h \in [1..(Len(s) + 1) -> Nat \ {0}] /\ g \in [1..(Len(s) + 1) -> Nat]
      /\ h[Len(s) + 1] = 1 /\ g[Len(s) + 1] = 0
      /\ \A k \in 1..Len(s) : Moves(s[k], h[k], g[k], h[k + 1], g[k + 1])
      /\ \A k \in 1..Len(s) : Follows(s[k], Behind(s, k))
      /\ \A k \in 1..Len(s) : \A j \in 1..k : Spares(s[k], h[j], Low(s[j], g[j]))
  BY <1>2 DEF Heights
<1>4. 1 \in 1..c /\ 1 \in 1..Len(s) /\ c + 1 \in 1..(Len(s) + 1) /\ c \in 1..(Len(s) + 1) /\ c \in 1..c
  BY <1>1
<1>5. Spares(x, i, Low(s[1], n)) /\ Moves(s[1], i, n, h[1 + 1], g[1 + 1])
  BY <1>2, <1>3, <1>4
<1>6. Low(s[1], n) \in Nat /\ Low(s[1], n) <= n
  BY <1>1, <1>5, LowIs
<1>7. x.frames \in Nat /\ x.values \in Nat /\ x.frames <= i /\ x.values <= Low(s[1], n)
  BY <1>5 DEF Spares
<1>8. Moves(x, h[c], g[c], h[c + 1], g[c + 1]) /\ Follows(x, Behind(s, c))
        /\ h[c] \in Nat \ {0} /\ h[c + 1] \in Nat \ {0} /\ g[c + 1] \in Nat
  BY <1>3, <1>4
<1>9. /\ h[c + 1] = h[c] /\ x.frames = h[c] /\ g[c + 1] = g[c]
      /\ x.of = "result" => g[c] = x.values + 1
      /\ x.of # "result" => g[c] = x.values
  BY <1>8 DEF Moves, Pushes, Keeps, Pops, Looks, Merges
<1>10. x.frames \in 1..i /\ x.values \in 0..n
  <2>1. x.frames # 0 /\ x.values <= n
    BY <1>1, <1>6, <1>7, <1>8, <1>9
  <2> QED
    BY <1>1, <1>7, <2>1
<1>11. Stack(b, v, rest, h[c + 1], g[c + 1], h[c + 1], g[c + 1])
  <2> DEFINE p == h[c + 1]
             q == g[c + 1]
  <2>1. p \in Nat /\ q \in Nat /\ p <= p /\ q <= q
    BY <1>8
  <2>2. ASSUME NEW k \in (c + 1)..Len(s)
        PROVE  Spares(s[k], p, q)
    <3>1. k \in 1..Len(s) /\ c + 1 \in 1..k /\ c + 1 \in 1..Len(s)
      BY <1>1
    <3>2. Spares(s[k], h[c + 1], Low(s[c + 1], g[c + 1]))
            /\ Moves(s[c + 1], h[c + 1], g[c + 1], h[(c + 1) + 1], g[(c + 1) + 1])
      BY <1>3, <3>1
    <3>3. Low(s[c + 1], g[c + 1]) \in Nat /\ Low(s[c + 1], g[c + 1]) <= g[c + 1]
      BY <1>8, <3>2, LowIs
    <3> DEFINE low == Low(s[c + 1], g[c + 1])
    <3>4. low \in Int /\ low <= q /\ Spares(s[k], p, low) /\ p \in Int /\ q \in Int
      BY <2>1, <3>2, <3>3
    <3> HIDE DEF low, p, q
    <3> QED
      BY <2>1, <3>4, SparesMore
  <2>3. p <= h[c + 1] /\ q <= g[c + 1]
    BY <2>1
  <2> HIDE DEF p, q
  <2>4. Stack(b, v, SubSeq(s, c + 1, Len(s)), h[c + 1], g[c + 1], p, q)
    BY ONLY <1>1, <1>2, <2>1, <2>2, <2>3, c \in 1..Len(s), RestStack
  <2> QED
    BY <2>4 DEF p, q
<1>12. ASSUME x.of = "result"
       PROVE  rest # <<>> /\ Head(rest).do = "leave block"
  <2>1. Behind(s, c) = {"leave block"}
    BY <1>8, <1>12 DEF Follows
  <2>2. c < Len(s) /\ s[c + 1].do = "leave block"
    BY <2>1 DEF Behind
  <2> DEFINE d == c + 1
  <2>3. c < Len(s)
    BY <2>2
  <2>4. c \in Nat /\ c < Len(s)
    BY <1>1, <2>3
  <2>5. d \in Nat /\ 1 <= d /\ d <= Len(s) + 1 /\ Len(s) <= Len(s) /\ Len(s) - d + 1 >= 1
          /\ 1 \in 1..(Len(s) - d + 1) /\ d + 1 - 1 = d
    BY ONLY <1>1, <2>4
  <2>6. rest = SubSeq(s, d, Len(s)) /\ s[d].do = "leave block"
    BY <2>2
  <2>16. rest = SubSeq(s, d, Len(s))
    BY <2>6
  <2>17. IsSeq(s) /\ Len(s) \in Nat
    BY <1>1
  <2> HIDE DEF d, rest
  <2>7. /\ IsSeq(rest) /\ Len(rest) = Len(s) - d + 1
        /\ \A k \in 1..(Len(s) - d + 1) : rest[k] = s[d + k - 1]
    BY ONLY <2>5, <2>16, <2>17, SubSeqIs
  <2>8. rest # <<>>
    BY <2>5, <2>7, EmptySeq
  <2>9. Head(rest) = rest[1]
    BY <2>7, <2>8, TailIs
  <2> QED
    BY <2>5, <2>6, <2>7, <2>8, <2>9
<1>13. x.of = "result" => h[c + 1] = x.frames /\ g[c + 1] = x.values + 1
  BY <1>9
<1>14. x.of # "result" => h[c + 1] = x.frames /\ g[c + 1] = x.values
  BY <1>9
<1> HIDE DEF x, rest
<1>15. x.of = "result" => Stack(b, v, rest, x.frames, x.values + 1, x.frames, x.values + 1)
  BY <1>11, <1>13
<1>16. x.of # "result" => Stack(b, v, rest, x.frames, x.values, x.frames, x.values)
  BY <1>11, <1>14
<1> QED
  BY <1>10, <1>12, <1>15, <1>16 DEF x, rest

(* Basic blocks and allocas are only added.                                *)
LEMMA Grow ==
  ASSUME NEW b \in Nat, NEW v \in Nat, NEW s, NEW i, NEW n, NEW f, NEW m,
         Stack(b, v, s, i, n, f, m), NEW b2 \in Nat, NEW v2 \in Nat, b <= b2, v <= v2
  PROVE  Stack(b2, v2, s, i, n, f, m)
<1>1. PICK h, g : Heights(b, v, s, h, g) /\ h[1] = i /\ g[1] = n
                  /\ \A k \in 1..Len(s) : Spares(s[k], f, m)
  BY DEF Stack
<1>2. 1..b \subseteq 1..b2 /\ 1..v \subseteq 1..v2
  OBVIOUS
<1>3. ASSUME NEW k \in 1..Len(s)
      PROVE  Refers(b2, v2, s[k])
  <2>1. Refers(b, v, s[k])
    BY <1>1 DEF Heights
  <2> DEFINE B == 1..b
             B2 == 1..b2
             V == 1..v
             V2 == 1..v2
  <2>2. B \subseteq B2 /\ V \subseteq V2
    BY <1>2
  <2> QED
    BY <2>1, <2>2 DEF Refers
<1>4. Heights(b2, v2, s, h, g)
  BY <1>1, <1>3 DEF Heights
<1> QED
  BY <1>1, <1>4 DEF Stack

-----------------------------------------------------------------------------
(* The frames: a frame binds the names its own declarations give, the last *)
(* one of each, and has the others from the frame before it.               *)
Own(v)   == Seq([name : Name, var : 1..v])
Scope(v) == [named : [Name -> 0..v], declarations_block : Nat, own : Own(v)]

Decls(own, x) == {i \in 1..Len(own) : own[i].name = x}
Binds(outer, r) ==
  \A x \in Name : r.named[x] = IF Decls(r.own, x) = {} THEN outer[x]
                               ELSE r.own[Max(Decls(r.own, x))].var
Outer(fr, k) == IF k = 1 THEN [x \in Name |-> Undefined] ELSE fr[k - 1].named

Scoped(v, fr) ==
  fr \in Seq(Scope(v)) /\ \A k \in 1..Len(fr) : Binds(Outer(fr, k), fr[k])

LEMMA ScopedCut ==
  ASSUME NEW v, NEW fr, Scoped(v, fr), NEW d \in 0..Len(fr)
  PROVE  /\ Scoped(v, SubSeq(fr, 1, d)) /\ Len(SubSeq(fr, 1, d)) = d
<1> DEFINE u == SubSeq(fr, 1, d)
           S == Scope(v)
<1>1. fr \in Seq(S) /\ \A k \in 1..Len(fr) : Binds(Outer(fr, k), fr[k])
  BY DEF Scoped
<1> HIDE DEF S
<1>2. IsSeq(fr) /\ Len(fr) \in Nat /\ \A k \in 1..Len(fr) : fr[k] \in S
  BY <1>1, SeqIs, ElementOfSeq
<1>3. 1 \in Nat /\ d \in Nat /\ 1 <= 1 /\ 1 <= d + 1 /\ d <= Len(fr) /\ d - 1 + 1 = d
        /\ \A k \in 1..d : 1 + k - 1 = k
  BY <1>2
<1>4. IsSeq(u) /\ Len(u) = d /\ \A k \in 1..d : u[k] = fr[k]
  <2>1. IsSeq(fr) /\ 1 \in Nat /\ d \in Nat /\ 1 <= 1 /\ 1 <= d + 1 /\ d <= Len(fr)
    BY <1>2, <1>3
  <2>2. /\ IsSeq(u) /\ Len(u) = d - 1 + 1
        /\ \A k \in 1..(d - 1 + 1) : u[k] = fr[1 + k - 1]
    BY ONLY <2>1, SubSeqIs
  <2> HIDE DEF u
  <2> QED
    BY ONLY <1>3, <2>2
<1> HIDE DEF u
<1>5. \A k \in 1..d : k \in 1..Len(fr) /\ (k # 1 => k - 1 \in 1..d)
  BY <1>3
<1>6. u \in Seq(S)
  <2>1. u = [k \in 1..d |-> u[k]]
    BY <1>4, ListIs
  <2>2. \A k \in 1..d : u[k] \in S
    BY <1>2, <1>4, <1>5
  <2>3. u \in [1..d -> S]
    BY <2>1, <2>2
  <2> QED
    BY ONLY <1>3, <2>3
<1>7. \A k \in 1..d : Outer(u, k) = Outer(fr, k)
  BY <1>4, <1>5 DEF Outer
<1>8. \A k \in 1..d : Binds(Outer(u, k), u[k])
  BY <1>1, <1>4, <1>5, <1>7
<1>9. Scoped(v, u)
  BY <1>4, <1>6, <1>8 DEF Scoped, S
<1> QED
  BY <1>4, <1>9 DEF u

LEMMA ScopedPush ==
  ASSUME NEW v, NEW fr, Scoped(v, fr), Len(fr) # 0, NEW r \in Scope(v),
         Binds(fr[Len(fr)].named, r)
  PROVE  Scoped(v, Append(fr, r)) /\ Len(Append(fr, r)) = Len(fr) + 1
<1> DEFINE u == Append(fr, r)
           S == Scope(v)
<1>1. fr \in Seq(S) /\ r \in S /\ \A k \in 1..Len(fr) : Binds(Outer(fr, k), fr[k])
  BY DEF Scoped
<1> HIDE DEF S
<1>2. Len(fr) \in Nat /\ Len(fr) >= 1
  <2>1. Len(fr) \in Nat
    BY <1>1, SeqIs
  <2> QED
    BY <2>1
<1>3. u \in Seq(S) /\ Len(u) = Len(fr) + 1 /\ u[Len(fr) + 1] = r
        /\ \A k \in 1..Len(fr) : u[k] = fr[k]
  BY <1>1, AppendProperties
<1> HIDE DEF u
<1>4. ASSUME NEW k \in 1..Len(u)
      PROVE  Binds(Outer(u, k), u[k])
  <2>1. CASE k = Len(fr) + 1
    <3>1. k # 1 /\ k - 1 = Len(fr) /\ Len(fr) \in 1..Len(fr)
      BY <1>2, <2>1
    <3>2. Outer(u, k) = fr[Len(fr)].named
      BY <1>3, <3>1 DEF Outer
    <3> QED
      BY <1>3, <2>1, <3>2
  <2>2. CASE k # Len(fr) + 1
    <3>1. k \in 1..Len(fr) /\ (k # 1 => k - 1 \in 1..Len(fr))
      BY <1>2, <1>3, <2>2
    <3>2. Outer(u, k) = Outer(fr, k)
      BY <1>3, <3>1 DEF Outer
    <3> QED
      BY <1>1, <1>3, <3>1, <3>2
  <2> QED
    BY <2>1, <2>2
<1>5. Scoped(v, u)
  BY <1>3, <1>4 DEF Scoped, S
<1> QED
  BY <1>3, <1>5 DEF u

LEMMA ScopeGrows ==
  ASSUME NEW v \in Nat, NEW v2 \in Nat, v <= v2
  PROVE  Scope(v) \subseteq Scope(v2)
<1> DEFINE A == 0..v
           B == 0..v2
           C == 1..v
           D == 1..v2
<1>1. A \subseteq B /\ C \subseteq D
  OBVIOUS
<1>2. Scope(v) = [named : [Name -> A], declarations_block : Nat, own : Seq([name : Name, var : C])]
  BY DEF Scope, Own
<1>3. Scope(v2) = [named : [Name -> B], declarations_block : Nat, own : Seq([name : Name, var : D])]
  BY DEF Scope, Own
<1> HIDE DEF A, B, C, D
<1>4. [Name -> A] \subseteq [Name -> B]
  BY <1>1
<1> DEFINE P == [name : Name, var : C]
           Q == [name : Name, var : D]
<1>5. P \subseteq Q
  BY <1>1
<1>6. Scope(v) = [named : [Name -> A], declarations_block : Nat, own : Seq(P)]
  BY <1>2
<1>7. Scope(v2) = [named : [Name -> B], declarations_block : Nat, own : Seq(Q)]
  BY <1>3
<1> HIDE DEF P, Q
<1>8. Seq(P) \subseteq Seq(Q)
  BY <1>5
<1> DEFINE E == [Name -> A]
           F == [Name -> B]
           G == Seq(P)
           H == Seq(Q)
<1>9. E \subseteq F /\ G \subseteq H
  BY <1>4, <1>8
<1>10. Scope(v) = [named : E, declarations_block : Nat, own : G]
       /\ Scope(v2) = [named : F, declarations_block : Nat, own : H]
  BY <1>6, <1>7
<1> HIDE DEF E, F, G, H
<1> QED
  BY <1>9, <1>10

LEMMA ScopedGrow ==
  ASSUME NEW v \in Nat, NEW v2 \in Nat, v <= v2, NEW fr, Scoped(v, fr)
  PROVE  Scoped(v2, fr)
<1> DEFINE S == Scope(v)
           S2 == Scope(v2)
<1>1. fr \in Seq(S) /\ S \subseteq S2
  BY ScopeGrows DEF Scoped
<1> HIDE DEF S, S2
<1>2. fr \in Seq(S2)
  BY <1>1
<1> QED
  BY <1>2 DEF Scoped, S2

(* A declaration in the last frame.                                        *)
Declared(fr, x, a) ==
  [fr EXCEPT ![Len(fr)].named[x] = a, ![Len(fr)].own = Append(@, [name |-> x, var |-> a])]

LEMMA ScopedDeclare ==
  ASSUME NEW v \in Nat, NEW fr, Scoped(v, fr), Len(fr) # 0, NEW x \in Name, NEW a \in 1..v
  PROVE  Scoped(v, Declared(fr, x, a)) /\ Len(Declared(fr, x, a)) = Len(fr)
<1> DEFINE fr2 == Declared(fr, x, a)
           n == Len(fr)
           S == Scope(v)
           V == 0..v
           W == 1..v
           e == [name |-> x, var |-> a]
           r == fr[n]
           own2 == Append(r.own, e)
           named2 == [r.named EXCEPT ![x] = a]
           r2 == [[r EXCEPT !.named = named2] EXCEPT !.own = own2]
<1>1. fr \in Seq(S) /\ \A k \in 1..Len(fr) : Binds(Outer(fr, k), fr[k])
  BY DEF Scoped
<1>2. n \in Nat /\ n \in 1..n /\ fr \in [1..n -> S] /\ r \in S
  <2> HIDE DEF S
  <2>1. Len(fr) \in Nat /\ fr \in [1..Len(fr) -> S]
    BY <1>1, LenProperties
  <2>2. Len(fr) \in 1..Len(fr)
    BY <2>1
  <2> QED
    BY <2>1, <2>2
<1>3. fr2 = [fr EXCEPT ![n] = r2]
  <2>1. fr2 = [fr EXCEPT ![n] = [[r EXCEPT !.named = named2] EXCEPT !.own = own2]]
    <3>1. r = [named |-> r.named, declarations_block |-> r.declarations_block, own |-> r.own]
      BY <1>2 DEF Scope
    <3> QED
      BY <1>2, <3>1 DEF Declared
  <2> QED
    BY <2>1
<1>4. r.named \in [Name -> V] /\ r.declarations_block \in Nat /\ r.own \in Own(v)
        /\ r = [named |-> r.named, declarations_block |-> r.declarations_block, own |-> r.own]
  BY <1>2 DEF Scope
<1>5. a \in V /\ a \in W
  OBVIOUS
<1>6. e \in [name : Name, var : W] /\ e.name = x /\ e.var = a
  BY <1>5
<1>7. named2 \in [Name -> V] /\ named2[x] = a /\ \A y \in Name : y # x => named2[y] = r.named[y]
  BY <1>4, <1>5
<1>8. r2 = [named |-> named2, declarations_block |-> r.declarations_block, own |-> own2]
  <2> DEFINE r1 == [r EXCEPT !.named = named2]
  <2> HIDE DEF own2, named2, r
  <2>1. PICK p, d, w : r = [named |-> p, declarations_block |-> d, own |-> w]
    BY <1>4
  <2>2. r1 = [named |-> named2, declarations_block |-> d, own |-> w]
    BY ONLY <2>1
  <2>3. r2 = [r1 EXCEPT !.own = own2]
    OBVIOUS
  <2> HIDE DEF r1, r2
  <2>4. r2 = [named |-> named2, declarations_block |-> d, own |-> own2]
    BY ONLY <2>2, <2>3
  <2>5. d = r.declarations_block
    BY ONLY <2>1
  <2> QED
    BY ONLY <2>4, <2>5
<1> DEFINE E == [name : Name, var : W]
           l == Len(r.own)
<1>9. /\ own2 \in Seq(E) /\ Len(own2) = l + 1 /\ own2[l + 1] = e /\ l \in Nat
      /\ \A k \in 1..l : own2[k] = r.own[k]
  <2>1. r.own \in Seq(E) /\ e \in E
    BY <1>4, <1>6 DEF Own
  <2> HIDE DEF E, e
  <2> QED
    BY <2>1, AppendProperties, LenProperties
<1>10. r2 \in S /\ r2.named = named2 /\ r2.own = own2
  <2>1. own2 \in Own(v)
    BY <1>9 DEF Own
  <2> HIDE DEF own2, named2
  <2> QED
    BY <1>4, <1>7, <1>8, <2>1 DEF Scope
<1> HIDE DEF fr2, n, S, V, W, e, r, own2, named2, r2, E, l
<1>11. /\ fr2 \in [1..n -> S] /\ fr2[n] = r2
       /\ \A k \in 1..n : k # n => fr2[k] = fr[k]
  BY <1>2, <1>3, <1>10
<1>12. fr2 \in Seq(S) /\ Len(fr2) = n
  BY ONLY <1>2, <1>11
<1>13. \A k \in 1..n : Outer(fr2, k) = Outer(fr, k)
  <2> SUFFICES ASSUME NEW k \in 1..n
               PROVE  Outer(fr2, k) = Outer(fr, k)
    OBVIOUS
  <2>1. CASE k = 1
    BY <2>1 DEF Outer
  <2>2. CASE k # 1
    <3>1. k - 1 \in 1..n /\ k - 1 # n
      BY <1>2, <2>2
    <3>2. fr2[k - 1] = fr[k - 1]
      BY <1>11, <3>1
    <3> QED
      BY ONLY <2>2, <3>2 DEF Outer
  <2> QED
    BY <2>1, <2>2
<1>14. Binds(Outer(fr, n), r2)
  <2>1. Binds(Outer(fr, n), r)
    BY <1>1, <1>2 DEF r, n
  <2> SUFFICES ASSUME NEW y \in Name
               PROVE  named2[y] = IF Decls(own2, y) = {} THEN Outer(fr, n)[y]
                                  ELSE own2[Max(Decls(own2, y))].var
    BY <1>10 DEF Binds
  <2>2. CASE y = x
    <3>1. l + 1 \in Decls(own2, y) /\ Decls(own2, y) \in SUBSET Int
            /\ \A q \in Decls(own2, y) : q <= l + 1
      BY <1>6, <1>9, <2>2 DEF Decls
    <3>2. Max(Decls(own2, y)) = l + 1
      BY <3>1, MaxIs
    <3>3. Decls(own2, y) # {}
      BY <3>1
    <3> QED
      BY <1>6, <1>7, <1>9, <2>2, <3>2, <3>3
  <2>3. CASE y # x
    <3>1. Decls(own2, y) = Decls(r.own, y)
      <4>1. \A k \in 1..(l + 1) : k # l + 1 => k \in 1..l
        BY <1>9
      <4>2. \A k \in 1..l : k \in 1..(l + 1)
        BY <1>9
      <4> QED
        BY <1>6, <1>9, <2>3, <4>1, <4>2 DEF Decls, l
    <3>2. r.named[y] = IF Decls(r.own, y) = {} THEN Outer(fr, n)[y]
                       ELSE r.own[Max(Decls(r.own, y))].var
      BY <2>1 DEF Binds
    <3>3. CASE Decls(r.own, y) = {}
      BY <1>7, <2>3, <3>1, <3>2, <3>3
    <3>4. CASE Decls(r.own, y) # {}
      <4>1. Decls(r.own, y) \in SUBSET Int /\ \A q \in Decls(r.own, y) : q <= l
        BY <1>9 DEF Decls, l
      <4>2. Max(Decls(r.own, y)) \in Decls(r.own, y)
        <5> DEFINE D == Decls(r.own, y)
        <5>1. D \in SUBSET Int /\ D # {} /\ l \in Int /\ \A q \in D : q <= l
          BY <1>9, <3>4, <4>1
        <5> HIDE DEF D
        <5>2. Max(D) \in D
          BY ONLY <5>1, GreatestOf
        <5> QED
          BY <5>2 DEF D
      <4>3. Max(Decls(r.own, y)) \in 1..l
        BY <4>2 DEF Decls, l
      <4>4. own2[Max(Decls(r.own, y))] = r.own[Max(Decls(r.own, y))]
        BY <1>9, <4>3
      <4> QED
        BY <1>7, <2>3, <3>1, <3>2, <3>4, <4>4
    <3> QED
      BY <3>3, <3>4
  <2> QED
    BY <2>2, <2>3
<1>15. ASSUME NEW k \in 1..n
       PROVE  Binds(Outer(fr2, k), fr2[k])
  <2>1. CASE k = n
    BY <1>11, <1>13, <1>14, <2>1
  <2>2. CASE k # n
    BY <1>1, <1>11, <1>13, <2>2 DEF n
  <2> QED
    BY <2>1, <2>2
<1> QED
  BY <1>12, <1>15 DEF Scoped, S, n, fr2

(* What the frames bind is what lexical scoping says.                      *)
Meaning(fr, k, x) ==
  LET declaring == {j \in 1..k : Decls(fr[j].own, x) # {}}
      innermost == Max(declaring)
  IN  IF declaring = {} THEN Undefined
      ELSE fr[innermost].own[Max(Decls(fr[innermost].own, x))].var

LEMMA ScopesLexically ==
  ASSUME NEW v, NEW fr, Scoped(v, fr), NEW k \in 1..Len(fr), NEW x \in Name
  PROVE  fr[k].named[x] = Meaning(fr, k, x)
<1> DEFINE N == Len(fr)
           D(j) == Decls(fr[j].own, x)
           declaring(q) == {j \in 1..q : D(j) # {}}
           means(q) == IF declaring(q) = {} THEN Undefined
                       ELSE fr[Max(declaring(q))].own[Max(D(Max(declaring(q))))].var
           Z == {q \in Nat : q \in 1..N => fr[q].named[x] = means(q)}
<1>1. N \in Nat /\ \A j \in 1..N : Binds(Outer(fr, j), fr[j])
  BY SeqIs DEF Scoped
<1>2. ASSUME NEW q \in 1..N
      PROVE  fr[q].named[x] = IF D(q) = {} THEN Outer(fr, q)[x] ELSE fr[q].own[Max(D(q))].var
  BY <1>1 DEF Binds
<1>3. ASSUME NEW q \in 1..N, D(q) # {}
      PROVE  fr[q].named[x] = means(q)
  <2>1. q \in declaring(q) /\ declaring(q) \in SUBSET Int /\ \A j \in declaring(q) : j <= q
    BY <1>1, <1>3
  <2> HIDE DEF declaring
  <2>2. Max(declaring(q)) = q /\ declaring(q) # {}
    BY <2>1, MaxIs
  <2> QED
    BY <1>2, <1>3, <2>2
<1>4. 0 \in Z
  <2>1. ~(0 \in 1..N)
    BY <1>1
  <2> QED
    BY <2>1
<1>5. ASSUME NEW q \in Nat, q \in Z
      PROVE  q + 1 \in Z
  <2>1. q \in 1..N => fr[q].named[x] = means(q)
    BY <1>5
  <2> SUFFICES ASSUME q + 1 \in 1..N
               PROVE  fr[q + 1].named[x] = means(q + 1)
    <3>1. q + 1 \in Nat
      OBVIOUS
    <3> HIDE DEF means
    <3> QED
      BY <3>1
  <2>2. CASE D(q + 1) # {}
    BY <1>3, <2>2
  <2>3. CASE D(q + 1) = {}
    <3>1. declaring(q + 1) = declaring(q)
      <4>1. \A j \in 1..(q + 1) : j = q + 1 \/ j \in 1..q
        OBVIOUS
      <4>2. 1..q \subseteq 1..(q + 1)
        OBVIOUS
      <4> HIDE DEF D
      <4> QED
        BY <2>3, <4>1, <4>2
    <3>2. fr[q + 1].named[x] = Outer(fr, q + 1)[x]
      BY <1>2, <2>3
    <3>3. means(q + 1) = means(q)
      <4> HIDE DEF declaring, D
      <4> QED
        BY <3>1
    <3>4. CASE q = 0
      <4>1. declaring(q) = {}
        BY <3>4
      <4>2. means(q) = Undefined
        BY <4>1
      <4>3. Outer(fr, q + 1) = [y \in Name |-> Undefined]
        <5>1. q + 1 = 1
          BY <3>4
        <5> QED
          BY <5>1 DEF Outer
      <4> HIDE DEF means, declaring
      <4> QED
        BY <3>2, <3>3, <4>2, <4>3
    <3>5. CASE q # 0
      <4>1. q \in 1..N /\ q + 1 # 1 /\ (q + 1) - 1 = q
        BY <1>1, <3>5
      <4>2. Outer(fr, q + 1) = fr[q].named
        BY <4>1 DEF Outer
      <4>3. fr[q].named[x] = means(q)
        BY <2>1, <4>1
      <4> HIDE DEF means, declaring
      <4> QED
        BY <3>2, <3>3, <4>2, <4>3
    <3> QED
      BY <3>4, <3>5
  <2> QED
    BY <2>2, <2>3
<1> HIDE DEF Z
<1>6. Nat \subseteq Z
  BY <1>4, <1>5, Induction
<1>7. k \in Nat
  BY <1>1
<1>8. fr[k].named[x] = means(k)
  BY <1>6, <1>7 DEF Z
<1> QED
  BY <1>8 DEF Meaning

-----------------------------------------------------------------------------
(* Basic blocks: instructions are added to them, and they stay.            *)
Blocks(bs, n) == IsSeq(bs) /\ Len(bs) = n

LEMMA WithIs ==
  ASSUME NEW bs, NEW n, Blocks(bs, n), NEW b, NEW inst
  PROVE  Blocks(With(bs, b, inst), n) /\ Blocks(Inserted(bs, b), n)
<1>1. Len(bs) = n /\ n \in Nat /\ bs = [k \in 1..n |-> bs[k]]
  BY ListIs DEF Blocks
<1> DEFINE c == With(bs, b, inst)
           d == Inserted(bs, b)
<1>2. c = [k \in 1..n |-> c[k]] /\ d = [k \in 1..n |-> d[k]]
  BY <1>1 DEF With, Inserted
<1> HIDE DEF c, d
<1>3. IsSeq(c) /\ Len(c) = n /\ IsSeq(d) /\ Len(d) = n
  BY <1>1, <1>2, MapIs
<1> QED
  BY <1>3 DEF Blocks, c, d

LEMMA AllocatedIs ==
  ASSUME NEW bs, NEW n, Blocks(bs, n), NEW b, NEW v, NEW x
  PROVE  Blocks(Allocated(bs, b, v, x), n)
<1> DEFINE c == With(bs, b, Alloca(v, x))
           i == Poison(v)
<1>1. Blocks(c, n)
  BY WithIs
<1> HIDE DEF c, i
<1>2. Blocks(With(c, b, i), n)
  BY <1>1, WithIs
<1> QED
  BY <1>2 DEF Allocated, c, i

LEMMA ManyIs ==
  ASSUME NEW bs, NEW n, Blocks(bs, n), NEW b, NEW insts
  PROVE  Blocks([bs EXCEPT ![b].insts = @ \o insts], n)
<1>1. Len(bs) = n /\ n \in Nat /\ bs = [k \in 1..n |-> bs[k]]
  BY ListIs DEF Blocks
<1> DEFINE c == [bs EXCEPT ![b].insts = @ \o insts]
<1>2. c = [k \in 1..n |-> c[k]]
  BY <1>1
<1> HIDE DEF c
<1>3. IsSeq(c) /\ Len(c) = n
  BY <1>1, <1>2, MapIs
<1> QED
  BY <1>3 DEF Blocks, c

LEMMA AddThree ==
  ASSUME NEW bs, NEW n, Blocks(bs, n), NEW x, NEW y, NEW z
  PROVE  Blocks(bs \o <<x, y, z>>, n + 3)
<1>1. <<x, y, z>> \in Seq({x, y, z}) /\ Len(<<x, y, z>>) = 3
  OBVIOUS
<1> DEFINE t == <<x, y, z>>
<1> HIDE DEF t
<1>2. IsSeq(t) /\ Len(t) = 3
  BY <1>1, SeqIs DEF t
<1>3. IsSeq(bs \o t) /\ Len(bs \o t) = Len(bs) + Len(t)
  BY <1>2, JoinIs DEF Blocks
<1> QED
  BY <1>2, <1>3 DEF Blocks, t

LEMMA AddTwo ==
  ASSUME NEW bs, NEW n, Blocks(bs, n), NEW x, NEW y
  PROVE  Blocks(bs \o <<x, y>>, n + 2)
<1>1. <<x, y>> \in Seq({x, y}) /\ Len(<<x, y>>) = 2
  OBVIOUS
<1> DEFINE t == <<x, y>>
<1> HIDE DEF t
<1>2. IsSeq(t) /\ Len(t) = 2
  BY <1>1, SeqIs DEF t
<1>3. IsSeq(bs \o t) /\ Len(bs \o t) = Len(bs) + Len(t)
  BY <1>2, JoinIs DEF Blocks
<1> QED
  BY <1>2, <1>3 DEF Blocks, t

-----------------------------------------------------------------------------
(* The values.                                                             *)
LEMMA PoppedIs ==
  ASSUME NEW vs, IsSeq(vs), NEW n \in 0..Len(vs)
  PROVE  IsSeq(SubSeq(vs, 1, n)) /\ Len(SubSeq(vs, 1, n)) = n
<1>1. Len(vs) \in Nat
  BY ListIs
<1>2. 1 \in Nat /\ n \in Nat /\ 1 <= 1 /\ 1 <= n + 1 /\ n <= Len(vs) /\ n - 1 + 1 = n
  BY <1>1
<1> QED
  BY <1>2, SubSeqIs

-----------------------------------------------------------------------------
(* The instructions in front of others, by what they do.                   *)
LEMMA PutPlain ==
  ASSUME NEW b, NEW v, NEW s, NEW i1, NEW n1, NEW f, NEW m, Stack(b, v, s, i1, n1, f, m),
         NEW x, NEW i \in Nat \ {0}, NEW n \in Nat, Moves(x, i, n, i1, n1), Refers(b, v, x),
         f <= i, m <= Low(x, n), x.do # "catch", x.do \notin {"prototypes", "verify"}
  PROVE  Stack(b, v, Cons(x, s), i, n, f, m)
<1>1. Low(x, n) \in Nat /\ Low(x, n) <= n
  BY LowIs
<1>2. f \in Nat /\ m \in Nat
  BY StackIs
<1>3. f <= f /\ m <= m
  BY <1>2
<1>4. Spares(x, f, m)
  BY DEF Spares
<1>5. Follows(x, IF s = <<>> THEN {} ELSE {Head(s).do})
  BY DEF Follows
<1> QED
  BY <1>1, <1>2, <1>3, <1>4, <1>5, Put

LEMMA LowSame ==
  ASSUME NEW x, x.do # "if true", NEW n
  PROVE  Low(x, n) = n
BY DEF Low

LEMMA PutPush ==
  ASSUME NEW b, NEW v, NEW s, NEW i, NEW n \in Nat, NEW f, NEW m,
         Stack(b, v, s, i, n + 1, f, m), m <= n, NEW x, Pushes(x)
  PROVE  Stack(b, v, Cons(x, s), i, n, f, m)
<1>1. Moves(x, i, n, i, n + 1)
  BY DEF Moves
<1>2. x.do \in {"no value", "gen"}
  BY DEF Pushes
<1>3. Refers(b, v, x) /\ x.do # "catch" /\ x.do \notin {"prototypes", "verify"} /\ x.do # "if true"
  BY <1>2 DEF Refers
<1>4. i \in Nat \ {0} /\ f <= i
  BY StackIs
<1>5. m <= Low(x, n)
  BY <1>3, LowSame
<1> QED
  BY <1>1, <1>3, <1>4, <1>5, PutPlain

LEMMA PutKeep ==
  ASSUME NEW b, NEW v, NEW s, NEW i, NEW n, NEW f, NEW m,
         Stack(b, v, s, i, n, f, m), NEW x, Keeps(x), Refers(b, v, x)
  PROVE  Stack(b, v, Cons(x, s), i, n, f, m)
<1>1. Moves(x, i, n, i, n)
  BY DEF Moves
<1>2. x.do \in {"if false", "try each", "define each", "global", "gen", "declare"}
  BY DEF Keeps
<1>3. x.do # "catch" /\ x.do \notin {"prototypes", "verify"} /\ x.do # "if true"
  BY <1>2
<1>4. i \in Nat \ {0} /\ n \in Nat /\ f <= i /\ m <= n
  BY StackIs
<1>5. m <= Low(x, n)
  BY <1>3, <1>4, LowSame
<1> QED
  BY <1>1, <1>3, <1>4, <1>5, PutPlain

LEMMA PutPop ==
  ASSUME NEW b, NEW v, NEW s, NEW i, NEW n, NEW f, NEW m,
         Stack(b, v, s, i, n, f, m), NEW x, Pops(x), Refers(b, v, x)
  PROVE  Stack(b, v, Cons(x, s), i, n + 1, f, m)
<1>1. Moves(x, i, n + 1, i, n)
  BY DEF Moves
<1>2. x.do \in {"drop", "ret", "assign", "loop body", "declare"}
  BY DEF Pops
<1>3. x.do # "catch" /\ x.do \notin {"prototypes", "verify"} /\ x.do # "if true"
  BY <1>2
<1>4. i \in Nat \ {0} /\ n \in Nat /\ f <= i /\ m <= n /\ m \in Nat
  BY StackIs
<1>5. n + 1 \in Nat /\ m <= n + 1
  BY ONLY <1>4
<1>6. m <= Low(x, n + 1)
  BY <1>3, <1>5, LowSame
<1> QED
  BY <1>1, <1>3, <1>4, <1>6, <1>5, PutPlain

LEMMA PutMerge ==
  ASSUME NEW b, NEW v, NEW s, NEW i, NEW n \in Nat, NEW f, NEW m,
         Stack(b, v, s, i, n + 1, f, m), m <= n, NEW x, Merges(x), x.n \in Nat
  PROVE  Stack(b, v, Cons(x, s), i, n + x.n, f, m)
<1>1. Moves(x, i, n + x.n, i, n + 1)
  <2> DEFINE k == x.n
  <2>1. k \in Nat
    OBVIOUS
  <2> HIDE DEF k
  <2>2. n + 1 >= 1 /\ (n + k) + 1 = (n + 1) + k /\ k \in Nat
    BY ONLY n \in Nat, <2>1
  <2> QED
    BY <2>2 DEF Moves, k
<1>2. x.do \in {"operator", "call"}
  BY DEF Merges
<1>3. Refers(b, v, x) /\ x.do # "catch" /\ x.do \notin {"prototypes", "verify"} /\ x.do # "if true"
  BY <1>2 DEF Refers
<1>4. i \in Nat \ {0} /\ f <= i /\ m \in Nat
  BY StackIs
<1>5. n + x.n \in Nat /\ m <= n + x.n
  BY ONLY <1>4, n \in Nat, m <= n, x.n \in Nat
<1>6. m <= Low(x, n + x.n)
  BY <1>3, <1>5, LowSame
<1> QED
  BY <1>1, <1>3, <1>4, <1>6, <1>5, PutPlain

LEMMA PutEach ==
  ASSUME NEW b, NEW v, NEW s, NEW i, NEW n \in Nat, NEW f, NEW m, NEW x,
         Stack(b, v, s, i, n + Len(x.trees), f, m), m <= n,
         x.do = "each", x.trees \in Seq(Exprs)
  PROVE  Stack(b, v, Cons(x, s), i, n, f, m)
<1>1. Moves(x, i, n, i, n + Len(x.trees))
  BY DEF Moves
<1>2. Refers(b, v, x) /\ x.do # "catch" /\ x.do \notin {"prototypes", "verify"} /\ x.do # "if true"
  BY DEF Refers
<1>3. i \in Nat \ {0} /\ f <= i
  BY StackIs
<1>4. m <= Low(x, n)
  BY <1>2, LowSame
<1> QED
  BY <1>1, <1>2, <1>3, <1>4, PutPlain

LEMMA PutIfTrue ==
  ASSUME NEW b, NEW v, NEW s, NEW i, NEW n \in Nat, NEW f, NEW m,
         Stack(b, v, s, i, n + 1, f, m), m <= n,
         NEW x, x.do = "if true", x.tree \in Exprs, x.tree.node = "If"
  PROVE  Stack(b, v, Cons(x, s), i, n + 1, f, m)
<1>1. Moves(x, i, n + 1, i, n + 1)
  <2>1. n + 1 >= 1
    BY ONLY n \in Nat
  <2> QED
    BY <2>1 DEF Moves, Looks
<1>2. Refers(b, v, x) /\ x.do # "catch" /\ x.do \notin {"prototypes", "verify"}
  BY DEF Refers
<1>3. i \in Nat \ {0} /\ f <= i
  BY StackIs
<1>4. n + 1 \in Nat /\ (n + 1) - 1 = n
  BY ONLY n \in Nat
<1>5. Low(x, n + 1) = (n + 1) - 1
  BY DEF Low
<1>6. m <= Low(x, n + 1)
  BY <1>4, <1>5
<1> QED
  BY <1>1, <1>2, <1>3, <1>4, <1>6, PutPlain

LEMMA PutPostWhile ==
  ASSUME NEW b, NEW v, NEW s, NEW i, NEW n \in Nat, NEW f, NEW m,
         Stack(b, v, s, i, n + 1, f, m), NEW x, x.do = "post while", x.post \in 1..b
  PROVE  Stack(b, v, Cons(x, s), i, n + 1, f, m)
<1>1. Moves(x, i, n + 1, i, n + 1)
  <2>1. n + 1 >= 1
    BY ONLY n \in Nat
  <2> QED
    BY <2>1 DEF Moves, Looks
<1>2. Refers(b, v, x) /\ x.do # "catch" /\ x.do \notin {"prototypes", "verify"} /\ x.do # "if true"
  <2> DEFINE B == 1..b
  <2>1. x.post \in B
    OBVIOUS
  <2> QED
    BY <2>1 DEF Refers
<1>3. i \in Nat \ {0} /\ f <= i /\ m <= n + 1 /\ n + 1 \in Nat
  BY StackIs
<1>4. m <= Low(x, n + 1)
  BY <1>2, <1>3, LowSame
<1> QED
  BY <1>1, <1>2, <1>3, <1>4, PutPlain

LEMMA PutPostIf ==
  ASSUME NEW b, NEW v, NEW s, NEW i, NEW n \in Nat, NEW f, NEW m,
         Stack(b, v, s, i, n + 1, f, m), NEW x, x.do = "post if", x.post \in 1..b
  PROVE  Stack(b, v, Cons(x, s), i, (n + 1) + 1, f, m)
<1>1. Moves(x, i, (n + 1) + 1, i, n + 1)
  <2>1. n + 1 >= 1
    BY ONLY n \in Nat
  <2> QED
    BY <2>1 DEF Moves
<1>2. Refers(b, v, x) /\ x.do # "catch" /\ x.do \notin {"prototypes", "verify"} /\ x.do # "if true"
  <2> DEFINE B == 1..b
  <2>1. x.post \in B
    OBVIOUS
  <2> QED
    BY <2>1 DEF Refers
<1>3. i \in Nat \ {0} /\ f <= i /\ m <= n + 1 /\ m \in Nat
  BY StackIs
<1>4. (n + 1) + 1 \in Nat /\ m <= (n + 1) + 1
  BY ONLY <1>3, n \in Nat
<1>5. m <= Low(x, (n + 1) + 1)
  BY <1>2, <1>4, LowSame
<1> QED
  BY <1>1, <1>2, <1>3, <1>5, <1>4, PutPlain

LEMMA PutLeave ==
  ASSUME NEW b, NEW v, NEW s, NEW i, NEW n, NEW f, NEW m, Stack(b, v, s, i, n, f, m),
         NEW x, x.do = "leave block", x.old = i, x.end \in 1..b
  PROVE  Stack(b, v, Cons(x, s), i + 1, n, f, m)
<1>1. Moves(x, i + 1, n, i, n)
  BY DEF Moves
<1>2. Refers(b, v, x) /\ x.do # "catch" /\ x.do \notin {"prototypes", "verify"} /\ x.do # "if true"
  <2> DEFINE B == 1..b
  <2>1. x.end \in B
    OBVIOUS
  <2> QED
    BY <2>1 DEF Refers
<1>3. i \in Nat \ {0} /\ f <= i /\ m <= n /\ n \in Nat /\ f \in Nat
  BY StackIs
<1>4. i + 1 \in Nat \ {0} /\ f <= i + 1
  BY ONLY <1>3
<1>5. m <= Low(x, n)
  BY <1>2, <1>3, LowSame
<1> QED
  BY <1>1, <1>2, <1>3, <1>4, <1>5, PutPlain

LEMMA PutEndFunction ==
  ASSUME NEW b, NEW v, NEW s, NEW i, NEW n, NEW f, NEW m, Stack(b, v, s, i, n, f, m),
         NEW x, x.do = "end function", x.old = i, x.decls \in 1..b
  PROVE  Stack(b, v, Cons(x, s), i + 1, n + 1, f, m)
<1>1. Moves(x, i + 1, n + 1, i, n)
  BY DEF Moves
<1>2. Refers(b, v, x) /\ x.do # "catch" /\ x.do \notin {"prototypes", "verify"} /\ x.do # "if true"
  <2> DEFINE B == 1..b
  <2>1. x.decls \in B
    OBVIOUS
  <2> QED
    BY <2>1 DEF Refers
<1>3. i \in Nat \ {0} /\ f <= i /\ m <= n /\ n \in Nat /\ f \in Nat /\ m \in Nat
  BY StackIs
<1>4. i + 1 \in Nat \ {0} /\ f <= i + 1 /\ n + 1 \in Nat /\ m <= n + 1
  BY ONLY <1>3
<1>5. m <= Low(x, n + 1)
  BY <1>2, <1>4, LowSame
<1> QED
  BY <1>1, <1>2, <1>4, <1>5, PutPlain

LEMMA PutVerify ==
  ASSUME NEW b, NEW v
  PROVE  Stack(b, v, Cons(Then("verify"), <<>>), 2, 0, 1, 0)
<1> DEFINE x == Then("verify")
<1>1. x.do = "verify"
  BY DEF Then
<1> HIDE DEF x
<1>2. Refers(b, v, x) /\ x.do # "if true" /\ Spares(x, 1, 0)
  BY <1>1 DEF Refers, Spares
<1>3. Moves(x, 2, 0, 1, 0)
  BY <1>1 DEF Moves
<1>4. Follows(x, IF <<>> = <<>> THEN {} ELSE {Head(<<>>).do})
  BY <1>1 DEF Follows
<1>5. Low(x, 0) = 0
  BY <1>2, LowSame
<1>6. /\ 1 \in Nat \ {0} /\ 2 \in Nat \ {0} /\ 0 \in Nat /\ 1 \in Nat
      /\ 1 <= 1 /\ 1 <= 2 /\ 0 <= 0
  OBVIOUS
<1>7. Low(x, 0) \in Nat /\ Low(x, 0) <= 0 /\ 0 <= Low(x, 0)
  BY ONLY <1>5, <1>6
<1>8. Stack(b, v, <<>>, 1, 0, 1, 0)
  BY EmptyStack
<1>9. Stack(b, v, Cons(x, <<>>), 2, 0, 1, 0)
  BY ONLY <1>2, <1>3, <1>4, <1>8, <1>6, <1>7, Put
<1> QED
  BY <1>9 DEF x

LEMMA PutPrototypes ==
  ASSUME NEW b, NEW v
  PROVE  Stack(b, v, Cons(Then("prototypes"), <<>>), 1, 0, 1, 0)
<1> DEFINE x == Then("prototypes")
<1>1. x.do = "prototypes"
  BY DEF Then
<1> HIDE DEF x
<1>2. Refers(b, v, x) /\ x.do # "if true" /\ Spares(x, 1, 0)
  BY <1>1 DEF Refers, Spares
<1>3. Moves(x, 1, 0, 1, 0)
  BY <1>1 DEF Moves
<1>4. Follows(x, IF <<>> = <<>> THEN {} ELSE {Head(<<>>).do})
  BY <1>1 DEF Follows
<1>5. Low(x, 0) = 0
  BY <1>2, LowSame
<1>6. 1 \in Nat \ {0} /\ 0 \in Nat /\ 1 \in Nat /\ 1 <= 1 /\ 0 <= 0
  OBVIOUS
<1>7. Low(x, 0) \in Nat /\ Low(x, 0) <= 0 /\ 0 <= Low(x, 0)
  BY ONLY <1>5, <1>6
<1>8. Stack(b, v, <<>>, 1, 0, 1, 0)
  BY EmptyStack
<1>9. Stack(b, v, Cons(x, <<>>), 1, 0, 1, 0)
  BY ONLY <1>2, <1>3, <1>4, <1>8, <1>6, <1>7, Put
<1> QED
  BY <1>9 DEF x

LEMMA PutResultCatch ==
  ASSUME NEW b, NEW v, NEW s, NEW i, NEW n \in Nat, NEW f, NEW m,
         Stack(b, v, s, i, n + 1, f, m), m <= n, s # <<>>, Head(s).do = "leave block",
         NEW x, x.do = "catch", x.of = "result", x.frames = i, x.values = n
  PROVE  Stack(b, v, Cons(x, s), i, n + 1, i, n)
<1>1. Moves(x, i, n + 1, i, n + 1)
  BY DEF Moves
<1>2. Refers(b, v, x) /\ x.do # "if true"
  BY DEF Refers
<1>3. Follows(x, IF s = <<>> THEN {} ELSE {Head(s).do})
  BY DEF Follows
<1>4. i \in Nat \ {0} /\ f <= i /\ i \in Nat /\ f \in Nat /\ m \in Nat
  BY StackIs
<1>5. n + 1 \in Nat /\ i <= i /\ n <= n + 1 /\ n <= n /\ n + 1 <= n + 1
  BY ONLY <1>4, n \in Nat
<1>6. Low(x, n + 1) = n + 1
  BY <1>2, LowSame
<1>7. Spares(x, i, n)
  BY <1>4, <1>5 DEF Spares
<1> DEFINE k == n + 1
<1>8. /\ Stack(b, v, s, i, k, f, m) /\ Moves(x, i, k, i, k)
      /\ Low(x, k) = k /\ k \in Nat /\ n <= k /\ k <= k /\ m <= n
  BY <1>1, <1>5, <1>6
<1> HIDE DEF k
<1>9. Stack(b, v, Cons(x, s), i, k, i, n)
  <2>1. Low(x, k) \in Nat /\ Low(x, k) <= k /\ n <= Low(x, k)
    BY ONLY <1>8
  <2> QED
    BY ONLY <1>2, <1>3, <1>4, <1>5, <1>7, <1>8, <2>1, n \in Nat, Put
<1> QED
  BY <1>9 DEF k

LEMMA PutCatch ==
  ASSUME NEW b, NEW v, NEW s, NEW i, NEW n, NEW f, NEW m, Stack(b, v, s, i, n, f, m),
         NEW x, x.do = "catch", x.of # "result", x.frames = i, x.values = n
  PROVE  Stack(b, v, Cons(x, s), i, n, i, n)
<1>1. Moves(x, i, n, i, n)
  BY DEF Moves
<1>2. Refers(b, v, x) /\ x.do # "if true"
  BY DEF Refers
<1>3. Follows(x, IF s = <<>> THEN {} ELSE {Head(s).do})
  BY DEF Follows
<1>4. i \in Nat \ {0} /\ f <= i /\ i \in Nat /\ f \in Nat /\ m \in Nat /\ n \in Nat /\ m <= n
  BY StackIs
<1>5. i <= i /\ n <= n
  BY <1>4
<1>6. Low(x, n) = n
  BY <1>2, LowSame
<1>7. Spares(x, i, n)
  BY <1>4, <1>5 DEF Spares
<1>8. Stack(b, v, s, i, n, f, m) /\ Low(x, n) \in Nat /\ Low(x, n) <= n /\ n <= Low(x, n)
  BY <1>4, <1>5, <1>6
<1> QED
  BY ONLY <1>1, <1>2, <1>3, <1>4, <1>5, <1>7, <1>8, Put

-----------------------------------------------------------------------------
(* What the instructions say of the stack, by what they do.                *)
LEMMA MovesGen ==
  ASSUME NEW x, NEW i, NEW n, NEW i1, NEW n1, Moves(x, i, n, i1, n1), x.do = "gen"
  PROVE  /\ x.tree \in Trees /\ i1 = i
         /\ \/ x.tree.node \in ExprNode /\ n1 = n + 1
            \/ x.tree.node \in StmtNode \union {"Fn"} /\ n1 = n
BY DEF Moves, Pushes, Keeps, Pops, Looks, Merges, Exprs

LEMMA MovesPop ==
  ASSUME NEW x, NEW i, NEW n, NEW i1, NEW n1, Moves(x, i, n, i1, n1),
         x.do \in {"drop", "ret", "assign", "loop body"}
  PROVE  i1 = i /\ n = n1 + 1
BY DEF Moves, Pushes, Keeps, Pops, Looks, Merges

LEMMA MovesKeep ==
  ASSUME NEW x, NEW i, NEW n, NEW i1, NEW n1, Moves(x, i, n, i1, n1),
         x.do \in {"if false", "try each", "define each", "global"}
  PROVE  i1 = i /\ n = n1
BY DEF Moves, Pushes, Keeps, Pops, Looks, Merges

LEMMA MovesDeclare ==
  ASSUME NEW x, NEW i, NEW n, NEW i1, NEW n1, Moves(x, i, n, i1, n1), x.do = "declare"
  PROVE  i1 = i /\ (x.has_value => n = n1 + 1) /\ (~x.has_value => n = n1)
BY DEF Moves, Pushes, Keeps, Pops, Looks, Merges

LEMMA MovesLook ==
  ASSUME NEW x, NEW i, NEW n, NEW i1, NEW n1, Moves(x, i, n, i1, n1),
         x.do \in {"if true", "post while"}
  PROVE  i1 = i /\ n = n1 /\ n >= 1
BY DEF Moves, Pushes, Keeps, Pops, Looks, Merges

LEMMA MovesMerge ==
  ASSUME NEW x, NEW i, NEW n, NEW i1, NEW n1, Moves(x, i, n, i1, n1),
         x.do \in {"operator", "call"}
  PROVE  i1 = i /\ x.n \in Nat /\ n1 >= 1 /\ n + 1 = n1 + x.n
BY DEF Moves, Pushes, Keeps, Pops, Looks, Merges

LEMMA MovesNoValue ==
  ASSUME NEW x, NEW i, NEW n, NEW i1, NEW n1, Moves(x, i, n, i1, n1), x.do = "no value"
  PROVE  i1 = i /\ n1 = n + 1
BY DEF Moves, Pushes, Keeps, Pops, Looks, Merges

LEMMA MovesEach ==
  ASSUME NEW x, NEW i, NEW n, NEW i1, NEW n1, Moves(x, i, n, i1, n1), x.do = "each"
  PROVE  i1 = i /\ n1 = n + Len(x.trees)
BY DEF Moves, Pushes, Keeps, Pops, Looks, Merges

LEMMA MovesPostIf ==
  ASSUME NEW x, NEW i, NEW n, NEW i1, NEW n1, Moves(x, i, n, i1, n1), x.do = "post if"
  PROVE  i1 = i /\ n1 >= 1 /\ n = n1 + 1
BY DEF Moves, Pushes, Keeps, Pops, Looks, Merges

LEMMA MovesLeave ==
  ASSUME NEW x, NEW i, NEW n, NEW i1, NEW n1, Moves(x, i, n, i1, n1), x.do = "leave block"
  PROVE  i = i1 + 1 /\ n1 = n /\ x.old = i1
BY DEF Moves, Pushes, Keeps, Pops, Looks, Merges

LEMMA MovesEndFunction ==
  ASSUME NEW x, NEW i, NEW n, NEW i1, NEW n1, Moves(x, i, n, i1, n1), x.do = "end function"
  PROVE  i = i1 + 1 /\ n = n1 + 1 /\ x.old = i1
BY DEF Moves, Pushes, Keeps, Pops, Looks, Merges

LEMMA MovesPrototypes ==
  ASSUME NEW x, NEW i, NEW n, NEW i1, NEW n1, Moves(x, i, n, i1, n1), x.do = "prototypes"
  PROVE  i = 1 /\ i1 = i /\ n1 = n
BY DEF Moves, Pushes, Keeps, Pops, Looks, Merges

LEMMA MovesVerify ==
  ASSUME NEW x, NEW i, NEW n, NEW i1, NEW n1, Moves(x, i, n, i1, n1), x.do = "verify"
  PROVE  i = 2 /\ i1 = 1 /\ n1 = n
BY DEF Moves, Pushes, Keeps, Pops, Looks, Merges

LEMMA MovesCatch ==
  ASSUME NEW x, NEW i, NEW n, NEW i1, NEW n1, Moves(x, i, n, i1, n1), x.do = "catch"
  PROVE  i1 = i /\ n1 = n
BY DEF Moves, Pushes, Keeps, Pops, Looks, Merges

(* The children of a node.                                                 *)
LEMMA KidsAre ==
  ASSUME NEW t \in Trees
  PROVE  /\ t.node # "Block" => t.kids \in Seq(Exprs)
         /\ t.node = "Block" => t.kids \in Seq(Stmts)
         /\ t.node = "Block" => t.result = <<>> \/ \E e \in Exprs : t.result = <<e>>
         /\ t.node \in {"VarRef", "Call", "Let", "Fn"} => t.name \in Name
         /\ t.node \in {"ExprStmt", "Return", "Fn"} => Len(t.kids) = 1
         /\ t.node \in {"Assign", "While"} => Len(t.kids) = 2
         /\ t.node = "If" => Len(t.kids) \in {2, 3}
         /\ t.node = "Let" => Len(t.kids) \in {0, 1}
         /\ t.node = "Fn" => t.params \in Seq(Name)
BY TreesAssumption

LEMMA KidIs ==
  ASSUME NEW t \in Trees, t.node # "Block", NEW k \in Nat, 1 <= k, k <= Len(t.kids)
  PROVE  t.kids[k] \in Exprs
<1> DEFINE s == t.kids
           E == Exprs
<1>1. s \in Seq(E)
  BY KidsAre
<1>2. k <= Len(s)
  OBVIOUS
<1> HIDE DEF s, E
<1>3. s[k] \in E
  BY ONLY <1>1, <1>2, k \in Nat, 1 <= k, ElementOfSeq
<1> QED
  BY <1>3 DEF s, E

LEMMA GenPushes ==
  ASSUME NEW e \in Exprs
  PROVE  Pushes(Gen(e))
BY DEF Pushes, Gen

LEMMA GenKeeps ==
  ASSUME NEW t \in Trees, t.node \in StmtNode \union {"Fn"}, NEW b, NEW v
  PROVE  Keeps(Gen(t)) /\ Refers(b, v, Gen(t))
<1>1. Gen(t).do = "gen" /\ Gen(t).tree = t
  BY DEF Gen
<1> DEFINE x == Gen(t)
<1> HIDE DEF x
<1>2. x.do = "gen" /\ x.tree = t
  BY <1>1 DEF x
<1>3. Keeps(x) /\ Refers(b, v, x)
  BY <1>2 DEF Keeps, Refers
<1> QED
  BY <1>3 DEF x

-----------------------------------------------------------------------------
(* The inductive invariant.                                                *)
Counted ==
  /\ program \in Programs
  /\ functions \in [Name -> Int] /\ generated \subseteq Name /\ globals \subseteq Name
  /\ errors \in 0..MaxErrors /\ warnings \in 0..MaxErrors

Built ==
  /\ IsSeq(blocks) /\ ip \in 0..Len(blocks) /\ n_allocas \in Nat
  /\ IsSeq(values) /\ Scoped(n_allocas, frames)
  /\ Len(frames) \in 1..(Len(blocks) + 2) /\ state \in 1..(Len(blocks) + 2)

(* The stacks are in step with what is still to be done.                   *)
Balanced ==
  \E f, m : Stack(Len(blocks), n_allocas, todo, Len(frames), Len(values), f, m)

(* Only an exception that gave up the result of a block leaves the State   *)
(* of an inner block behind, and then the block is left at once.           *)
Alive == state = Len(frames) \/ (todo # <<>> /\ Instr.do = "leave block")

Runs  == outcome = "running"
Ended == todo = <<>> /\ values = <<>> /\ Len(frames) = 1

IInv ==
  /\ Counted /\ Built /\ outcome \in Outcomes
  /\ Runs => Balanced /\ Alive
  /\ outcome \in {"done", "could not compile"} => Ended

LEMMA Facts ==
  ASSUME IInv
  PROVE  /\ Len(blocks) \in Nat /\ n_allocas \in Nat /\ Len(values) \in Nat
         /\ Len(frames) \in Nat \ {0} /\ IsSeq(values)
         /\ Blocks(blocks, Len(blocks)) /\ ip \in 0..Len(blocks)
         /\ Scoped(n_allocas, frames) /\ MaxErrors \in Nat \ {0}
<1>1. /\ IsSeq(blocks) /\ ip \in 0..Len(blocks) /\ n_allocas \in Nat
      /\ IsSeq(values) /\ Scoped(n_allocas, frames)
      /\ Len(frames) \in 1..(Len(blocks) + 2)
  BY DEF IInv, Built
<1>2. Len(blocks) \in Nat
  BY <1>1, ListIs
<1>3. Len(values) \in Nat
  <2> QED
    BY <1>1, ListIs
<1>4. Len(frames) \in Nat \ {0}
  BY ONLY <1>1, <1>2
<1> QED
  BY <1>1, <1>2, <1>3, <1>4, MaxErrorsAssumption DEF Blocks

LEMMA OneMoreIs ==
  ASSUME NEW n \in 0..MaxErrors
  PROVE  OneMore(n) \in 0..MaxErrors
<1>1. MaxErrors \in Nat
  BY MaxErrorsAssumption
<1>2. CASE n < MaxErrors
  BY <1>1, <1>2 DEF OneMore
<1>3. CASE ~(n < MaxErrors)
  BY <1>1, <1>3 DEF OneMore
<1> QED
  BY <1>2, <1>3

(* What is known when an instruction is about to be done.                  *)
LEMMA Running ==
  ASSUME IInv, NEW what, Doing(what)
  PROVE  /\ Runs /\ Instr.do = what /\ IsSeq(Tail(todo)) /\ todo # <<>>
         /\ Refers(Len(blocks), n_allocas, Instr)
         /\ Follows(Instr, IF Tail(todo) = <<>> THEN {} ELSE {Head(Tail(todo)).do})
         /\ what # "leave block" => state = Len(frames)
         /\ \E i1 \in Nat \ {0}, n1, f1, m1 \in Nat :
              /\ Moves(Instr, Len(frames), Len(values), i1, n1)
              /\ Stack(Len(blocks), n_allocas, Tail(todo), i1, n1, f1, m1)
              /\ f1 <= Len(frames) /\ m1 <= Low(Instr, Len(values))
<1>1. Runs /\ todo # <<>> /\ Instr.do = what
  BY DEF Doing, Runs
<1>2. Balanced /\ Alive
  BY <1>1 DEF IInv
<1>3. PICK f, m : Stack(Len(blocks), n_allocas, todo, Len(frames), Len(values), f, m)
  BY <1>2 DEF Balanced
<1>4. /\ Refers(Len(blocks), n_allocas, Instr)
      /\ Follows(Instr, IF Tail(todo) = <<>> THEN {} ELSE {Head(Tail(todo)).do})
      /\ \E i1 \in Nat \ {0}, n1, f1, m1 \in Nat :
           /\ Moves(Instr, Len(frames), Len(values), i1, n1)
           /\ Stack(Len(blocks), n_allocas, Tail(todo), i1, n1, f1, m1)
           /\ f1 <= Len(frames) /\ m1 <= Low(Instr, Len(values))
  BY <1>1, <1>3, Done DEF Instr
<1>5. IsSeq(Tail(todo))
  BY <1>4, StackIs
<1>6. what # "leave block" => state = Len(frames)
  BY <1>1, <1>2 DEF Alive
<1> QED
  BY <1>1, <1>4, <1>5, <1>6

(* ... of the code of an expression.                                       *)
LEMMA AtExpr ==
  ASSUME IInv, NEW node \in ExprNode, Generating(node)
  PROVE  /\ Runs /\ T \in Trees /\ T.node = node /\ IsSeq(Tail(todo))
         /\ state = Len(frames)
         /\ \E f, m \in Nat :
              /\ Stack(Len(blocks), n_allocas, Tail(todo), Len(frames), Len(values) + 1, f, m)
              /\ m <= Len(values)
<1>1. Doing("gen") /\ T.node = node
  BY DEF Generating, T
<1>2. /\ Runs /\ Instr.do = "gen" /\ IsSeq(Tail(todo)) /\ state = Len(frames)
      /\ \E i1 \in Nat \ {0}, n1, f1, m1 \in Nat :
           /\ Moves(Instr, Len(frames), Len(values), i1, n1)
           /\ Stack(Len(blocks), n_allocas, Tail(todo), i1, n1, f1, m1)
           /\ f1 <= Len(frames) /\ m1 <= Low(Instr, Len(values))
  <2> DEFINE what == "gen"
  <2>1. what # "leave block" /\ Doing(what)
    BY <1>1
  <2> HIDE DEF what
  <2>2. /\ Runs /\ Instr.do = what /\ IsSeq(Tail(todo)) /\ state = Len(frames)
        /\ \E i1 \in Nat \ {0}, n1, f1, m1 \in Nat :
             /\ Moves(Instr, Len(frames), Len(values), i1, n1)
             /\ Stack(Len(blocks), n_allocas, Tail(todo), i1, n1, f1, m1)
             /\ f1 <= Len(frames) /\ m1 <= Low(Instr, Len(values))
    BY ONLY IInv, <2>1, Running
  <2> QED
    BY <2>2 DEF what
<1>3. PICK i1, n1, f1 \in Nat, m1 \in Nat :
           /\ Moves(Instr, Len(frames), Len(values), i1, n1)
           /\ Stack(Len(blocks), n_allocas, Tail(todo), i1, n1, f1, m1)
           /\ m1 <= Low(Instr, Len(values))
  BY <1>2
<1>4. T \in Trees /\ i1 = Len(frames) /\ n1 = Len(values) + 1
  BY <1>1, <1>2, <1>3, MovesGen DEF T, ExprNode, StmtNode
<1>5. m1 <= Len(values)
  BY <1>2, <1>3, LowSame
<1> QED
  BY <1>1, <1>2, <1>3, <1>4, <1>5

(* ... of a statement or a function.                                       *)
LEMMA AtStmt ==
  ASSUME IInv, NEW node \in StmtNode \union {"Fn"}, Generating(node)
  PROVE  /\ Runs /\ T \in Trees /\ T.node = node /\ IsSeq(Tail(todo)) /\ state = Len(frames)
         /\ \E f, m \in Nat :
              Stack(Len(blocks), n_allocas, Tail(todo), Len(frames), Len(values), f, m)
<1>1. Doing("gen") /\ T.node = node
  BY DEF Generating, T
<1>2. /\ Runs /\ Instr.do = "gen" /\ IsSeq(Tail(todo)) /\ state = Len(frames)
      /\ \E i1 \in Nat \ {0}, n1, f1, m1 \in Nat :
           /\ Moves(Instr, Len(frames), Len(values), i1, n1)
           /\ Stack(Len(blocks), n_allocas, Tail(todo), i1, n1, f1, m1)
           /\ f1 <= Len(frames) /\ m1 <= Low(Instr, Len(values))
  <2> DEFINE what == "gen"
  <2>1. what # "leave block" /\ Doing(what)
    BY <1>1
  <2> HIDE DEF what
  <2>2. /\ Runs /\ Instr.do = what /\ IsSeq(Tail(todo)) /\ state = Len(frames)
        /\ \E i1 \in Nat \ {0}, n1, f1, m1 \in Nat :
             /\ Moves(Instr, Len(frames), Len(values), i1, n1)
             /\ Stack(Len(blocks), n_allocas, Tail(todo), i1, n1, f1, m1)
             /\ f1 <= Len(frames) /\ m1 <= Low(Instr, Len(values))
    BY ONLY IInv, <2>1, Running
  <2> QED
    BY <2>2 DEF what
<1>3. PICK i1 \in Nat \ {0}, n1, f1, m1 \in Nat :
           /\ Moves(Instr, Len(frames), Len(values), i1, n1)
           /\ Stack(Len(blocks), n_allocas, Tail(todo), i1, n1, f1, m1)
           /\ f1 <= Len(frames) /\ m1 <= Low(Instr, Len(values))
  BY <1>2
<1>4. T \in Trees /\ i1 = Len(frames) /\ n1 = Len(values)
  BY <1>1, <1>2, <1>3, MovesGen, SMTT(30) DEF T, ExprNode, StmtNode
<1>5. Stack(Len(blocks), n_allocas, Tail(todo), Len(frames), Len(values), f1, m1)
  BY <1>3, <1>4
<1> QED
  BY <1>1, <1>2, <1>4, <1>5

(* ... with the value on top.                                              *)
LEMMA AtPop ==
  ASSUME IInv, NEW what \in {"drop", "ret", "assign", "loop body"}, Doing(what)
  PROVE  /\ Runs /\ IsSeq(Tail(todo)) /\ state = Len(frames)
         /\ Refers(Len(blocks), n_allocas, Instr) /\ Instr.do = what
         /\ \E n, f, m \in Nat :
              /\ Stack(Len(blocks), n_allocas, Tail(todo), Len(frames), n, f, m)
              /\ Len(values) = n + 1
<1>1. /\ Runs /\ Instr.do = what /\ IsSeq(Tail(todo)) /\ state = Len(frames)
      /\ Refers(Len(blocks), n_allocas, Instr)
      /\ \E i1 \in Nat \ {0}, n1, f1, m1 \in Nat :
           /\ Moves(Instr, Len(frames), Len(values), i1, n1)
           /\ Stack(Len(blocks), n_allocas, Tail(todo), i1, n1, f1, m1)
           /\ f1 <= Len(frames) /\ m1 <= Low(Instr, Len(values))
  BY Running
<1>2. PICK i1, n1 \in Nat, f1 \in Nat, m1 \in Nat :
           /\ Moves(Instr, Len(frames), Len(values), i1, n1)
           /\ Stack(Len(blocks), n_allocas, Tail(todo), i1, n1, f1, m1)
  BY <1>1
<1>3. i1 = Len(frames) /\ Len(values) = n1 + 1
  BY <1>1, <1>2, MovesPop
<1> QED
  BY <1>1, <1>2, <1>3

LEMMA AtKeep ==
  ASSUME IInv, NEW what \in {"if false", "try each", "define each", "global"}, Doing(what)
  PROVE  /\ Runs /\ IsSeq(Tail(todo)) /\ state = Len(frames)
         /\ Refers(Len(blocks), n_allocas, Instr) /\ Instr.do = what
         /\ \E f, m \in Nat :
              Stack(Len(blocks), n_allocas, Tail(todo), Len(frames), Len(values), f, m)
<1>1. /\ Runs /\ Instr.do = what /\ IsSeq(Tail(todo)) /\ state = Len(frames)
      /\ Refers(Len(blocks), n_allocas, Instr)
      /\ \E i1 \in Nat \ {0}, n1, f1, m1 \in Nat :
           /\ Moves(Instr, Len(frames), Len(values), i1, n1)
           /\ Stack(Len(blocks), n_allocas, Tail(todo), i1, n1, f1, m1)
           /\ f1 <= Len(frames) /\ m1 <= Low(Instr, Len(values))
  BY Running
<1>2. PICK i1, n1 \in Nat, f1 \in Nat, m1 \in Nat :
           /\ Moves(Instr, Len(frames), Len(values), i1, n1)
           /\ Stack(Len(blocks), n_allocas, Tail(todo), i1, n1, f1, m1)
  BY <1>1
<1>3. i1 = Len(frames) /\ Len(values) = n1
  BY <1>1, <1>2, MovesKeep
<1> QED
  BY <1>1, <1>2, <1>3

LEMMA AtLook ==
  ASSUME IInv, NEW what \in {"if true", "post while"}, Doing(what)
  PROVE  /\ Runs /\ IsSeq(Tail(todo)) /\ state = Len(frames)
         /\ Refers(Len(blocks), n_allocas, Instr) /\ Instr.do = what
         /\ \E f, m \in Nat :
              /\ Stack(Len(blocks), n_allocas, Tail(todo), Len(frames), Len(values), f, m)
              /\ m <= Low(Instr, Len(values))
         /\ Len(values) >= 1
<1>1. /\ Runs /\ Instr.do = what /\ IsSeq(Tail(todo)) /\ state = Len(frames)
      /\ Refers(Len(blocks), n_allocas, Instr)
      /\ \E i1 \in Nat \ {0}, n1, f1, m1 \in Nat :
           /\ Moves(Instr, Len(frames), Len(values), i1, n1)
           /\ Stack(Len(blocks), n_allocas, Tail(todo), i1, n1, f1, m1)
           /\ f1 <= Len(frames) /\ m1 <= Low(Instr, Len(values))
  BY Running
<1>2. PICK i1, n1 \in Nat, f1 \in Nat, m1 \in Nat :
           /\ Moves(Instr, Len(frames), Len(values), i1, n1)
           /\ Stack(Len(blocks), n_allocas, Tail(todo), i1, n1, f1, m1)
           /\ m1 <= Low(Instr, Len(values))
  BY <1>1
<1>3. i1 = Len(frames) /\ Len(values) = n1 /\ Len(values) >= 1
  BY <1>1, <1>2, MovesLook
<1> QED
  BY <1>1, <1>2, <1>3

LEMMA AtMerge ==
  ASSUME IInv, NEW what \in {"operator", "call"}, Doing(what)
  PROVE  /\ Runs /\ IsSeq(Tail(todo)) /\ state = Len(frames) /\ Instr.n \in Nat
         /\ \E n, f, m \in Nat :
              /\ Stack(Len(blocks), n_allocas, Tail(todo), Len(frames), n, f, m)
              /\ n >= 1 /\ Len(values) + 1 = n + Instr.n
<1>1. /\ Runs /\ Instr.do = what /\ IsSeq(Tail(todo)) /\ state = Len(frames)
      /\ \E i1 \in Nat \ {0}, n1, f1, m1 \in Nat :
           /\ Moves(Instr, Len(frames), Len(values), i1, n1)
           /\ Stack(Len(blocks), n_allocas, Tail(todo), i1, n1, f1, m1)
           /\ f1 <= Len(frames) /\ m1 <= Low(Instr, Len(values))
  BY Running
<1>2. PICK i1, n1 \in Nat, f1 \in Nat, m1 \in Nat :
           /\ Moves(Instr, Len(frames), Len(values), i1, n1)
           /\ Stack(Len(blocks), n_allocas, Tail(todo), i1, n1, f1, m1)
  BY <1>1
<1>3. i1 = Len(frames) /\ Instr.n \in Nat /\ n1 >= 1 /\ Len(values) + 1 = n1 + Instr.n
  BY <1>1, <1>2, MovesMerge
<1> QED
  BY <1>1, <1>2, <1>3

-----------------------------------------------------------------------------
(* How a step keeps the invariant.                                         *)
LEMMA Onward ==
  ASSUME Runs, UNCHANGED outcome, Counted', Built', Balanced', state' = Len(frames')
  PROVE  IInv'
<1>1. outcome' = "running" /\ Runs'
  BY DEF Runs
<1>2. Alive'
  BY DEF Alive
<1>3. outcome' \in Outcomes /\ outcome' \notin {"done", "could not compile"}
  BY <1>1 DEF Outcomes
<1> QED
  BY <1>2, <1>3 DEF IInv

LEMMA CountedSame ==
  ASSUME IInv, SameRest
  PROVE  Counted' /\ UNCHANGED outcome
BY DEF IInv, Counted, SameRest, SameNames

(* A step that stays in its scope.                                         *)
LEMMA Straight ==
  ASSUME IInv, Runs, UNCHANGED outcome, Counted', SameScope, UNCHANGED n_allocas,
         state = Len(frames), Blocks(blocks', Len(blocks)), ip' \in 0..Len(blocks),
         IsSeq(values'), NEW n, Len(values') = n, NEW f, NEW m,
         Stack(Len(blocks), n_allocas, todo', Len(frames), n, f, m)
  PROVE  IInv'
<1>1. /\ n_allocas \in Nat /\ Scoped(n_allocas, frames)
      /\ Len(frames) \in 1..(Len(blocks) + 2) /\ state \in 1..(Len(blocks) + 2)
  BY DEF IInv, Built
<1>2. frames' = frames /\ state' = state
  BY DEF SameScope
<1>3. IsSeq(blocks') /\ Len(blocks') = Len(blocks)
  BY DEF Blocks
<1>4. Built'
  BY <1>1, <1>2, <1>3 DEF Built
<1>5. Balanced'
  BY <1>2, <1>3 DEF Balanced
<1> QED
  BY <1>2, <1>4, <1>5, Onward

LEMMA CrashKeeps ==
  ASSUME IInv, NEW why \in Outcomes \ {"running", "done", "could not compile"}, Crash(why)
  PROVE  IInv'
<1>1. /\ outcome' = why /\ program' = program /\ todo' = todo /\ values' = values
      /\ frames' = frames /\ state' = state /\ functions' = functions
      /\ generated' = generated /\ globals' = globals /\ blocks' = blocks /\ ip' = ip
      /\ n_allocas' = n_allocas /\ errors' = errors /\ warnings' = warnings
  BY DEF Crash, module
<1>2. Counted' /\ Built'
  BY <1>1 DEF IInv, Counted, Built
<1>3. ~Runs' /\ outcome' \in Outcomes /\ outcome' \notin {"done", "could not compile"}
  BY <1>1 DEF Runs
<1> QED
  BY <1>2, <1>3 DEF IInv

(* The exception goes on at the first catch that follows.                  *)
LEMMA ThrowKeeps ==
  ASSUME IInv, Runs, Throw
  PROVE  IInv'
<1> DEFINE catches == {k \in 2..Len(todo) : todo[k].do = "catch"}
           k == Min(catches)
           c == todo[k]
           rest == SubSeq(todo, k + 1, Len(todo))
           left == SubSeq(values, 1, c.values)
<1>1. CASE catches = {}
  <2>1. Crash("uncaught")
    BY <1>1 DEF Throw
  <2> QED
    BY <2>1, CrashKeeps DEF Outcomes
<1>2. CASE catches # {}
  <2>1. /\ todo' = rest
        /\ values' = left \o (IF c.of = "result" THEN <<Null>> ELSE <<>>)
        /\ frames' = SubSeq(frames, 1, c.frames)
        /\ state' = IF c.of = "result" THEN state ELSE c.frames
        /\ errors' = OneMore(errors)
        /\ UNCHANGED <<program, outcome, module, warnings>>
    BY <1>2 DEF Throw
  <2>2. PICK f, m : Stack(Len(blocks), n_allocas, todo, Len(frames), Len(values), f, m)
    BY DEF IInv, Balanced
  <2>3. Len(todo) \in Nat
    BY <2>2, StackIs
  <2>4. k \in catches
    <3>1. catches \in SUBSET Int /\ \A x \in catches : 2 <= x
      OBVIOUS
    <3> HIDE DEF catches
    <3> QED
      BY <1>2, <3>1, LeastOf
  <2>5. k \in 1..Len(todo) /\ todo[k].do = "catch"
    <3>1. k \in 2..Len(todo) /\ todo[k].do = "catch"
      BY <2>4
    <3> HIDE DEF k
    <3>2. k \in 1..Len(todo)
      BY ONLY <2>3, <3>1
    <3> QED
      BY <3>1, <3>2
  <2> HIDE DEF catches, k
  <2>6. /\ c.frames \in 1..Len(frames) /\ c.values \in 0..Len(values)
        /\ c.of = "result" =>
             /\ Stack(Len(blocks), n_allocas, rest, c.frames, c.values + 1, c.frames, c.values + 1)
             /\ rest # <<>> /\ Head(rest).do = "leave block"
        /\ c.of # "result" =>
             Stack(Len(blocks), n_allocas, rest, c.frames, c.values, c.frames, c.values)
    BY ONLY <2>2, <2>5, AtCatch
  <2> HIDE DEF c, rest
  <2>7. IsSeq(left) /\ Len(left) = c.values
    BY <2>6, Facts, PoppedIs
  <2>8. c.frames \in 0..Len(frames) /\ c.frames \in 1..(Len(blocks) + 2)
    <3>1. Len(frames) \in 1..(Len(blocks) + 2) /\ Len(blocks) \in Nat
      BY Facts DEF IInv, Built
    <3>2. c.frames \in 1..Len(frames)
      BY <2>6
    <3> QED
      BY ONLY <3>1, <3>2
  <2>9. Scoped(n_allocas, frames') /\ Len(frames') = c.frames
    BY <2>1, <2>8, Facts, ScopedCut
  <2> HIDE DEF left
  <2>10. Counted'
    BY <2>1, OneMoreIs DEF IInv, Counted, module
  <2>11. IsSeq(blocks') /\ ip' \in 0..Len(blocks') /\ n_allocas' \in Nat
           /\ n_allocas' = n_allocas /\ blocks' = blocks
    BY <2>1 DEF IInv, Built, module
  <2>12. CASE c.of = "result"
    <3>1. values' = left \o <<Null>> /\ state' = state
      BY <2>1, <2>12
    <3>2. values' = Append(left, Null)
      <4> DEFINE w == Null
      <4>1. values' = left \o <<w>>
        BY <3>1
      <4> HIDE DEF w
      <4>2. left \in Seq({left[j] : j \in 1..Len(left)} \union {w}) /\ w \in {w}
        BY <2>7 DEF IsSeq
      <4> QED
        BY <4>1, <4>2 DEF w
    <3>3. IsSeq(values') /\ Len(values') = c.values + 1
      BY <2>7, <3>2, AppendIs
    <3>4. Balanced'
      BY <2>1, <2>6, <2>9, <2>11, <2>12, <3>3 DEF Balanced
    <3>5. Built'
      BY <2>8, <2>9, <2>11, <3>1, <3>3 DEF IInv, Built
    <3>6. Alive'
      BY <2>1, <2>6, <2>12 DEF Alive, Instr
    <3>7. outcome' \in Outcomes /\ Runs' /\ outcome' \notin {"done", "could not compile"}
      <4>1. outcome' = "running"
        BY <2>1 DEF Runs
      <4> QED
        BY <4>1 DEF Runs, Outcomes
    <3> QED
      BY <2>10, <3>4, <3>5, <3>6, <3>7 DEF IInv
  <2>13. CASE c.of # "result"
    <3>1. values' = left \o <<>> /\ state' = c.frames
      BY <2>1, <2>13
    <3>2. values' = left
      BY <2>7, <3>1 DEF IsSeq
    <3>3. Balanced'
      BY <2>1, <2>6, <2>7, <2>9, <2>11, <2>13, <3>2 DEF Balanced
    <3>4. Built'
      BY <2>7, <2>8, <2>9, <2>11, <3>1, <3>2 DEF Built
    <3>5. state' = Len(frames') /\ outcome' = outcome
      BY <2>1, <2>9, <3>1
    <3> QED
      BY <2>10, <3>3, <3>4, <3>5, Onward
  <2> QED
    BY <2>12, <2>13
<1> QED
  BY <1>1, <1>2

LEMMA AtOther ==
  ASSUME IInv, NEW what, what # "leave block", Doing(what)
  PROVE  /\ Runs /\ Instr.do = what /\ IsSeq(Tail(todo)) /\ todo # <<>>
         /\ Refers(Len(blocks), n_allocas, Instr)
         /\ state = Len(frames)
         /\ \E i1 \in Nat \ {0}, n1, f1, m1 \in Nat :
              /\ Moves(Instr, Len(frames), Len(values), i1, n1)
              /\ Stack(Len(blocks), n_allocas, Tail(todo), i1, n1, f1, m1)
              /\ f1 <= Len(frames) /\ m1 <= Low(Instr, Len(values))
BY Running

LEMMA GoNone ==
  ASSUME Go(<<>>), IsSeq(Tail(todo))
  PROVE  todo' = Tail(todo)
BY NoneIs DEF Go

(* A step that only builds.                                                *)
LEMMA Stays ==
  ASSUME IInv, Runs, SameRest, SameScope, UNCHANGED n_allocas,
         state = Len(frames), Blocks(blocks', Len(blocks)), ip' \in 0..Len(blocks),
         IsSeq(values'), NEW n, Len(values') = n, NEW f, NEW m,
         Stack(Len(blocks), n_allocas, todo', Len(frames), n, f, m)
  PROVE  IInv'
BY CountedSame, Straight

(* A step that only says what is to be done.                               *)
LEMMA Quiet ==
  ASSUME IInv, Runs, SameRest, SameScope, UNCHANGED <<values, blocks, ip, n_allocas>>,
         state = Len(frames), NEW f, NEW m,
         Stack(Len(blocks), n_allocas, todo', Len(frames), Len(values), f, m)
  PROVE  IInv'
<1>1. Blocks(blocks', Len(blocks)) /\ ip' \in 0..Len(blocks) /\ IsSeq(values')
  BY Facts
<1>2. Len(values') = Len(values)
  OBVIOUS
<1> QED
  BY ONLY IInv, Runs, SameRest, SameScope, UNCHANGED <<values, blocks, ip, n_allocas>>,
     state = Len(frames), <1>1, <1>2, Stays,
     Stack(Len(blocks), n_allocas, todo', Len(frames), Len(values), f, m)

LEMMA EndOfTryKeeps ==
  ASSUME IInv, EndOfTry
  PROVE  IInv'
<1>1. /\ Doing("catch") /\ Go(<<>>) /\ SameScope /\ SameRest
      /\ UNCHANGED <<values, blocks, ip, n_allocas>>
  BY DEF EndOfTry
<1>2. /\ Runs /\ Instr.do = "catch" /\ IsSeq(Tail(todo)) /\ state = Len(frames)
      /\ \E i1 \in Nat \ {0}, n1, f1, m1 \in Nat :
           /\ Moves(Instr, Len(frames), Len(values), i1, n1)
           /\ Stack(Len(blocks), n_allocas, Tail(todo), i1, n1, f1, m1)
           /\ f1 <= Len(frames) /\ m1 <= Low(Instr, Len(values))
  BY <1>1, AtOther
<1>3. PICK i1, n1, f1, m1 :
           /\ Moves(Instr, Len(frames), Len(values), i1, n1)
           /\ Stack(Len(blocks), n_allocas, Tail(todo), i1, n1, f1, m1)
  BY <1>2
<1>4. i1 = Len(frames) /\ n1 = Len(values)
  BY <1>2, <1>3, MovesCatch
<1>5. todo' = Tail(todo)
  BY <1>1, <1>2, GoNone
<1> QED
  BY <1>1, <1>2, <1>3, <1>4, <1>5, Quiet

LEMMA GenConstantKeeps ==
  ASSUME IInv, GenConstant
  PROVE  IInv'
<1>1. /\ Generating("Constant") /\ Go(<<>>) /\ values' = Append(values, Constant)
      /\ SameScope /\ SameRest /\ UNCHANGED <<blocks, ip, n_allocas>>
  BY DEF GenConstant, Push
<1>2. /\ Runs /\ IsSeq(Tail(todo)) /\ state = Len(frames)
      /\ \E f, m \in Nat :
           /\ Stack(Len(blocks), n_allocas, Tail(todo), Len(frames), Len(values) + 1, f, m)
           /\ m <= Len(values)
  BY <1>1, AtExpr DEF ExprNode
<1>3. PICK f, m : Stack(Len(blocks), n_allocas, Tail(todo), Len(frames), Len(values) + 1, f, m)
  BY <1>2
<1>4. todo' = Tail(todo)
  BY <1>1, <1>2, GoNone
<1>5. IsSeq(values') /\ Len(values') = Len(values) + 1
  BY <1>1, Facts, AppendIs
<1>6. Blocks(blocks', Len(blocks)) /\ ip' \in 0..Len(blocks)
  BY <1>1, Facts
<1> QED
  BY <1>1, <1>2, <1>3, <1>4, <1>5, <1>6, Stays

LEMMA NoValueKeeps ==
  ASSUME IInv, NoValue
  PROVE  IInv'
<1>1. /\ Doing("no value") /\ Go(<<>>) /\ values' = Append(values, Null)
      /\ SameScope /\ SameRest /\ UNCHANGED <<blocks, ip, n_allocas>>
  BY DEF NoValue, Push
<1>2. /\ Runs /\ Instr.do = "no value" /\ IsSeq(Tail(todo)) /\ state = Len(frames)
      /\ \E i1 \in Nat \ {0}, n1, f1, m1 \in Nat :
           /\ Moves(Instr, Len(frames), Len(values), i1, n1)
           /\ Stack(Len(blocks), n_allocas, Tail(todo), i1, n1, f1, m1)
           /\ f1 <= Len(frames) /\ m1 <= Low(Instr, Len(values))
  BY <1>1, AtOther
<1>3. PICK i1, n1, f, m :
           /\ Moves(Instr, Len(frames), Len(values), i1, n1)
           /\ Stack(Len(blocks), n_allocas, Tail(todo), i1, n1, f, m)
  BY <1>2
<1>4. i1 = Len(frames) /\ n1 = Len(values) + 1
  BY <1>2, <1>3, MovesNoValue
<1>5. todo' = Tail(todo)
  BY <1>1, <1>2, GoNone
<1>6. IsSeq(values') /\ Len(values') = Len(values) + 1
  BY <1>1, Facts, AppendIs
<1>7. Blocks(blocks', Len(blocks)) /\ ip' \in 0..Len(blocks)
  BY <1>1, Facts
<1> QED
  BY <1>1, <1>2, <1>3, <1>4, <1>5, <1>6, <1>7, Stays

LEMMA GenOperatorKeeps ==
  ASSUME IInv, GenOperator
  PROVE  IInv'
<1> DEFINE a == Each(T.kids)
           o == [do |-> "operator", n |-> Len(T.kids)]
           rest == Tail(todo)
<1>1. /\ Generating("Operator") /\ todo' = <<a, o>> \o rest
      /\ SameScope /\ SameRest /\ UNCHANGED <<values, blocks, ip, n_allocas>>
  BY DEF GenOperator, Go
<1>2. /\ Runs /\ T \in Trees /\ T.node = "Operator" /\ IsSeq(rest) /\ state = Len(frames)
      /\ \E f, m \in Nat :
           /\ Stack(Len(blocks), n_allocas, rest, Len(frames), Len(values) + 1, f, m)
           /\ m <= Len(values)
  BY <1>1, AtExpr DEF ExprNode
<1>3. PICK f, m :
        /\ Stack(Len(blocks), n_allocas, rest, Len(frames), Len(values) + 1, f, m)
        /\ m <= Len(values)
  BY <1>2
<1>4. T.kids \in Seq(Exprs) /\ Len(T.kids) \in Nat
  <2>1. T.kids \in Seq(Exprs)
    BY <1>2, KidsAre
  <2> QED
    BY <2>1, SeqIs
<1>5. /\ a.do = "each" /\ a.trees = T.kids
      /\ Merges(o) /\ o.n = Len(T.kids)
  BY DEF Each, Merges
<1>6. Len(values) \in Nat
  BY Facts
<1> HIDE DEF a, o, rest
<1>7. Stack(Len(blocks), n_allocas, Cons(o, rest), Len(frames), Len(values) + o.n, f, m)
  BY <1>3, <1>4, <1>5, <1>6, PutMerge
<1>8. Stack(Len(blocks), n_allocas, Cons(a, Cons(o, rest)), Len(frames), Len(values), f, m)
  BY <1>3, <1>4, <1>5, <1>6, <1>7, PutEach
<1>9. todo' = Cons(a, Cons(o, rest))
  <2>1. todo' = <<a, o>> \o rest /\ IsSeq(rest)
    BY <1>1, <1>2
  <2> QED
    BY ONLY <2>1, Tuple2
<1> QED
  BY <1>1, <1>2, <1>8, <1>9, Quiet

LEMMA NextOperandKeeps ==
  ASSUME IInv, NextOperand
  PROVE  IInv'
<1> DEFINE left == Instr.trees
           rest == Tail(todo)
<1>1. /\ Doing("each")
      /\ todo' = (IF left = <<>> THEN <<>> ELSE <<Gen(Head(left)), Each(Tail(left))>>) \o rest
      /\ SameScope /\ SameRest /\ UNCHANGED <<values, blocks, ip, n_allocas>>
  BY DEF NextOperand, Go
<1>2. /\ Runs /\ Instr.do = "each" /\ IsSeq(rest) /\ state = Len(frames)
      /\ Refers(Len(blocks), n_allocas, Instr)
      /\ \E i1 \in Nat \ {0}, n1, f1, m1 \in Nat :
           /\ Moves(Instr, Len(frames), Len(values), i1, n1)
           /\ Stack(Len(blocks), n_allocas, rest, i1, n1, f1, m1)
           /\ f1 <= Len(frames) /\ m1 <= Low(Instr, Len(values))
  BY <1>1, AtOther
<1>3. PICK i1, n1, f, m :
           /\ Moves(Instr, Len(frames), Len(values), i1, n1)
           /\ Stack(Len(blocks), n_allocas, rest, i1, n1, f, m)
           /\ m <= Low(Instr, Len(values))
  BY <1>2
<1>4. i1 = Len(frames) /\ n1 = Len(values) + Len(left)
  BY <1>2, <1>3, MovesEach
<1>5. left \in Seq(Exprs)
  BY <1>2 DEF Refers
<1>6. m <= Len(values)
  <2>1. Instr.do # "if true"
    BY <1>2
  <2> QED
    BY <1>3, <2>1, LowSame
<1>7. Len(values) \in Nat
  BY Facts
<1>8. m \in Nat
  BY <1>3, StackIs
<1> HIDE DEF left, rest
<1>9. CASE left = <<>>
  <2>1. Len(left) = 0
    BY <1>9
  <2>2. n1 = Len(values)
    BY ONLY <1>4, <1>7, <2>1
  <2>3. todo' = rest
    <3>1. todo' = <<>> \o rest
      BY <1>1, <1>9
    <3> QED
      BY <1>2, <3>1, NoneIs
  <2> QED
    BY <1>1, <1>2, <1>3, <1>4, <2>2, <2>3, Quiet
<1>10. CASE left # <<>>
  <2> DEFINE a == Gen(Head(left))
             o == Each(Tail(left))
  <2>1. todo' = <<a, o>> \o rest
    BY <1>1, <1>10
  <2>2. /\ Head(left) \in Exprs /\ Tail(left) \in Seq(Exprs)
        /\ Len(Tail(left)) = Len(left) - 1 /\ Len(left) \in Nat
    <3> DEFINE S == Exprs
    <3>1. left \in Seq(S)
      BY <1>5
    <3> HIDE DEF S
    <3>2. Head(left) \in S /\ Tail(left) \in Seq(S) /\ Len(Tail(left)) = Len(left) - 1
      BY <1>10, <3>1, HeadTailProperties
    <3>3. Len(left) \in Nat
      BY <3>1, SeqIs
    <3> QED
      BY <3>2, <3>3 DEF S
  <2>3. o.do = "each" /\ o.trees = Tail(left) /\ Pushes(a)
    BY <2>2, GenPushes DEF Each
  <2> HIDE DEF a, o
  <2>4. Len(o.trees) = Len(left) - 1
    BY <2>2, <2>3
  <2>5. Len(left) \in Nat
    BY <2>2
  <2>6. /\ (Len(values) + 1) + Len(o.trees) = n1 /\ Len(values) + 1 \in Nat
        /\ m <= Len(values) + 1
    <3> DEFINE l == Len(left)
               r == Len(o.trees)
               n == Len(values)
    <3>1. n1 = n + l /\ m <= n /\ n \in Nat /\ m \in Nat /\ l \in Nat /\ r = l - 1
      BY <1>4, <1>6, <1>7, <1>8, <2>4, <2>5
    <3> HIDE DEF l, r, n
    <3>2. (n + 1) + r = n1 /\ n + 1 \in Nat /\ m <= n + 1
      BY ONLY <3>1
    <3> QED
      BY <3>2 DEF r, n
  <2>7. Stack(Len(blocks), n_allocas, Cons(o, rest), Len(frames), Len(values) + 1, f, m)
    <3>1. Stack(Len(blocks), n_allocas, rest, Len(frames), (Len(values) + 1) + Len(o.trees), f, m)
      BY <1>3, <1>4, <2>6
    <3> QED
      BY <2>2, <2>3, <2>6, <3>1, PutEach
  <2>8. Stack(Len(blocks), n_allocas, Cons(a, Cons(o, rest)), Len(frames), Len(values), f, m)
    BY <1>6, <1>7, <2>3, <2>7, PutPush
  <2>9. todo' = Cons(a, Cons(o, rest))
    <3>1. todo' = <<a, o>> \o rest /\ IsSeq(rest)
      BY <1>2, <2>1
    <3> QED
      BY ONLY <3>1, Tuple2
  <2> QED
    BY <1>1, <1>2, <2>8, <2>9, Quiet
<1> QED
  BY <1>9, <1>10

LEMMA MergedIs ==
  ASSUME NEW vs, IsSeq(vs), NEW k \in Nat, NEW n \in Nat, n >= 1, Len(vs) + 1 = n + k, NEW x
  PROVE  /\ IsSeq(Append(SubSeq(vs, 1, Len(vs) - k), x))
         /\ Len(Append(SubSeq(vs, 1, Len(vs) - k), x)) = n
<1>1. Len(vs) \in Nat
  BY ListIs
<1>2. Len(vs) - k \in 0..Len(vs) /\ (Len(vs) - k) + 1 = n
  BY <1>1
<1> DEFINE d == Len(vs) - k
           u == SubSeq(vs, 1, d)
<1>3. IsSeq(u) /\ Len(u) = d
  BY <1>2, PoppedIs
<1> HIDE DEF d, u
<1>4. IsSeq(Append(u, x)) /\ Len(Append(u, x)) = d + 1
  BY <1>3, AppendIs
<1>5. d + 1 = n
  BY <1>2 DEF d
<1> QED
  BY <1>4, <1>5 DEF d, u

LEMMA CreateOperatorKeeps ==
  ASSUME IInv, CreateOperator
  PROVE  IInv'
<1>1. Doing("operator")
  BY DEF CreateOperator
<1>2. /\ Runs /\ IsSeq(Tail(todo)) /\ state = Len(frames) /\ Instr.n \in Nat
      /\ \E n, f, m \in Nat :
           /\ Stack(Len(blocks), n_allocas, Tail(todo), Len(frames), n, f, m)
           /\ n >= 1 /\ Len(values) + 1 = n + Instr.n
  BY <1>1, AtMerge
<1>3. PICK n \in Nat, f \in Nat, m \in Nat :
           /\ Stack(Len(blocks), n_allocas, Tail(todo), Len(frames), n, f, m)
           /\ n >= 1 /\ Len(values) + 1 = n + Instr.n
  BY <1>2
<1>4. CASE Null \in Operands(Instr.n)
  <2>1. Crash("non-null assertion")
    BY <1>4 DEF CreateOperator
  <2> QED
    BY <2>1, CrashKeeps DEF Outcomes
<1>5. CASE Null \notin Operands(Instr.n)
  <2> DEFINE y == Operation(Operands(Instr.n))
             w == IF Operands(Instr.n) \subseteq {Constant} THEN Constant ELSE Following(blocks, ip)
  <2>1. /\ Go(<<>>) /\ values' = Append(SubSeq(values, 1, Len(values) - Instr.n), w)
        /\ blocks' \in {blocks, With(blocks, ip, y)}
        /\ SameScope /\ SameRest /\ UNCHANGED <<ip, n_allocas>>
    BY <1>5 DEF CreateOperator, Pop
  <2>2. todo' = Tail(todo)
    BY <1>2, <2>1, GoNone
  <2> HIDE DEF w, y
  <2>3. IsSeq(values') /\ Len(values') = n
    <3>1. IsSeq(values) /\ n \in Nat /\ Instr.n \in Nat
      BY <1>2, Facts
    <3>2. /\ IsSeq(Append(SubSeq(values, 1, Len(values) - Instr.n), w))
          /\ Len(Append(SubSeq(values, 1, Len(values) - Instr.n), w)) = n
      BY ONLY <1>3, <3>1, MergedIs
    <3> QED
      BY <2>1, <3>2
  <2>4. Blocks(blocks', Len(blocks)) /\ ip' \in 0..Len(blocks)
    BY <2>1, Facts, WithIs
  <2> QED
    BY <1>2, <1>3, <2>1, <2>2, <2>3, <2>4, Stays
<1> QED
  BY <1>4, <1>5

LEMMA CreateCallKeeps ==
  ASSUME IInv, CreateCall
  PROVE  IInv'
<1>1. Doing("call")
  BY DEF CreateCall
<1>2. /\ Runs /\ IsSeq(Tail(todo)) /\ state = Len(frames) /\ Instr.n \in Nat
      /\ \E n, f, m \in Nat :
           /\ Stack(Len(blocks), n_allocas, Tail(todo), Len(frames), n, f, m)
           /\ n >= 1 /\ Len(values) + 1 = n + Instr.n
  BY <1>1, AtMerge
<1>3. PICK n \in Nat, f \in Nat, m \in Nat :
           /\ Stack(Len(blocks), n_allocas, Tail(todo), Len(frames), n, f, m)
           /\ n >= 1 /\ Len(values) + 1 = n + Instr.n
  BY <1>2
<1>4. CASE Crash("null operand")
  BY <1>4, CrashKeeps DEF Outcomes
<1>5. ASSUME NEW inst, blocks' = With(blocks, ip, inst), Go(<<>>), NEW w,
             values' = Append(Pop(Instr.n), w),
             SameScope, SameRest, UNCHANGED <<ip, n_allocas>>
      PROVE  IInv'
  <2>1. values' = Append(SubSeq(values, 1, Len(values) - Instr.n), w)
    BY <1>5 DEF Pop
  <2>2. todo' = Tail(todo)
    BY <1>2, <1>5, GoNone
  <2>3. IsSeq(values') /\ Len(values') = n
    <3>1. IsSeq(values) /\ n \in Nat /\ Instr.n \in Nat
      BY <1>2, Facts
    <3>2. /\ IsSeq(Append(SubSeq(values, 1, Len(values) - Instr.n), w))
          /\ Len(Append(SubSeq(values, 1, Len(values) - Instr.n), w)) = n
      BY ONLY <1>3, <3>1, MergedIs
    <3> QED
      BY <2>1, <3>2
  <2>4. Blocks(blocks', Len(blocks)) /\ ip' \in 0..Len(blocks)
    BY <1>5, Facts, WithIs
  <2> QED
    BY <1>2, <1>3, <1>5, <2>2, <2>3, <2>4, Stays
<1> QED
  BY <1>4, <1>5 DEF CreateCall

LEMMA GenVarRefKeeps ==
  ASSUME IInv, GenVarRef
  PROVE  IInv'
<1>1. Generating("VarRef")
  BY DEF GenVarRef
<1>2. /\ Runs /\ IsSeq(Tail(todo)) /\ state = Len(frames)
      /\ \E f, m \in Nat :
           /\ Stack(Len(blocks), n_allocas, Tail(todo), Len(frames), Len(values) + 1, f, m)
           /\ m <= Len(values)
  BY <1>1, AtExpr DEF ExprNode
<1>3. PICK f, m : Stack(Len(blocks), n_allocas, Tail(todo), Len(frames), Len(values) + 1, f, m)
  BY <1>2
<1>4. CASE Throw
  BY <1>2, <1>4, ThrowKeeps
<1>5. CASE ~Throw
  <2>1. /\ blocks' = With(blocks, ip, Load(Named[T.name]))
        /\ Go(<<>>) /\ values' = Append(values, Following(blocks, ip))
        /\ SameScope /\ SameRest /\ UNCHANGED <<ip, n_allocas>>
    BY <1>5 DEF GenVarRef, Push
  <2>2. todo' = Tail(todo)
    BY <1>2, <2>1, GoNone
  <2>3. IsSeq(values') /\ Len(values') = Len(values) + 1
    BY <2>1, Facts, AppendIs
  <2>4. Blocks(blocks', Len(blocks)) /\ ip' \in 0..Len(blocks)
    BY <2>1, Facts, WithIs
  <2> QED
    BY <1>2, <1>3, <2>1, <2>2, <2>3, <2>4, Stays
<1> QED
  BY <1>4, <1>5

LEMMA GenFunctionCallKeeps ==
  ASSUME IInv, GenFunctionCall
  PROVE  IInv'
<1> DEFINE n == Len(T.kids)
           a == Each(T.kids)
           o == [do |-> "call", n |-> n, name |-> T.name]
           rest == Tail(todo)
<1>1. Generating("Call")
  BY DEF GenFunctionCall
<1>2. /\ Runs /\ T \in Trees /\ T.node = "Call" /\ IsSeq(rest) /\ state = Len(frames)
      /\ \E f, m \in Nat :
           /\ Stack(Len(blocks), n_allocas, rest, Len(frames), Len(values) + 1, f, m)
           /\ m <= Len(values)
  BY <1>1, AtExpr DEF ExprNode
<1>3. CASE Throw
  BY <1>2, <1>3, ThrowKeeps
<1>4. CASE ~Throw
  <2>1. /\ functions' = [functions EXCEPT ![T.name] = n] /\ todo' = <<a, o>> \o rest
        /\ SameScope
        /\ UNCHANGED <<program, generated, globals, values, outcome, errors,
                       warnings, blocks, ip, n_allocas>>
    BY <1>4 DEF GenFunctionCall, Go
  <2>2. PICK f, m :
          /\ Stack(Len(blocks), n_allocas, rest, Len(frames), Len(values) + 1, f, m)
          /\ m <= Len(values)
    BY <1>2
  <2>3. T.kids \in Seq(Exprs) /\ n \in Nat
    <3>1. T.kids \in Seq(Exprs)
      BY <1>2, KidsAre
    <3> QED
      BY <3>1, SeqIs
  <2>4. /\ a.do = "each" /\ a.trees = T.kids
        /\ Merges(o) /\ o.n = Len(T.kids)
    BY DEF Each, Merges
  <2>5. Len(values) \in Nat
    BY Facts
  <2> HIDE DEF a, o, rest
  <2>6. Stack(Len(blocks), n_allocas, Cons(o, rest), Len(frames), Len(values) + o.n, f, m)
    BY <2>2, <2>3, <2>4, <2>5, PutMerge
  <2>7. Stack(Len(blocks), n_allocas, Cons(a, Cons(o, rest)), Len(frames), Len(values), f, m)
    BY <2>2, <2>3, <2>4, <2>5, <2>6, PutEach
  <2>8. todo' = Cons(a, Cons(o, rest))
    <3>1. todo' = <<a, o>> \o rest /\ IsSeq(rest)
      BY <1>2, <2>1
    <3> QED
      BY ONLY <3>1, Tuple2
  <2>9. Counted'
    <3>1. n \in Int
      BY <2>3
    <3> HIDE DEF n
    <3> QED
      BY <2>1, <3>1 DEF IInv, Counted
  <2>10. Blocks(blocks', Len(blocks)) /\ ip' \in 0..Len(blocks) /\ IsSeq(values')
           /\ Len(values') = Len(values)
    BY <2>1, Facts
  <2> QED
    BY <1>2, <2>1, <2>7, <2>8, <2>9, <2>10, Straight
<1> QED
  BY <1>3, <1>4

(* A step that adds basic blocks and allocas.                              *)
LEMMA Builds ==
  ASSUME IInv, Runs, SameScope, SameRest, state = Len(frames),
         NEW b \in Nat, Blocks(blocks', b), Len(blocks) <= b, ip' \in 0..b,
         NEW v \in Nat, n_allocas' = v, n_allocas <= v,
         IsSeq(values'), NEW n, Len(values') = n, NEW f, NEW m,
         Stack(b, v, todo', Len(frames), n, f, m)
  PROVE  IInv'
<1>1. /\ Len(frames) \in 1..(Len(blocks) + 2) /\ state \in 1..(Len(blocks) + 2)
      /\ n_allocas \in Nat /\ Scoped(n_allocas, frames) /\ Len(blocks) \in Nat
  BY Facts DEF IInv, Built
<1>2. frames' = frames /\ state' = state
  BY DEF SameScope
<1>3. IsSeq(blocks') /\ Len(blocks') = b
  BY DEF Blocks
<1>4. Len(frames) \in 1..(b + 2) /\ state \in 1..(b + 2)
  BY ONLY <1>1, b \in Nat, Len(blocks) <= b
<1>5. Scoped(v, frames)
  BY <1>1, ScopedGrow
<1>6. Built'
  BY <1>2, <1>3, <1>4, <1>5 DEF Built
<1>7. Balanced'
  BY <1>2, <1>3 DEF Balanced
<1>8. Counted' /\ UNCHANGED outcome
  BY CountedSame
<1> QED
  BY <1>2, <1>6, <1>7, <1>8, Onward

(* A step that uses the value on top up.                                   *)
LEMMA UsesUp ==
  ASSUME IInv, NEW what, what \in {"drop", "ret", "assign", "loop body"}, Doing(what),
         Go(<<>>), values' = Pop(1), SameScope, SameRest, UNCHANGED n_allocas,
         Blocks(blocks', Len(blocks)), ip' \in 0..Len(blocks)
  PROVE  IInv'
<1>1. /\ Runs /\ IsSeq(Tail(todo)) /\ state = Len(frames)
      /\ \E n, f, m \in Nat :
           /\ Stack(Len(blocks), n_allocas, Tail(todo), Len(frames), n, f, m)
           /\ Len(values) = n + 1
  BY AtPop
<1>2. PICK n \in Nat, f \in Nat, m \in Nat :
        /\ Stack(Len(blocks), n_allocas, Tail(todo), Len(frames), n, f, m)
        /\ Len(values) = n + 1
  BY <1>1
<1>3. todo' = Tail(todo)
  BY <1>1, GoNone
<1>4. Len(values) - 1 = n /\ n \in 0..Len(values)
  BY ONLY <1>2, n \in Nat
<1>5. values' = SubSeq(values, 1, n)
  BY <1>4 DEF Pop
<1>6. IsSeq(values') /\ Len(values') = n
  BY <1>4, <1>5, Facts, PoppedIs
<1> QED
  BY <1>1, <1>2, <1>3, <1>6, Stays

(* The code of an expression in front of what uses its value up.           *)
LEMMA PutValueThen ==
  ASSUME NEW b, NEW v, NEW s, NEW i, NEW n, NEW f, NEW m, Stack(b, v, s, i, n, f, m),
         NEW x, Pops(x), Refers(b, v, x), NEW e \in Exprs
  PROVE  Stack(b, v, Cons(Gen(e), Cons(x, s)), i, n, f, m)
<1>1. Stack(b, v, Cons(x, s), i, n + 1, f, m)
  BY PutPop
<1>2. n \in Nat /\ m <= n
  BY StackIs
<1>3. Pushes(Gen(e))
  BY GenPushes
<1> QED
  BY <1>1, <1>2, <1>3, PutPush

LEMMA GenIfKeeps ==
  ASSUME IInv, GenIf
  PROVE  IInv'
<1> DEFINE e == Kid(1)
           x == [do |-> "if true", tree |-> T]
           rest == Tail(todo)
<1>1. /\ Generating("If") /\ todo' = <<Gen(e), x>> \o rest
      /\ SameScope /\ SameRest /\ UNCHANGED <<values, blocks, ip, n_allocas>>
  BY DEF GenIf, Go
<1>2. /\ Runs /\ T \in Trees /\ T.node = "If" /\ IsSeq(rest) /\ state = Len(frames)
      /\ \E f, m \in Nat :
           /\ Stack(Len(blocks), n_allocas, rest, Len(frames), Len(values) + 1, f, m)
           /\ m <= Len(values)
  BY <1>1, AtExpr DEF ExprNode
<1>3. PICK f, m :
        /\ Stack(Len(blocks), n_allocas, rest, Len(frames), Len(values) + 1, f, m)
        /\ m <= Len(values)
  BY <1>2
<1>4. e \in Exprs
  <2>1. Len(T.kids) \in {2, 3} /\ T.node # "Block"
    BY <1>2, KidsAre
  <2>2. 1 <= Len(T.kids) /\ 1 \in Nat /\ 1 <= 1
    <3> DEFINE l == Len(T.kids)
    <3>1. l \in {2, 3}
      BY <2>1
    <3> HIDE DEF l
    <3>2. 1 <= l /\ 1 \in Nat /\ 1 <= 1
      BY ONLY <3>1
    <3> QED
      BY <3>2 DEF l
  <2> QED
    BY <1>2, <2>1, <2>2, KidIs DEF Kid
<1>5. x.do = "if true" /\ x.tree \in Exprs /\ x.tree.node = "If"
  BY <1>2 DEF Exprs, ExprNode
<1>6. Len(values) \in Nat
  BY Facts
<1> HIDE DEF x, e, rest
<1>7. Stack(Len(blocks), n_allocas, Cons(x, rest), Len(frames), Len(values) + 1, f, m)
  BY <1>3, <1>5, <1>6, PutIfTrue
<1>8. Pushes(Gen(e))
  BY <1>4, GenPushes
<1>9. Stack(Len(blocks), n_allocas, Cons(Gen(e), Cons(x, rest)), Len(frames), Len(values), f, m)
  BY <1>3, <1>6, <1>7, <1>8, PutPush
<1>10. todo' = Cons(Gen(e), Cons(x, rest))
  <2>1. IsSeq(rest)
    BY <1>2
  <2>2. <<Gen(e), x>> \o rest = Cons(Gen(e), Cons(x, rest))
    BY ONLY <2>1, Tuple2
  <2> QED
    BY <1>1, <2>2
<1> QED
  BY <1>1, <1>2, <1>9, <1>10, Quiet

LEMMA IfTrueKeeps ==
  ASSUME IInv, IfTrue
  PROVE  IInv'
<1> DEFINE b == Len(blocks) + 3
           v == n_allocas + 1
           no == New(2)
           post == New(3)
           y == Gen(Kid(2))
           x == [do |-> "if false", no |-> no, post |-> post, result |-> v]
           z == IF Len(T.kids) = 3 THEN Gen(Kid(3)) ELSE Then("no value")
           p == [do |-> "post if", post |-> post, result |-> v]
           rest == Tail(todo)
<1>1. Doing("if true")
  BY DEF IfTrue
<1>2. /\ Runs /\ IsSeq(rest) /\ state = Len(frames)
      /\ Refers(Len(blocks), n_allocas, Instr) /\ Instr.do = "if true"
      /\ \E f, m \in Nat :
           /\ Stack(Len(blocks), n_allocas, rest, Len(frames), Len(values), f, m)
           /\ m <= Low(Instr, Len(values))
      /\ Len(values) >= 1
  BY <1>1, AtLook
<1>3. CASE Top = Null
  <2>1. Crash("null operand")
    BY <1>3 DEF IfTrue
  <2> QED
    BY <2>1, CrashKeeps DEF Outcomes
<1>4. CASE Top # Null
  <2>1. /\ blocks' = With(Allocated(blocks, DeclarationsBlock, v, "if_result"),
                          ip, CondBr(Top, New(1), no))
                       \o <<BasicBlock(Fn, TRUE), BasicBlock(Fn, FALSE), BasicBlock(Fn, FALSE)>>
        /\ n_allocas' = v /\ ip' = New(1)
        /\ todo' = ((<<y, x>> \o (IF Len(T.kids) = 3 THEN <<Gen(Kid(3))>> ELSE <<Then("no value")>>))
                     \o <<p>>) \o rest
        /\ values' = Pop(1) /\ SameScope /\ SameRest
    BY <1>4 DEF IfTrue, Go
  <2>2. todo' = ((<<y, x>> \o <<z>>) \o <<p>>) \o rest
    BY <2>1
  <2>3. PICK f, m \in Nat :
          /\ Stack(Len(blocks), n_allocas, rest, Len(frames), Len(values), f, m)
          /\ m <= Low(Instr, Len(values))
    BY <1>2
  <2>4. Low(Instr, Len(values)) = Len(values) - 1
    BY <1>2 DEF Low
  <2>5. Len(values) \in Nat /\ Len(blocks) \in Nat /\ n_allocas \in Nat
    BY Facts
  <2>6. PICK k \in Nat : Len(values) = k + 1 /\ m <= k
    <3>1. Len(values) >= 1
      BY <1>2
    <3>2. Len(values) - 1 \in Nat /\ Len(values) = (Len(values) - 1) + 1 /\ m <= Len(values) - 1
      BY ONLY <2>3, <2>4, <2>5, <3>1
    <3> QED
      BY <3>2
  <2>7. /\ b \in Nat /\ Len(blocks) <= b /\ v \in Nat /\ n_allocas <= v
        /\ no \in 1..b /\ post \in 1..b /\ New(1) \in 0..b
    BY <2>5 DEF New
  <2>8. T \in Exprs /\ T.node = "If"
    BY <1>2 DEF Refers, T
  <2>9. Pushes(y) /\ Pushes(z)
    <3>1. T \in Trees /\ T.node # "Block" /\ Len(T.kids) \in {2, 3}
      BY <2>8, KidsAre DEF Exprs
    <3> DEFINE l == Len(T.kids)
    <3>2. l \in {2, 3}
      BY <3>1
    <3> HIDE DEF l
    <3>3. 2 \in Nat /\ 3 \in Nat /\ 1 <= 2 /\ 1 <= 3 /\ 2 <= l /\ (l = 3 => 3 <= l)
      BY ONLY <3>2
    <3>4. Kid(2) \in Exprs /\ (l = 3 => Kid(3) \in Exprs)
      BY <3>1, <3>3, KidIs DEF Kid, l
    <3>5. Pushes(y)
      BY <3>4, GenPushes
    <3>6. Pushes(z)
      <4>1. CASE l = 3
        BY <3>4, <4>1, GenPushes DEF l
      <4>2. CASE l # 3
        BY <4>2 DEF l, Pushes, Then
      <4> QED
        BY <4>1, <4>2
    <3> QED
      BY <3>5, <3>6
  <2>10. x.do = "if false" /\ x.no = no /\ p.do = "post if" /\ p.post = post
    OBVIOUS
  <2>11. Keeps(x) /\ Refers(b, v, x)
    <3> HIDE DEF x
    <3> DEFINE B == 1..b
    <3>1. x.no \in B
      BY <2>7, <2>10
    <3> HIDE DEF b, v
    <3>2. x.do = "if false"
      BY <2>10
    <3> QED
      BY <3>1, <3>2 DEF Keeps, Refers
  <2>12. Blocks(blocks', b)
    <3> DEFINE c == Allocated(blocks, DeclarationsBlock, v, "if_result")
               d == With(c, ip, CondBr(Top, New(1), no))
    <3>1. Blocks(c, Len(blocks))
      BY Facts, AllocatedIs
    <3> HIDE DEF c
    <3>2. Blocks(d, Len(blocks))
      BY <3>1, WithIs
    <3>3. blocks' = d \o <<BasicBlock(Fn, TRUE), BasicBlock(Fn, FALSE), BasicBlock(Fn, FALSE)>>
      BY <2>1 DEF c
    <3> HIDE DEF d
    <3> QED
      BY <3>2, <3>3, AddThree
  <2> HIDE DEF b, v, no, post, x, y, z, p, rest
  <2>13. todo' = Cons(y, Cons(x, Cons(z, Cons(p, rest))))
    <3>1. IsSeq(rest)
      BY <1>2
    <3>2. ((<<y, x>> \o <<z>>) \o <<p>>) \o rest = Cons(y, Cons(x, Cons(z, Cons(p, rest))))
      BY ONLY <3>1, TwoOneOne
    <3> QED
      BY ONLY <2>2, <3>2
  <2>14. Stack(b, v, rest, Len(frames), k + 1, f, m)
    BY <2>3, <2>5, <2>6, <2>7, Grow
  <2>15. k + 1 \in Nat /\ m <= k + 1
    BY ONLY <2>3, <2>6, k \in Nat
  <2>16. Stack(b, v, Cons(p, rest), Len(frames), (k + 1) + 1, f, m)
    BY <2>7, <2>10, <2>14, PutPostIf
  <2>17. Stack(b, v, Cons(z, Cons(p, rest)), Len(frames), k + 1, f, m)
    BY <2>9, <2>15, <2>16, PutPush
  <2>18. Stack(b, v, Cons(x, Cons(z, Cons(p, rest))), Len(frames), k + 1, f, m)
    BY <2>11, <2>17, PutKeep
  <2>19. Stack(b, v, Cons(y, Cons(x, Cons(z, Cons(p, rest)))), Len(frames), k, f, m)
    BY <2>6, <2>9, <2>18, PutPush
  <2>20. Len(values) - 1 = k /\ k \in 0..Len(values)
    BY ONLY <2>6, k \in Nat
  <2>21. IsSeq(values') /\ Len(values') = k
    <3>1. values' = SubSeq(values, 1, k)
      BY <2>1, <2>20 DEF Pop
    <3> QED
      BY <2>20, <3>1, Facts, PoppedIs
  <2> QED
    BY <1>2, <2>1, <2>7, <2>12, <2>13, <2>19, <2>21, Builds
<1> QED
  BY <1>3, <1>4

LEMMA IfFalseKeeps ==
  ASSUME IInv, IfFalse
  PROVE  IInv'
<1>1. /\ Doing("if false")
      /\ blocks' = Inserted(With(With(blocks, ip, Store(Instr.result, OrZero(Top))), ip, Br(Instr.post)),
                            Instr.no)
      /\ ip' = Instr.no /\ Go(<<>>)
      /\ SameScope /\ SameRest /\ UNCHANGED <<values, n_allocas>>
  BY DEF IfFalse
<1>2. /\ Runs /\ IsSeq(Tail(todo)) /\ state = Len(frames)
      /\ Refers(Len(blocks), n_allocas, Instr) /\ Instr.do = "if false"
      /\ \E f, m \in Nat :
           Stack(Len(blocks), n_allocas, Tail(todo), Len(frames), Len(values), f, m)
  BY <1>1, AtKeep
<1>3. PICK f, m : Stack(Len(blocks), n_allocas, Tail(todo), Len(frames), Len(values), f, m)
  BY <1>2
<1>4. todo' = Tail(todo)
  BY <1>1, <1>2, GoNone
<1>5. ip' \in 0..Len(blocks)
  <2>1. Instr.no \in 1..Len(blocks)
    BY <1>2 DEF Refers
  <2>2. ip' \in 1..Len(blocks)
    BY <1>1, <2>1
  <2> QED
    BY ONLY <2>2
<1>6. Blocks(blocks', Len(blocks))
  <2> DEFINE c == With(blocks, ip, Store(Instr.result, OrZero(Top)))
             d == With(c, ip, Br(Instr.post))
  <2>1. Blocks(c, Len(blocks))
    BY Facts, WithIs
  <2>2. Blocks(d, Len(blocks))
    BY <2>1, WithIs
  <2> QED
    BY <1>1, <2>2, WithIs
<1>7. IsSeq(values') /\ Len(values') = Len(values)
  BY <1>1, Facts
<1> QED
  BY <1>1, <1>2, <1>3, <1>4, <1>5, <1>6, <1>7, Stays

LEMMA PostIfKeeps ==
  ASSUME IInv, PostIf
  PROVE  IInv'
<1> DEFINE stored == With(With(blocks, ip, Store(Instr.result, OrZero(Top))), ip, Br(Instr.post))
           w == Following(stored, Instr.post)
<1>1. /\ Doing("post if")
      /\ blocks' = With(Inserted(stored, Instr.post), Instr.post, Load(Instr.result))
      /\ ip' = Instr.post /\ Go(<<>>) /\ values' = Append(Pop(2), w)
      /\ warnings' \in {OneMore(warnings), warnings}
      /\ SameScope /\ SameNames /\ UNCHANGED <<outcome, errors, n_allocas>>
  BY DEF PostIf
<1>2. /\ Runs /\ IsSeq(Tail(todo)) /\ state = Len(frames) /\ Instr.do = "post if"
      /\ Refers(Len(blocks), n_allocas, Instr)
      /\ \E i1 \in Nat \ {0}, n1, f1, m1 \in Nat :
           /\ Moves(Instr, Len(frames), Len(values), i1, n1)
           /\ Stack(Len(blocks), n_allocas, Tail(todo), i1, n1, f1, m1)
           /\ f1 <= Len(frames) /\ m1 <= Low(Instr, Len(values))
  BY <1>1, AtOther
<1>3. PICK i1, n \in Nat, f \in Nat, m \in Nat :
           /\ Moves(Instr, Len(frames), Len(values), i1, n)
           /\ Stack(Len(blocks), n_allocas, Tail(todo), i1, n, f, m)
  BY <1>2
<1>4. i1 = Len(frames) /\ n >= 1 /\ Len(values) = n + 1
  BY <1>2, <1>3, MovesPostIf
<1>5. todo' = Tail(todo)
  BY <1>1, <1>2, GoNone
<1>6. ip' \in 0..Len(blocks)
  <2>1. Instr.post \in 1..Len(blocks)
    BY <1>2 DEF Refers
  <2>2. ip' \in 1..Len(blocks)
    BY <1>1, <2>1
  <2> QED
    BY ONLY <2>2
<1>7. Blocks(blocks', Len(blocks))
  <2> DEFINE c == With(blocks, ip, Store(Instr.result, OrZero(Top)))
             d == With(c, ip, Br(Instr.post))
             e == Inserted(d, Instr.post)
  <2>1. Blocks(c, Len(blocks))
    BY Facts, WithIs
  <2>2. Blocks(d, Len(blocks))
    BY <2>1, WithIs
  <2>3. Blocks(e, Len(blocks))
    BY <2>2, WithIs
  <2> QED
    BY <1>1, <2>3, WithIs
<1>8. IsSeq(values') /\ Len(values') = n
  <2>1. values' = Append(SubSeq(values, 1, Len(values) - 2), w)
    BY <1>1 DEF Pop
  <2>2. IsSeq(values) /\ 2 \in Nat
    BY Facts
  <2> HIDE DEF stored, w
  <2>3. Len(values) + 1 = n + 2
    BY ONLY <1>4, n \in Nat
  <2>4. n >= 1
    BY <1>4
  <2>5. /\ IsSeq(Append(SubSeq(values, 1, Len(values) - 2), w))
        /\ Len(Append(SubSeq(values, 1, Len(values) - 2), w)) = n
    BY ONLY <2>2, <2>3, <2>4, n \in Nat, MergedIs
  <2> QED
    BY <2>1, <2>5
<1>9. Counted'
  BY <1>1, OneMoreIs DEF IInv, Counted, SameNames
<1> QED
  BY <1>1, <1>2, <1>3, <1>4, <1>5, <1>6, <1>7, <1>8, <1>9, Straight

LEMMA TwoKids ==
  ASSUME NEW t \in Trees, t.node \in {"Assign", "While"}
  PROVE  t.kids[1] \in Exprs /\ t.kids[2] \in Exprs
<1> DEFINE l == Len(t.kids)
<1>1. l = 2 /\ t.node # "Block"
  BY KidsAre
<1> HIDE DEF l
<1>2. 1 \in Nat /\ 2 \in Nat /\ 1 <= 1 /\ 1 <= 2 /\ 2 <= 2
  OBVIOUS
<1>3. 1 <= l /\ 2 <= l
  BY ONLY <1>1, <1>2
<1> QED
  BY <1>1, <1>2, <1>3, KidIs DEF l

LEMMA OneKid ==
  ASSUME NEW t \in Trees, t.node \in {"ExprStmt", "Return", "Fn"}
  PROVE  t.kids[1] \in Exprs
<1> DEFINE l == Len(t.kids)
<1>1. l = 1 /\ t.node # "Block"
  BY KidsAre
<1> HIDE DEF l
<1>2. 1 \in Nat /\ 1 <= 1
  OBVIOUS
<1>3. 1 <= l
  BY ONLY <1>1, <1>2
<1> QED
  BY <1>1, <1>2, <1>3, KidIs DEF l

LEMMA GenWhileKeeps ==
  ASSUME IInv, GenWhile
  PROVE  IInv'
<1> DEFINE b == Len(blocks) + 3
           body == New(2)
           post == New(3)
           y == Gen(Kid(1))
           x == [do |-> "loop body", body |-> body, post |-> post]
           z == Gen(Kid(2))
           p == [do |-> "post while", cond |-> New(1), post |-> post]
           rest == Tail(todo)
<1>1. /\ Generating("While")
      /\ blocks' = With(blocks, ip, Br(New(1)))
                     \o <<BasicBlock(Fn, TRUE), BasicBlock(Fn, FALSE), BasicBlock(Fn, FALSE)>>
      /\ ip' = New(1) /\ todo' = <<y, x, z, p>> \o rest
      /\ SameScope /\ SameRest /\ UNCHANGED <<values, n_allocas>>
  BY DEF GenWhile, Go
<1>2. /\ Runs /\ T \in Trees /\ T.node = "While" /\ IsSeq(rest) /\ state = Len(frames)
      /\ \E f, m \in Nat :
           /\ Stack(Len(blocks), n_allocas, rest, Len(frames), Len(values) + 1, f, m)
           /\ m <= Len(values)
  BY <1>1, AtExpr DEF ExprNode
<1>3. PICK f, m :
        /\ Stack(Len(blocks), n_allocas, rest, Len(frames), Len(values) + 1, f, m)
        /\ m <= Len(values)
  BY <1>2
<1>4. Len(values) \in Nat /\ Len(blocks) \in Nat /\ n_allocas \in Nat
  BY Facts
<1>5. b \in Nat /\ Len(blocks) <= b /\ body \in 1..b /\ post \in 1..b /\ New(1) \in 0..b
  BY <1>4 DEF New
<1>6. Pushes(y) /\ Pushes(z)
  <2>1. T.node \in {"Assign", "While"}
    BY <1>2
  <2>2. Kid(1) \in Exprs /\ Kid(2) \in Exprs
    BY <1>2, <2>1, TwoKids DEF Kid
  <2> QED
    BY <2>2, GenPushes
<1>7. x.do = "loop body" /\ x.body = body /\ p.do = "post while" /\ p.post = post
  OBVIOUS
<1>8. Blocks(blocks', b)
  <2> DEFINE c == With(blocks, ip, Br(New(1)))
  <2>1. Blocks(c, Len(blocks))
    BY Facts, WithIs
  <2> HIDE DEF c
  <2>2. blocks' = c \o <<BasicBlock(Fn, TRUE), BasicBlock(Fn, FALSE), BasicBlock(Fn, FALSE)>>
    BY <1>1 DEF c
  <2> QED
    BY <2>1, <2>2, AddThree
<1> HIDE DEF b, body, post, y, x, z, p, rest
<1>9. Pops(x) /\ Refers(b, n_allocas, x)
  <2> DEFINE B == 1..b
  <2>1. x.body \in B
    BY <1>5, <1>7
  <2>2. x.do = "loop body"
    BY <1>7
  <2> QED
    BY <2>1, <2>2 DEF Pops, Refers
<1>10. todo' = Cons(y, Cons(x, Cons(z, Cons(p, rest))))
  <2>1. IsSeq(rest) /\ todo' = <<y, x, z, p>> \o rest
    BY <1>1, <1>2
  <2>2. <<y, x, z, p>> \o rest = Cons(y, Cons(x, Cons(z, Cons(p, rest))))
    BY ONLY <2>1, Tuple4
  <2> QED
    BY ONLY <2>1, <2>2
<1>11. Stack(b, n_allocas, rest, Len(frames), Len(values) + 1, f, m)
  <2>1. n_allocas <= n_allocas
    BY <1>4
  <2> QED
    BY <1>3, <1>4, <1>5, <2>1, Grow
<1>12. Stack(b, n_allocas, Cons(p, rest), Len(frames), Len(values) + 1, f, m)
  BY <1>4, <1>5, <1>7, <1>11, PutPostWhile
<1>13. Stack(b, n_allocas, Cons(z, Cons(p, rest)), Len(frames), Len(values), f, m)
  BY <1>3, <1>4, <1>6, <1>12, PutPush
<1>14. Stack(b, n_allocas, Cons(x, Cons(z, Cons(p, rest))), Len(frames), Len(values) + 1, f, m)
  BY <1>9, <1>13, PutPop
<1>15. Stack(b, n_allocas, Cons(y, Cons(x, Cons(z, Cons(p, rest)))), Len(frames), Len(values), f, m)
  BY <1>3, <1>4, <1>6, <1>14, PutPush
<1>16. IsSeq(values') /\ Len(values') = Len(values)
  BY <1>1, Facts
<1>17. n_allocas <= n_allocas /\ n_allocas' = n_allocas
  BY <1>1, <1>4
<1> QED
  BY <1>1, <1>2, <1>4, <1>5, <1>8, <1>10, <1>15, <1>16, <1>17, Builds

LEMMA LoopBodyKeeps ==
  ASSUME IInv, LoopBody
  PROVE  IInv'
<1>1. Doing("loop body")
  BY DEF LoopBody
<1>2. CASE Top = Null
  <2>1. Crash("null operand")
    BY <1>2 DEF LoopBody
  <2> QED
    BY <2>1, CrashKeeps DEF Outcomes
<1>3. CASE Top # Null
  <2>1. /\ blocks' = Inserted(With(blocks, ip, CondBr(Top, Instr.body, Instr.post)), Instr.body)
        /\ ip' = Instr.body /\ values' = Pop(1) /\ Go(<<>>)
        /\ SameScope /\ SameRest /\ UNCHANGED n_allocas
    BY <1>3 DEF LoopBody
  <2>2. Refers(Len(blocks), n_allocas, Instr) /\ Instr.do = "loop body"
    BY <1>1, AtPop
  <2>3. ip' \in 0..Len(blocks)
    <3>1. ip' \in 1..Len(blocks)
      BY <2>1, <2>2 DEF Refers
    <3> QED
      BY ONLY <3>1
  <2>4. Blocks(blocks', Len(blocks))
    <3> DEFINE c == With(blocks, ip, CondBr(Top, Instr.body, Instr.post))
    <3>1. Blocks(c, Len(blocks))
      BY Facts, WithIs
    <3> QED
      BY <2>1, <3>1, WithIs
  <2> QED
    BY <1>1, <2>1, <2>3, <2>4, UsesUp
<1> QED
  BY <1>2, <1>3

LEMMA PostWhileKeeps ==
  ASSUME IInv, PostWhile
  PROVE  IInv'
<1>1. Doing("post while")
  BY DEF PostWhile
<1>2. CASE Top # Null
  <2>1. Crash("return values from loops")
    BY <1>2 DEF PostWhile
  <2> QED
    BY <2>1, CrashKeeps DEF Outcomes
<1>3. CASE Top = Null
  <2>1. /\ blocks' = Inserted(With(blocks, ip, Br(Instr.cond)), Instr.post)
        /\ ip' = Instr.post /\ Go(<<>>)
        /\ SameScope /\ SameRest /\ UNCHANGED <<values, n_allocas>>
    BY <1>3 DEF PostWhile
  <2>2. /\ Runs /\ IsSeq(Tail(todo)) /\ state = Len(frames)
        /\ Refers(Len(blocks), n_allocas, Instr) /\ Instr.do = "post while"
        /\ \E f, m \in Nat :
             /\ Stack(Len(blocks), n_allocas, Tail(todo), Len(frames), Len(values), f, m)
             /\ m <= Low(Instr, Len(values))
    BY <1>1, AtLook
  <2>3. PICK f, m : Stack(Len(blocks), n_allocas, Tail(todo), Len(frames), Len(values), f, m)
    BY <2>2
  <2>4. todo' = Tail(todo)
    BY <2>1, <2>2, GoNone
  <2>5. ip' \in 0..Len(blocks)
    <3>1. ip' \in 1..Len(blocks)
      BY <2>1, <2>2 DEF Refers
    <3> QED
      BY ONLY <3>1
  <2>6. Blocks(blocks', Len(blocks))
    <3> DEFINE c == With(blocks, ip, Br(Instr.cond))
    <3>1. Blocks(c, Len(blocks))
      BY Facts, WithIs
    <3> QED
      BY <2>1, <3>1, WithIs
  <2>7. IsSeq(values') /\ Len(values') = Len(values)
    BY <2>1, Facts
  <2> QED
    BY <2>1, <2>2, <2>3, <2>4, <2>5, <2>6, <2>7, Stays
<1> QED
  BY <1>2, <1>3

(* A statement that generates an expression and then does x.               *)
LEMMA ThenKeeps ==
  ASSUME IInv, NEW node, node \in {"ExprStmt", "Return", "Assign"}, Generating(node),
         NEW e, T \in Trees => e \in Exprs, NEW x, x.do \in {"drop", "ret", "assign"},
         T \in Trees /\ x.do = "assign" => x.key \in Exprs,
         Go(<<Gen(e), x>>), SameScope, SameRest, UNCHANGED <<values, blocks, ip, n_allocas>>
  PROVE  IInv'
<1>1. node \in StmtNode \union {"Fn"}
  BY DEF StmtNode
<1>2. /\ Runs /\ T \in Trees /\ IsSeq(Tail(todo)) /\ state = Len(frames)
      /\ \E f, m \in Nat :
           Stack(Len(blocks), n_allocas, Tail(todo), Len(frames), Len(values), f, m)
  BY <1>1, AtStmt
<1>3. PICK f, m : Stack(Len(blocks), n_allocas, Tail(todo), Len(frames), Len(values), f, m)
  BY <1>2
<1>4. Pops(x) /\ Refers(Len(blocks), n_allocas, x)
  BY <1>2 DEF Pops, Refers
<1>5. Stack(Len(blocks), n_allocas, Cons(Gen(e), Cons(x, Tail(todo))), Len(frames), Len(values), f, m)
  BY <1>2, <1>3, <1>4, PutValueThen
<1>6. todo' = Cons(Gen(e), Cons(x, Tail(todo)))
  <2> DEFINE y == Gen(e)
             rest == Tail(todo)
  <2>1. IsSeq(rest) /\ todo' = <<y, x>> \o rest
    BY <1>2 DEF Go
  <2> HIDE DEF y, rest
  <2>2. <<y, x>> \o rest = Cons(y, Cons(x, rest))
    BY ONLY <2>1, Tuple2
  <2>3. todo' = Cons(y, Cons(x, rest))
    BY ONLY <2>1, <2>2
  <2> QED
    BY <2>3 DEF y, rest
<1> QED
  BY <1>2, <1>5, <1>6, Quiet

LEMMA GenExprStmtKeeps ==
  ASSUME IInv, GenExprStmt
  PROVE  IInv'
<1>1. /\ Generating("ExprStmt") /\ Go(<<Gen(Kid(1)), Then("drop")>>)
      /\ SameScope /\ SameRest /\ UNCHANGED <<values, blocks, ip, n_allocas>>
  BY DEF GenExprStmt
<1>2. Then("drop").do = "drop" /\ T.node = "ExprStmt"
  BY <1>1 DEF Then, Generating, T
<1>3. T \in Trees => Kid(1) \in Exprs
  BY <1>2, OneKid DEF Kid
<1> QED
  BY <1>1, <1>2, <1>3, ThenKeeps

LEMMA GenReturnKeeps ==
  ASSUME IInv, GenReturn
  PROVE  IInv'
<1>1. /\ Generating("Return") /\ Go(<<Gen(Kid(1)), Then("ret")>>)
      /\ SameScope /\ SameRest /\ UNCHANGED <<values, blocks, ip, n_allocas>>
  BY DEF GenReturn
<1>2. Then("ret").do = "ret" /\ T.node = "Return"
  BY <1>1 DEF Then, Generating, T
<1>3. T \in Trees => Kid(1) \in Exprs
  BY <1>2, OneKid DEF Kid
<1> QED
  BY <1>1, <1>2, <1>3, ThenKeeps

LEMMA GenAssignmentKeeps ==
  ASSUME IInv, GenAssignment
  PROVE  IInv'
<1> DEFINE x == [do |-> "assign", key |-> Kid(1)]
<1>1. /\ Generating("Assign") /\ Go(<<Gen(Kid(2)), x>>)
      /\ SameScope /\ SameRest /\ UNCHANGED <<values, blocks, ip, n_allocas>>
  BY DEF GenAssignment
<1>2. x.do = "assign" /\ x.key = Kid(1) /\ T.node = "Assign"
  BY <1>1 DEF Generating, T
<1>3. T \in Trees => Kid(1) \in Exprs /\ Kid(2) \in Exprs
  BY <1>2, TwoKids DEF Kid
<1> HIDE DEF x
<1> QED
  BY <1>1, <1>2, <1>3, ThenKeeps

LEMMA DropKeeps ==
  ASSUME IInv, Drop
  PROVE  IInv'
<1>1. /\ Doing("drop") /\ Go(<<>>) /\ values' = Pop(1)
      /\ SameScope /\ SameRest /\ UNCHANGED <<blocks, ip, n_allocas>>
  BY DEF Drop
<1>2. Blocks(blocks', Len(blocks)) /\ ip' \in 0..Len(blocks)
  BY <1>1, Facts
<1> QED
  BY <1>1, <1>2, UsesUp

LEMMA CreateRetKeeps ==
  ASSUME IInv, CreateRet
  PROVE  IInv'
<1>1. /\ Doing("ret") /\ Go(<<>>) /\ values' = Pop(1) /\ blocks' = With(blocks, ip, Ret(Top))
      /\ SameScope /\ SameRest /\ UNCHANGED <<ip, n_allocas>>
  BY DEF CreateRet
<1>2. Blocks(blocks', Len(blocks)) /\ ip' \in 0..Len(blocks)
  BY <1>1, Facts, WithIs
<1> QED
  BY <1>1, <1>2, UsesUp

LEMMA AssignKeeps ==
  ASSUME IInv, Assign
  PROVE  IInv'
<1>1. Doing("assign")
  BY DEF Assign
<1>2. CASE Throw
  <2>1. Runs
    BY <1>1, AtPop
  <2> QED
    BY <1>2, <2>1, ThrowKeeps
<1>3. CASE Crash("null operand")
  BY <1>3, CrashKeeps DEF Outcomes
<1>4. CASE ~Throw /\ ~Crash("null operand")
  <2>1. /\ Go(<<>>) /\ values' = Pop(1) /\ blocks' = With(blocks, ip, Store(Named[Instr.key.name], Top))
        /\ SameScope /\ SameRest /\ UNCHANGED <<ip, n_allocas>>
    BY <1>4 DEF Assign
  <2>2. Blocks(blocks', Len(blocks)) /\ ip' \in 0..Len(blocks)
    BY <2>1, Facts, WithIs
  <2> QED
    BY <1>1, <2>1, <2>2, UsesUp
<1> QED
  BY <1>2, <1>3, <1>4

LEMMA PartsOf ==
  ASSUME NEW S, NEW s \in Seq(S), s # <<>>
  PROVE  Head(s) \in S /\ Tail(s) \in Seq(S)
BY HeadTailProperties

LEMMA NextStatementKeeps ==
  ASSUME IInv, NextStatement
  PROVE  IInv'
<1> DEFINE left == Instr.trees
           rest == Tail(todo)
           y == Gen(Head(left))
           c == Catch("statement", Len(frames))
           x == TryEach(Tail(left))
<1>1. /\ Doing("try each")
      /\ todo' = (IF left = <<>> THEN <<>> ELSE <<y, c, x>>) \o rest
      /\ SameScope /\ SameRest /\ UNCHANGED <<values, blocks, ip, n_allocas>>
  BY DEF NextStatement, Go
<1>2. /\ Runs /\ IsSeq(rest) /\ state = Len(frames)
      /\ Refers(Len(blocks), n_allocas, Instr) /\ Instr.do = "try each"
      /\ \E f, m \in Nat :
           Stack(Len(blocks), n_allocas, rest, Len(frames), Len(values), f, m)
  BY <1>1, AtKeep
<1>3. PICK f, m : Stack(Len(blocks), n_allocas, rest, Len(frames), Len(values), f, m)
  BY <1>2
<1>4. left \in Seq(Stmts)
  BY <1>2 DEF Refers
<1> HIDE DEF rest
<1>5. CASE left = <<>>
  <2>1. todo' = rest
    <3>1. todo' = <<>> \o rest
      BY <1>1, <1>5
    <3> QED
      BY <1>2, <3>1, NoneIs
  <2> QED
    BY <1>1, <1>2, <1>3, <2>1, Quiet
<1>6. CASE left # <<>>
  <2>1. todo' = <<y, c, x>> \o rest
    BY <1>1, <1>6
  <2>2. Head(left) \in Stmts /\ Tail(left) \in Seq(Stmts)
    <3> DEFINE S == Stmts
    <3>1. left \in Seq(S)
      BY <1>4
    <3> HIDE DEF S, left
    <3>2. Head(left) \in S /\ Tail(left) \in Seq(S)
      BY <1>6, <3>1, PartsOf
    <3> QED
      BY <3>2 DEF S
  <2>3. Keeps(x) /\ Refers(Len(blocks), n_allocas, x)
    <3>1. x.do = "try each" /\ x.trees \in Seq(Stmts)
      BY <2>2 DEF TryEach
    <3> HIDE DEF x
    <3> QED
      BY <3>1 DEF Keeps, Refers
  <2>4. c.do = "catch" /\ c.of # "result" /\ c.frames = Len(frames) /\ c.values = Len(values)
    BY DEF Catch
  <2>5. Keeps(y) /\ Refers(Len(blocks), n_allocas, y)
    BY <2>2, GenKeeps DEF Stmts
  <2> HIDE DEF y, c, x
  <2>6. Stack(Len(blocks), n_allocas, Cons(x, rest), Len(frames), Len(values), f, m)
    BY <1>3, <2>3, PutKeep
  <2>7. Stack(Len(blocks), n_allocas, Cons(c, Cons(x, rest)), Len(frames), Len(values),
              Len(frames), Len(values))
    BY <2>4, <2>6, PutCatch
  <2>8. Stack(Len(blocks), n_allocas, Cons(y, Cons(c, Cons(x, rest))), Len(frames), Len(values),
              Len(frames), Len(values))
    BY <2>5, <2>7, PutKeep
  <2>9. todo' = Cons(y, Cons(c, Cons(x, rest)))
    <3>1. IsSeq(rest)
      BY <1>2
    <3>2. <<y, c, x>> \o rest = Cons(y, Cons(c, Cons(x, rest)))
      BY ONLY <3>1, Tuple3
    <3> QED
      BY ONLY <2>1, <3>2
  <2> QED
    BY <1>1, <1>2, <2>8, <2>9, Quiet
<1> QED
  BY <1>5, <1>6

LEMMA GlobalCodegenKeeps ==
  ASSUME IInv, GlobalCodegen
  PROVE  IInv'
<1>1. Doing("global")
  BY DEF GlobalCodegen
<1>2. /\ Runs /\ IsSeq(Tail(todo)) /\ state = Len(frames)
      /\ Refers(Len(blocks), n_allocas, Instr) /\ Instr.do = "global"
      /\ \E f, m \in Nat :
           Stack(Len(blocks), n_allocas, Tail(todo), Len(frames), Len(values), f, m)
  BY <1>1, AtKeep
<1>3. PICK f, m : Stack(Len(blocks), n_allocas, Tail(todo), Len(frames), Len(values), f, m)
  BY <1>2
<1>4. CASE Crash("uncaught")
  BY <1>4, CrashKeeps DEF Outcomes
<1>5. CASE ~Crash("uncaught")
  <2>1. /\ globals' \in {globals \union {T.name}, globals} /\ Go(<<>>) /\ SameScope
        /\ UNCHANGED <<program, functions, generated, values, outcome, blocks, ip,
                       n_allocas, errors, warnings>>
    BY <1>5 DEF GlobalCodegen
  <2>2. T.name \in Name
    <3>1. T \in Trees /\ T.node = "Let"
      BY <1>2 DEF Refers, T
    <3> QED
      BY <3>1, KidsAre
  <2>3. Counted'
    BY <2>1, <2>2 DEF IInv, Counted
  <2>4. todo' = Tail(todo)
    BY <1>2, <2>1, GoNone
  <2>5. Blocks(blocks', Len(blocks)) /\ ip' \in 0..Len(blocks) /\ IsSeq(values')
          /\ Len(values') = Len(values)
    BY <2>1, Facts
  <2> QED
    BY <1>2, <1>3, <2>1, <2>3, <2>4, <2>5, Straight
<1> QED
  BY <1>4, <1>5

LEMMA NextDefinitionKeeps ==
  ASSUME IInv, NextDefinition
  PROVE  IInv'
<1> DEFINE left == Instr.trees
           first == Head(left)
           rest == Tail(todo)
           y == Gen(first)
           c == Catch("function", Len(frames))
           g == [do |-> "global", tree |-> first]
           x == DefineEach(Tail(left))
<1>1. /\ Doing("define each")
      /\ todo' = (IF left = <<>> THEN <<>>
                  ELSE (IF first.node = "Fn" THEN <<y, c>> ELSE <<g>>) \o <<x>>) \o rest
      /\ SameScope /\ SameRest /\ UNCHANGED <<values, blocks, ip, n_allocas>>
  BY DEF NextDefinition, Go
<1>2. /\ Runs /\ IsSeq(rest) /\ state = Len(frames)
      /\ Refers(Len(blocks), n_allocas, Instr) /\ Instr.do = "define each"
      /\ \E f, m \in Nat :
           Stack(Len(blocks), n_allocas, rest, Len(frames), Len(values), f, m)
  BY <1>1, AtKeep
<1>3. PICK f, m : Stack(Len(blocks), n_allocas, rest, Len(frames), Len(values), f, m)
  BY <1>2
<1>4. left \in Seq(Toplevel)
  BY <1>2 DEF Refers
<1> HIDE DEF rest
<1>5. CASE left = <<>>
  <2>1. todo' = rest
    <3>1. todo' = <<>> \o rest
      BY <1>1, <1>5
    <3> QED
      BY <1>2, <3>1, NoneIs
  <2> QED
    BY <1>1, <1>2, <1>3, <2>1, Quiet
<1>6. CASE left # <<>>
  <2>1. first \in Toplevel /\ Tail(left) \in Seq(Toplevel)
    <3> DEFINE S == Toplevel
    <3>1. left \in Seq(S)
      BY <1>4
    <3> HIDE DEF S, left
    <3>2. Head(left) \in S /\ Tail(left) \in Seq(S)
      BY <1>6, <3>1, PartsOf
    <3> QED
      BY <3>2 DEF S
  <2>2. Keeps(x) /\ Refers(Len(blocks), n_allocas, x)
    <3>1. x.do = "define each" /\ x.trees \in Seq(Toplevel)
      BY <2>1 DEF DefineEach
    <3> HIDE DEF x
    <3> QED
      BY <3>1 DEF Keeps, Refers
  <2>3. c.do = "catch" /\ c.of # "result" /\ c.frames = Len(frames) /\ c.values = Len(values)
    BY DEF Catch
  <2>4. first \in Trees /\ first.node \in {"Fn", "Let"}
    BY <2>1 DEF Toplevel
  <2>5. Stack(Len(blocks), n_allocas, Cons(x, rest), Len(frames), Len(values), f, m)
    <3> HIDE DEF x
    <3> QED
      BY <1>3, <2>2, PutKeep
  <2>6. CASE first.node = "Fn"
    <3>1. todo' = (<<y, c>> \o <<x>>) \o rest
      BY <1>1, <1>6, <2>6
    <3>2. Keeps(y) /\ Refers(Len(blocks), n_allocas, y)
      BY <2>4, <2>6, GenKeeps
    <3> HIDE DEF y, c, x
    <3>3. todo' = Cons(y, Cons(c, Cons(x, rest)))
      <4>1. IsSeq(rest)
        BY <1>2
      <4>2. IsSeq(<<x>>) /\ <<x>> \o rest = Cons(x, rest) /\ IsSeq(<<y, c>>) /\ IsSeq(<<x>> \o rest)
        BY ONLY <4>1, Tuple1, Tuple2, JoinIs
      <4>3. (<<y, c>> \o <<x>>) \o rest = <<y, c>> \o (<<x>> \o rest)
        BY ONLY <4>1, <4>2, JoinsIs
      <4>4. IsSeq(Cons(x, rest))
        BY <4>2
      <4>5. <<y, c>> \o Cons(x, rest) = Cons(y, Cons(c, Cons(x, rest)))
        BY ONLY <4>4, Tuple2
      <4> QED
        BY ONLY <3>1, <4>2, <4>3, <4>5
    <3>4. Stack(Len(blocks), n_allocas, Cons(c, Cons(x, rest)), Len(frames), Len(values),
                Len(frames), Len(values))
      BY <2>3, <2>5, PutCatch
    <3>5. Stack(Len(blocks), n_allocas, Cons(y, Cons(c, Cons(x, rest))), Len(frames), Len(values),
                Len(frames), Len(values))
      BY <3>2, <3>4, PutKeep
    <3> QED
      BY <1>1, <1>2, <3>3, <3>5, Quiet
  <2>7. CASE first.node # "Fn"
    <3>1. todo' = (<<g>> \o <<x>>) \o rest
      BY <1>1, <1>6, <2>7
    <3>2. Keeps(g) /\ Refers(Len(blocks), n_allocas, g)
      <4>1. g.do = "global" /\ g.tree \in Trees /\ g.tree.node = "Let"
        BY <2>4, <2>7
      <4> HIDE DEF g
      <4> QED
        BY <4>1 DEF Keeps, Refers
    <3> HIDE DEF g, x
    <3>3. todo' = Cons(g, Cons(x, rest))
      <4>1. IsSeq(rest)
        BY <1>2
      <4>2. IsSeq(<<x>>) /\ <<x>> \o rest = Cons(x, rest) /\ IsSeq(<<g>>) /\ IsSeq(<<x>> \o rest)
        BY ONLY <4>1, Tuple1, JoinIs
      <4>3. (<<g>> \o <<x>>) \o rest = <<g>> \o (<<x>> \o rest)
        BY ONLY <4>1, <4>2, JoinsIs
      <4>4. IsSeq(Cons(x, rest))
        BY <4>2
      <4>5. <<g>> \o Cons(x, rest) = Cons(g, Cons(x, rest))
        BY ONLY <4>4, Tuple1
      <4> QED
        BY ONLY <3>1, <4>2, <4>3, <4>5
    <3>4. Stack(Len(blocks), n_allocas, Cons(g, Cons(x, rest)), Len(frames), Len(values), f, m)
      BY <2>5, <3>2, PutKeep
    <3> QED
      BY <1>1, <1>2, <3>3, <3>4, Quiet
  <2> QED
    BY <2>6, <2>7
<1> QED
  BY <1>5, <1>6

-----------------------------------------------------------------------------
(* The steps into a block or a function and out of it.                     *)
LEMMA Enters ==
  ASSUME Runs, UNCHANGED outcome, Counted',
         NEW b \in Nat, Blocks(blocks', b), ip' \in 0..b,
         NEW v \in Nat, n_allocas' = v, Scoped(v, frames'),
         NEW i, Len(frames') = i, i \in 1..(b + 2), state' = i,
         IsSeq(values'), NEW n, Len(values') = n, NEW f, NEW m,
         Stack(b, v, todo', i, n, f, m)
  PROVE  IInv'
<1>1. IsSeq(blocks') /\ Len(blocks') = b
  BY DEF Blocks
<1>2. Built'
  BY <1>1 DEF Built
<1>3. Balanced'
  BY <1>1 DEF Balanced
<1> QED
  BY <1>2, <1>3, Onward

LEMMA NamedIs ==
  ASSUME IInv, state = Len(frames)
  PROVE  /\ Named \in [Name -> 0..n_allocas] /\ DeclarationsBlock \in Nat
         /\ Named = frames[Len(frames)].named /\ Len(frames) # 0
<1> DEFINE S == Scope(n_allocas)
           l == Len(frames)
<1>1. frames \in Seq(S) /\ l \in Nat \ {0}
  BY Facts DEF Scoped
<1> HIDE DEF S
<1>2. l \in 1..l
  BY <1>1
<1>3. frames[l] \in S
  BY <1>1, <1>2, ElementOfSeq
<1>4. frames[l].named \in [Name -> 0..n_allocas] /\ frames[l].declarations_block \in Nat
  <2> DEFINE V == [Name -> 0..n_allocas]
             E == Own(n_allocas)
             r == frames[l]
  <2>1. r \in [named : V, declarations_block : Nat, own : E]
    BY <1>3 DEF S, Scope
  <2> HIDE DEF V, E, r
  <2>2. r.named \in V /\ r.declarations_block \in Nat
    BY <2>1
  <2> QED
    BY <2>2 DEF V, r
<1> QED
  BY <1>1, <1>4 DEF Named, DeclarationsBlock

LEMMA EnterBlockKeeps ==
  ASSUME IInv, EnterBlock
  PROVE  IInv'
<1> DEFINE b == Len(blocks) + 3
           end == New(3)
           frame == Len(frames) + 1
           r == Frame(Named, DeclarationsBlock)
           result == IF T.result = <<>> THEN <<Then("no value")>>
                     ELSE <<Gen(T.result[1]), Catch("result", frame)>>
           t == TryEach(T.kids)
           x == [do |-> "leave block", begin |-> New(1), entry |-> New(2), end |-> end,
                 old |-> state]
           rest == Tail(todo)
<1>1. /\ Generating("Block")
      /\ blocks' = With(blocks, ip, Br(New(1)))
                     \o <<BasicBlock(Fn, TRUE), BasicBlock(Fn, TRUE), BasicBlock(Fn, FALSE)>>
      /\ ip' = New(2) /\ frames' = Append(frames, r) /\ state' = frame
      /\ todo' = ((<<t>> \o result) \o <<x>>) \o rest
      /\ SameRest /\ UNCHANGED <<values, n_allocas>>
  BY DEF EnterBlock, Go
<1>2. /\ Runs /\ T \in Trees /\ T.node = "Block" /\ IsSeq(rest) /\ state = Len(frames)
      /\ \E f, m \in Nat :
           /\ Stack(Len(blocks), n_allocas, rest, Len(frames), Len(values) + 1, f, m)
           /\ m <= Len(values)
  BY <1>1, AtExpr DEF ExprNode
<1>3. PICK f, m :
        /\ Stack(Len(blocks), n_allocas, rest, Len(frames), Len(values) + 1, f, m)
        /\ m <= Len(values)
  BY <1>2
<1>4. /\ Len(values) \in Nat /\ Len(blocks) \in Nat /\ n_allocas \in Nat
      /\ Len(frames) \in Nat \ {0}
  BY Facts
<1>5. b \in Nat /\ Len(blocks) <= b /\ end \in 1..b /\ New(2) \in 0..b /\ n_allocas <= n_allocas
  BY <1>4 DEF New
<1>6. x.do = "leave block" /\ x.old = Len(frames) /\ x.end = end
  BY <1>2
<1>7. Keeps(t) /\ Refers(b, n_allocas, t)
  <2>1. t.do = "try each" /\ t.trees \in Seq(Stmts)
    BY <1>2, KidsAre DEF TryEach
  <2> HIDE DEF t
  <2> QED
    BY <2>1 DEF Keeps, Refers
<1>8. Blocks(blocks', b)
  <2> DEFINE c == With(blocks, ip, Br(New(1)))
  <2>1. Blocks(c, Len(blocks))
    BY Facts, WithIs
  <2> HIDE DEF c
  <2>2. blocks' = c \o <<BasicBlock(Fn, TRUE), BasicBlock(Fn, TRUE), BasicBlock(Fn, FALSE)>>
    BY <1>1 DEF c
  <2> QED
    BY <2>1, <2>2, AddThree
<1>9. Scoped(n_allocas, frames') /\ Len(frames') = frame
  <2>1. r \in Scope(n_allocas)
    <3> DEFINE E == [name : Name, var : 1..n_allocas]
               V == [Name -> 0..n_allocas]
    <3>1. r = [named |-> Named, declarations_block |-> DeclarationsBlock, own |-> <<>>]
      BY DEF Frame
    <3>2. Named \in V /\ DeclarationsBlock \in Nat
      BY <1>2, NamedIs
    <3> HIDE DEF E, V, r
    <3>3. <<>> \in Seq(E)
      OBVIOUS
    <3>4. Scope(n_allocas) = [named : V, declarations_block : Nat, own : Seq(E)]
      BY DEF Scope, Own, E, V
    <3> QED
      BY <3>1, <3>2, <3>3, <3>4
  <2>2. Binds(frames[Len(frames)].named, r)
    <3>1. r.named = frames[Len(frames)].named /\ r.own = <<>>
      BY <1>2, NamedIs DEF Frame
    <3> HIDE DEF r
    <3>2. \A y \in Name : Decls(r.own, y) = {}
      <4>1. Len(<<>>) = 0 /\ 1..0 = {}
        OBVIOUS
      <4> QED
        BY <3>1, <4>1 DEF Decls
    <3> QED
      BY <3>1, <3>2 DEF Binds
  <2>3. Len(frames) # 0 /\ Scoped(n_allocas, frames)
    BY <1>4, Facts
  <2> HIDE DEF r
  <2> QED
    BY <1>1, <2>1, <2>2, <2>3, ScopedPush
<1>10. frame \in 1..(b + 2) /\ frame \in Nat
  <2>1. Len(frames) \in 1..(Len(blocks) + 2)
    BY DEF IInv, Built
  <2> QED
    BY <1>4, <2>1
<1>11. Stack(b, n_allocas, rest, Len(frames), Len(values) + 1, f, m)
  BY <1>3, <1>4, <1>5, Grow
<1>12. Stack(b, n_allocas, Cons(x, rest), frame, Len(values) + 1, f, m)
  <2> HIDE DEF x, rest, b
  <2> QED
    BY <1>5, <1>6, <1>11, PutLeave
<1>13. Cons(x, rest) # <<>> /\ Head(Cons(x, rest)).do = "leave block" /\ IsSeq(Cons(x, rest))
  <2> HIDE DEF x, rest
  <2>1. IsSeq(<<x>> \o rest) /\ Len(<<x>> \o rest) = Len(rest) + 1 /\ Len(rest) \in Nat
          /\ (<<x>> \o rest)[1] = x
    BY <1>2, ConsIs
  <2> DEFINE u == <<x>> \o rest
  <2> HIDE DEF u
  <2>2. u # <<>>
    <3>1. Len(u) = Len(rest) + 1 /\ Len(rest) \in Nat
      BY <2>1 DEF u
    <3>2. Len(u) # 0
      BY ONLY <3>1
    <3>3. Len(<<>>) = 0
      OBVIOUS
    <3> QED
      BY <3>2, <3>3
  <2>3. IsSeq(u) /\ u[1] = x
    BY <2>1 DEF u
  <2>4. Head(u) = u[1]
    BY <2>2, <2>3, TailIs
  <2> QED
    BY <1>6, <2>2, <2>3, <2>4 DEF Cons, u
<1>14. \E q, g, o : /\ IsSeq(result) /\ q = result \o Cons(x, rest)
                    /\ Stack(b, n_allocas, q, frame, Len(values), g, o)
  <2> DEFINE u == Cons(x, rest)
  <2>1. IsSeq(u) /\ u # <<>> /\ Head(u).do = "leave block"
          /\ Stack(b, n_allocas, u, frame, Len(values) + 1, f, m)
    BY <1>12, <1>13
  <2> HIDE DEF u
  <2>2. CASE T.result = <<>>
    <3> DEFINE y == Then("no value")
    <3>1. Pushes(y)
      BY DEF Pushes, Then
    <3> HIDE DEF y
    <3>2. Stack(b, n_allocas, Cons(y, u), frame, Len(values), f, m)
      BY <1>3, <1>4, <2>1, <3>1, PutPush
    <3>3. IsSeq(<<y>>) /\ <<y>> \o u = Cons(y, u)
      BY <2>1, Tuple1
    <3>4. result = <<y>>
      BY <2>2 DEF y
    <3> QED
      BY <3>2, <3>3, <3>4 DEF u
  <2>3. CASE T.result # <<>>
    <3>1. PICK e \in Exprs : T.result = <<e>>
      BY <1>2, <2>3, KidsAre
    <3> DEFINE y == Gen(e)
               c == Catch("result", frame)
    <3>2. result = <<y, c>>
      <4>1. T.result[1] = e
        BY <3>1
      <4> QED
        BY <2>3, <4>1
    <3>3. c.do = "catch" /\ c.of = "result" /\ c.frames = frame /\ c.values = Len(values)
      BY DEF Catch
    <3>4. Pushes(y)
      BY GenPushes
    <3> HIDE DEF y, c
    <3>5. Stack(b, n_allocas, Cons(c, u), frame, Len(values) + 1, frame, Len(values))
      BY <1>3, <1>4, <2>1, <3>3, PutResultCatch
    <3>6. Len(values) <= Len(values)
      BY <1>4
    <3>7. Stack(b, n_allocas, Cons(y, Cons(c, u)), frame, Len(values), frame, Len(values))
      BY <1>4, <3>4, <3>5, <3>6, PutPush
    <3>8. IsSeq(<<y, c>>) /\ <<y, c>> \o u = Cons(y, Cons(c, u))
      <4>1. IsSeq(u)
        BY <2>1
      <4> QED
        BY ONLY <4>1, Tuple2
    <3> QED
      BY <3>2, <3>7, <3>8 DEF u
  <2> QED
    BY <2>2, <2>3
<1>15. PICK q, g, o : /\ IsSeq(result) /\ q = result \o Cons(x, rest)
                      /\ Stack(b, n_allocas, q, frame, Len(values), g, o)
  BY <1>14
<1>16. Stack(b, n_allocas, Cons(t, q), frame, Len(values), g, o)
  <2> HIDE DEF t, result, frame, b, x, rest
  <2> QED
    BY <1>7, <1>15, PutKeep
<1>17. todo' = Cons(t, q)
  <2>1. IsSeq(rest) /\ IsSeq(result) /\ IsSeq(q)
    BY <1>2, <1>15, StackIs
  <2>2. todo' = ((<<t>> \o result) \o <<x>>) \o rest /\ q = result \o Cons(x, rest)
    BY <1>1, <1>15
  <2> HIDE DEF t, result, x, rest
  <2>3. IsSeq(<<t>>) /\ IsSeq(<<x>>) /\ <<x>> \o rest = Cons(x, rest) /\ <<t>> \o q = Cons(t, q)
    BY ONLY <2>1, Tuple1
  <2>4. IsSeq(<<t>> \o result) /\ IsSeq(<<x>> \o rest)
    BY ONLY <2>1, <2>3, JoinIs
  <2>5. ((<<t>> \o result) \o <<x>>) \o rest = (<<t>> \o result) \o (<<x>> \o rest)
    BY ONLY <2>1, <2>3, <2>4, JoinsIs
  <2>6. (<<t>> \o result) \o (<<x>> \o rest) = <<t>> \o (result \o (<<x>> \o rest))
    BY ONLY <2>1, <2>3, <2>4, JoinsIs
  <2> QED
    BY ONLY <2>2, <2>3, <2>5, <2>6
<1>18. IsSeq(values') /\ Len(values') = Len(values) /\ n_allocas' = n_allocas
  BY <1>1, Facts
<1>19. Counted' /\ UNCHANGED outcome
  BY <1>1, CountedSame
<1> HIDE DEF b, end, frame, r, result, t, x, rest
<1> QED
  BY <1>1, <1>2, <1>4, <1>5, <1>8, <1>9, <1>10, <1>16, <1>17, <1>18, <1>19, Enters

LEMMA CutOne ==
  ASSUME IInv, NEW i \in Nat \ {0}, Len(frames) = i + 1
  PROVE  Scoped(n_allocas, Front(frames)) /\ Len(Front(frames)) = i
<1>1. Len(frames) - 1 = i /\ i \in 0..Len(frames)
  BY ONLY i \in Nat \ {0}, Len(frames) = i + 1
<1>2. Front(frames) = SubSeq(frames, 1, i)
  BY <1>1 DEF Front
<1> QED
  BY <1>1, <1>2, Facts, ScopedCut

LEMMA LeaveBlockKeeps ==
  ASSUME IInv, LeaveBlock
  PROVE  IInv'
<1> DEFINE b == Len(blocks)
<1>1. /\ Doing("leave block")
      /\ \E c, ends : /\ blocks' = [Inserted(With(With(blocks, Instr.begin, Br(Instr.entry)),
                                                  ip, Br(Instr.end)), Instr.end)
                                      EXCEPT ![c].insts = @ \o ends]
      /\ ip' = Instr.end /\ frames' = Front(frames) /\ state' = Instr.old
      /\ Go(<<>>) /\ SameRest /\ UNCHANGED <<values, n_allocas>>
  BY DEF LeaveBlock
<1>2. /\ Runs /\ Instr.do = "leave block" /\ IsSeq(Tail(todo))
      /\ Refers(Len(blocks), n_allocas, Instr)
      /\ \E i1 \in Nat \ {0}, n1, f1, m1 \in Nat :
           /\ Moves(Instr, Len(frames), Len(values), i1, n1)
           /\ Stack(Len(blocks), n_allocas, Tail(todo), i1, n1, f1, m1)
           /\ f1 <= Len(frames) /\ m1 <= Low(Instr, Len(values))
  BY <1>1, Running
<1>3. PICK i \in Nat \ {0}, n1, f, m \in Nat :
           /\ Moves(Instr, Len(frames), Len(values), i, n1)
           /\ Stack(Len(blocks), n_allocas, Tail(todo), i, n1, f, m)
  BY <1>2
<1>4. Len(frames) = i + 1 /\ n1 = Len(values) /\ Instr.old = i
  BY <1>2, <1>3, MovesLeave
<1>5. todo' = Tail(todo)
  BY <1>1, <1>2, GoNone
<1>6. ip' \in 0..b
  <2>1. Instr.end \in 1..b
    BY <1>2 DEF Refers
  <2>2. ip' \in 1..b
    BY <1>1, <2>1
  <2> HIDE DEF b
  <2> QED
    BY ONLY <2>2
<1>7. Blocks(blocks', b)
  <2> DEFINE c == With(blocks, Instr.begin, Br(Instr.entry))
             d == With(c, ip, Br(Instr.end))
             e == Inserted(d, Instr.end)
  <2>1. Blocks(c, b)
    BY Facts, WithIs
  <2> HIDE DEF b, c
  <2>2. Blocks(d, b)
    BY <2>1, WithIs
  <2> HIDE DEF d
  <2>3. Blocks(e, b)
    BY <2>2, WithIs
  <2>4. PICK k, ends : blocks' = [e EXCEPT ![k].insts = @ \o ends]
    BY <1>1 DEF c, d
  <2> HIDE DEF e
  <2> QED
    BY <2>3, <2>4, ManyIs
<1>8. Scoped(n_allocas, frames') /\ Len(frames') = i
  BY <1>1, <1>4, CutOne
<1>9. b \in Nat /\ n_allocas \in Nat /\ i \in 1..(b + 2)
  <2>1. Len(frames) \in 1..(b + 2) /\ b \in Nat /\ n_allocas \in Nat
    BY Facts DEF IInv, Built
  <2>2. Len(frames) = i + 1
    BY <1>4
  <2> HIDE DEF b
  <2> QED
    BY ONLY <2>1, <2>2, i \in Nat \ {0}
<1>10. IsSeq(values') /\ Len(values') = Len(values) /\ n_allocas' = n_allocas
  BY <1>1, Facts
<1>11. Counted' /\ UNCHANGED outcome
  BY <1>1, CountedSame
<1>12. state' = i /\ Stack(b, n_allocas, todo', i, Len(values), f, m)
  BY <1>1, <1>3, <1>4, <1>5
<1> HIDE DEF b
<1> QED
  BY <1>2, <1>6, <1>7, <1>8, <1>9, <1>10, <1>11, <1>12, Enters

LEMMA EndFunctionKeeps ==
  ASSUME IInv, EndFunction
  PROVE  IInv'
<1> DEFINE b == Len(blocks)
<1>1. /\ Doing("end function")
      /\ blocks' = With(With(blocks, ip, Ret(OrZero(Top))), Instr.decls, Br(Instr.decls + 1))
      /\ ip' = Instr.decls /\ values' = Pop(1)
      /\ frames' = Front(frames) /\ state' = Instr.old
      /\ Go(<<>>) /\ SameRest /\ UNCHANGED n_allocas
  BY DEF EndFunction
<1>2. /\ Runs /\ Instr.do = "end function" /\ IsSeq(Tail(todo))
      /\ Refers(Len(blocks), n_allocas, Instr)
      /\ \E i1 \in Nat \ {0}, n1, f1, m1 \in Nat :
           /\ Moves(Instr, Len(frames), Len(values), i1, n1)
           /\ Stack(Len(blocks), n_allocas, Tail(todo), i1, n1, f1, m1)
           /\ f1 <= Len(frames) /\ m1 <= Low(Instr, Len(values))
  BY <1>1, AtOther
<1>3. PICK i \in Nat \ {0}, n \in Nat, f \in Nat, m \in Nat :
           /\ Moves(Instr, Len(frames), Len(values), i, n)
           /\ Stack(Len(blocks), n_allocas, Tail(todo), i, n, f, m)
  BY <1>2
<1>4. Len(frames) = i + 1 /\ Len(values) = n + 1 /\ Instr.old = i
  BY <1>2, <1>3, MovesEndFunction
<1>5. todo' = Tail(todo)
  BY <1>1, <1>2, GoNone
<1>6. ip' \in 0..b
  <2>1. Instr.decls \in 1..b
    BY <1>2 DEF Refers
  <2>2. ip' \in 1..b
    BY <1>1, <2>1
  <2> HIDE DEF b
  <2> QED
    BY ONLY <2>2
<1>7. Blocks(blocks', b)
  <2> DEFINE c == With(blocks, ip, Ret(OrZero(Top)))
  <2>1. Blocks(c, b)
    BY Facts, WithIs
  <2> HIDE DEF b, c
  <2>2. blocks' = With(c, Instr.decls, Br(Instr.decls + 1))
    BY <1>1 DEF c
  <2> QED
    BY <2>1, <2>2, WithIs
<1>8. Scoped(n_allocas, frames') /\ Len(frames') = i
  BY <1>1, <1>4, CutOne
<1>9. b \in Nat /\ n_allocas \in Nat /\ i \in 1..(b + 2)
  <2>1. Len(frames) \in 1..(b + 2) /\ b \in Nat /\ n_allocas \in Nat
    BY Facts DEF IInv, Built
  <2>2. Len(frames) = i + 1
    BY <1>4
  <2> HIDE DEF b
  <2> QED
    BY ONLY <2>1, <2>2, i \in Nat \ {0}
<1>10. IsSeq(values') /\ Len(values') = n /\ n_allocas' = n_allocas
  <2>1. Len(values) = n + 1
    BY <1>4
  <2>2. Len(values) - 1 = n /\ n \in 0..Len(values)
    BY ONLY <2>1, n \in Nat
  <2>3. values' = SubSeq(values, 1, n)
    BY <1>1, <2>2 DEF Pop
  <2> QED
    BY <1>1, <2>2, <2>3, Facts, PoppedIs
<1>11. Counted' /\ UNCHANGED outcome
  BY <1>1, CountedSame
<1>12. state' = i /\ Stack(b, n_allocas, todo', i, n, f, m)
  BY <1>1, <1>3, <1>4, <1>5
<1> HIDE DEF b
<1> QED
  BY <1>2, <1>6, <1>7, <1>8, <1>9, <1>10, <1>11, <1>12, Enters

LEMMA GenDeclAssignmentKeeps ==
  ASSUME IInv, GenDeclAssignment
  PROVE  IInv'
<1> DEFINE b == Len(blocks)
           v == n_allocas + 1
           x == [do |-> "declare", name |-> T.name, var |-> v, has_value |-> T.kids # <<>>]
           rest == Tail(todo)
<1>1. /\ Generating("Let") /\ n_allocas' = v
      /\ blocks' = Allocated(blocks, DeclarationsBlock, v, T.name)
      /\ todo' = ((IF T.kids = <<>> THEN <<>> ELSE <<Gen(Kid(1))>>) \o <<x>>) \o rest
      /\ SameScope /\ SameRest /\ UNCHANGED <<values, ip>>
  BY DEF GenDeclAssignment, Go
<1>2. /\ Runs /\ T \in Trees /\ T.node = "Let" /\ IsSeq(rest) /\ state = Len(frames)
      /\ \E f, m \in Nat :
           Stack(Len(blocks), n_allocas, rest, Len(frames), Len(values), f, m)
  BY <1>1, AtStmt DEF StmtNode
<1>3. PICK f, m : Stack(b, n_allocas, rest, Len(frames), Len(values), f, m)
  BY <1>2
<1>4. Len(values) \in Nat /\ b \in Nat /\ n_allocas \in Nat
  BY Facts
<1>5. v \in Nat /\ n_allocas <= v /\ b <= b /\ v \in 1..v
  BY <1>4
<1>6. x.do = "declare" /\ x.name \in Name /\ x.var = v /\ x.has_value = (T.kids # <<>>)
  BY <1>2, KidsAre
<1>7. Blocks(blocks', b) /\ ip' \in 0..b
  BY <1>1, Facts, AllocatedIs
<1>8. IsSeq(values') /\ Len(values') = Len(values)
  BY <1>1, Facts
<1> HIDE DEF b, v, x, rest
<1>9. Refers(b, v, x)
  <2> DEFINE V == 1..v
  <2>1. x.var \in V
    BY <1>5, <1>6
  <2> HIDE DEF V
  <2>2. x.do = "declare" /\ x.name \in Name
    BY <1>6
  <2> QED
    BY <2>1, <2>2 DEF Refers, V
<1>10. Stack(b, v, rest, Len(frames), Len(values), f, m)
  BY <1>3, <1>4, <1>5, Grow
<1>11. IsSeq(rest) /\ IsSeq(<<x>>) /\ <<x>> \o rest = Cons(x, rest)
  <2>1. IsSeq(rest)
    BY <1>2
  <2> QED
    BY ONLY <2>1, Tuple1
<1>12. CASE T.kids = <<>>
  <2>1. todo' = (<<>> \o <<x>>) \o rest
    BY <1>1, <1>12
  <2>2. <<>> \o <<x>> = <<x>>
    BY ONLY <1>11, NoneIs
  <2>3. todo' = Cons(x, rest)
    BY ONLY <1>11, <2>1, <2>2
  <2>4. Keeps(x)
    BY <1>6, <1>12 DEF Keeps
  <2>5. Stack(b, v, Cons(x, rest), Len(frames), Len(values), f, m)
    BY <1>9, <1>10, <2>4, PutKeep
  <2> QED
    BY <1>1, <1>2, <1>4, <1>5, <1>7, <1>8, <2>3, <2>5, Builds DEF b
<1>13. CASE T.kids # <<>>
  <2> DEFINE e == Kid(1)
             y == Gen(e)
  <2>1. e \in Exprs
    <3> DEFINE s == T.kids
               E == Exprs
    <3>1. T.node # "Block"
      BY <1>2
    <3>2. s \in Seq(E)
      BY <1>2, <3>1, KidsAre
    <3>3. s # <<>>
      BY <1>13
    <3> HIDE DEF s, E
    <3>4. s[1] \in E
      <4>1. Head(s) \in E /\ Head(s) = s[1]
        BY <3>2, <3>3, PartsOf
      <4> QED
        BY <4>1
    <3> QED
      BY <3>4 DEF s, E, Kid
  <2>2. todo' = (<<y>> \o <<x>>) \o rest
    BY <1>1, <1>13
  <2>3. Pops(x)
    BY <1>6, <1>13 DEF Pops
  <2>4. Stack(b, v, Cons(y, Cons(x, rest)), Len(frames), Len(values), f, m)
    <3> HIDE DEF e
    <3> QED
      BY <1>9, <1>10, <2>1, <2>3, PutValueThen
  <2> HIDE DEF y
  <2>5. todo' = Cons(y, Cons(x, rest))
    <3>1. IsSeq(<<y>>) /\ IsSeq(<<x>> \o rest)
      BY ONLY <1>11, Tuple1, JoinIs
    <3>2. (<<y>> \o <<x>>) \o rest = <<y>> \o (<<x>> \o rest)
      BY ONLY <1>11, <3>1, JoinsIs
    <3>3. IsSeq(Cons(x, rest))
      BY <1>11, <3>1
    <3>4. <<y>> \o Cons(x, rest) = Cons(y, Cons(x, rest))
      BY ONLY <3>3, Tuple1
    <3> QED
      BY ONLY <1>11, <2>2, <3>2, <3>4
  <2> QED
    BY <1>1, <1>2, <1>4, <1>5, <1>7, <1>8, <2>4, <2>5, Builds DEF b
<1> QED
  BY <1>12, <1>13

LEMMA DeclareKeeps ==
  ASSUME IInv, Declare
  PROVE  IInv'
<1> DEFINE b == Len(blocks)
           x == Instr.name
           a == Instr.var
           p == IF Instr.has_value THEN 1 ELSE 0
           rest == Tail(todo)
<1>1. Doing("declare")
  BY DEF Declare
<1>2. /\ Runs /\ Instr.do = "declare" /\ IsSeq(rest) /\ state = Len(frames)
      /\ Refers(Len(blocks), n_allocas, Instr)
      /\ \E i1 \in Nat \ {0}, n1, f1, m1 \in Nat :
           /\ Moves(Instr, Len(frames), Len(values), i1, n1)
           /\ Stack(Len(blocks), n_allocas, rest, i1, n1, f1, m1)
           /\ f1 <= Len(frames) /\ m1 <= Low(Instr, Len(values))
  BY <1>1, AtOther
<1>3. PICK i1, n \in Nat, f \in Nat, m \in Nat :
           /\ Moves(Instr, Len(frames), Len(values), i1, n)
           /\ Stack(Len(blocks), n_allocas, rest, i1, n, f, m)
  BY <1>2
<1>4. i1 = Len(frames) /\ Len(values) = n + p
  <2>1. i1 = Len(frames) /\ (Instr.has_value => Len(values) = n + 1)
          /\ (~Instr.has_value => Len(values) = n)
    BY <1>2, <1>3, MovesDeclare
  <2>2. n + 0 = n
    BY ONLY n \in Nat
  <2> QED
    BY <2>1, <2>2
<1>5. CASE Crash("null operand")
  BY <1>5, CrashKeeps DEF Outcomes
<1>6. CASE ~Crash("null operand")
  <2>1. /\ \E c, d, e, stored : /\ blocks' = With(stored, c, LifetimeStart(a))
                                /\ stored \in {With(blocks, d, e), blocks}
        /\ values' = Pop(p)
        /\ frames' = [frames EXCEPT ![state].named[x] = a,
                                    ![Len(frames)].own = Append(@, [name |-> x, var |-> a])]
        /\ Go(<<>>) /\ SameRest /\ UNCHANGED <<state, ip, n_allocas>>
    BY <1>6 DEF Declare
  <2>2. frames' = [frames EXCEPT ![Len(frames)].named[x] = a,
                                 ![Len(frames)].own = Append(@, [name |-> x, var |-> a])]
    BY <1>2, <2>1
  <2>3. x \in Name /\ a \in 1..n_allocas
    BY <1>2 DEF Refers
  <2>4. Scoped(n_allocas, frames') /\ Len(frames') = Len(frames)
    <3> HIDE DEF x, a, p, b, rest
    <3>1. n_allocas \in Nat /\ Scoped(n_allocas, frames) /\ Len(frames) # 0
      BY Facts
    <3>2. frames' = Declared(frames, x, a)
      BY <2>2 DEF Declared
    <3> QED
      BY ONLY <2>3, <3>1, <3>2, ScopedDeclare
  <2>5. Blocks(blocks', b)
    <3>1. PICK c, d, e, stored : /\ blocks' = With(stored, c, LifetimeStart(a))
                                 /\ stored \in {With(blocks, d, e), blocks}
      BY <2>1
    <3>2. Blocks(stored, b)
      BY <3>1, Facts, WithIs
    <3> QED
      BY <3>1, <3>2, WithIs
  <2>6. p \in {0, 1}
    OBVIOUS
  <2> HIDE DEF p
  <2>7. IsSeq(values') /\ Len(values') = n
    <3>1. Len(values) - p = n /\ n \in 0..Len(values)
      BY ONLY <1>4, <2>6, n \in Nat
    <3>2. values' = SubSeq(values, 1, n)
      BY <2>1, <3>1 DEF Pop
    <3> QED
      BY <3>1, <3>2, Facts, PoppedIs
  <2>8. todo' = rest
    BY <1>2, <2>1, GoNone
  <2>9. b \in Nat /\ n_allocas \in Nat /\ ip' \in 0..b /\ Len(frames) \in 1..(b + 2)
          /\ n_allocas' = n_allocas /\ state' = Len(frames)
    BY <1>2, <2>1, Facts DEF IInv, Built
  <2>10. Counted' /\ UNCHANGED outcome
    BY <2>1, CountedSame
  <2>11. Stack(b, n_allocas, todo', Len(frames), n, f, m)
    BY <1>3, <1>4, <2>8
  <2> HIDE DEF b, x, a, rest
  <2> QED
    BY <1>2, <2>4, <2>5, <2>7, <2>9, <2>10, <2>11, Enters
<1> QED
  BY <1>5, <1>6

(* The parameters of a function are the declarations of its frame.         *)
LEMMA ParamsAre ==
  ASSUME NEW v \in Nat, NEW ps \in Seq(Name), NEW outer \in [Name -> 0..v], NEW d \in Nat
  PROVE  LET n == Len(ps)
             params == [k \in 1..n |-> [name |-> ps[k], var |-> v + k]]
             latest(x) == {p \in 1..n : ps[p] = x}
             named == [x \in Name |-> IF latest(x) = {} THEN outer[x]
                                      ELSE v + Max(latest(x))]
             r == [Frame(named, d) EXCEPT !.own = params]
         IN  n \in Nat /\ r \in Scope(v + n) /\ Binds(outer, r)
<1> DEFINE n == Len(ps)
           params == [k \in 1..n |-> [name |-> ps[k], var |-> v + k]]
           latest(x) == {p \in 1..n : ps[p] = x}
           named == [x \in Name |-> IF latest(x) = {} THEN outer[x]
                                    ELSE v + Max(latest(x))]
           r == [Frame(named, d) EXCEPT !.own = params]
           V == 0..(v + n)
           W == 1..(v + n)
           E == [name : Name, var : W]
<1>1. n \in Nat /\ \A k \in 1..n : ps[k] \in Name
  BY ElementOfSeq, LenProperties
<1>2. /\ \A k \in 1..n : v + k \in W /\ v + k \in V
      /\ 0..v \subseteq V
  BY <1>1
<1>3. ASSUME NEW x, latest(x) # {}
      PROVE  Max(latest(x)) \in latest(x)
  <2>1. latest(x) \in SUBSET Int /\ n \in Int /\ \A p \in latest(x) : p <= n
    BY <1>1
  <2> HIDE DEF latest, n
  <2> QED
    BY <1>3, <2>1, GreatestOf
<1>4. named \in [Name -> V]
  <2> SUFFICES ASSUME NEW x \in Name
               PROVE  (IF latest(x) = {} THEN outer[x] ELSE v + Max(latest(x))) \in V
    OBVIOUS
  <2>1. CASE latest(x) = {}
    BY <1>2, <2>1
  <2>2. CASE latest(x) # {}
    <3>1. Max(latest(x)) \in 1..n
      BY <1>3, <2>2
    <3>2. v + Max(latest(x)) \in V
      BY <1>2, <3>1
    <3> QED
      BY <2>2, <3>2
  <2> QED
    BY <2>1, <2>2
<1>5. /\ \A k \in 1..n : params[k] \in E /\ params[k].name = ps[k] /\ params[k].var = v + k
      /\ params = [k \in 1..n |-> params[k]]
  <2> HIDE DEF V, W
  <2> QED
    BY <1>1, <1>2
<1>6. params \in Seq(E) /\ Len(params) = n
  <2> HIDE DEF params, E, n
  <2>1. params \in [1..n -> E]
    BY <1>5
  <2>2. params \in Seq(E)
    BY ONLY <1>1, <2>1
  <2>3. Len(params) = n
    BY <1>1, <1>5, MapIs
  <2> QED
    BY <2>2, <2>3
<1>7. r = [named |-> named, declarations_block |-> d, own |-> params]
  <2> HIDE DEF named, params
  <2> QED
    BY DEF Frame
<1>8. r \in Scope(v + n)
  <2> DEFINE F == [Name -> V]
             G == Seq(E)
  <2>1. named \in F /\ params \in G
    BY <1>4, <1>6
  <2>2. Scope(v + n) = [named : F, declarations_block : Nat, own : G]
    BY DEF Scope, Own
  <2> HIDE DEF F, G, r, named, params
  <2> QED
    BY <1>7, <2>1, <2>2
<1>9. ASSUME NEW x \in Name
      PROVE  r.named[x] = IF Decls(r.own, x) = {} THEN outer[x]
                          ELSE r.own[Max(Decls(r.own, x))].var
  <2>1. r.named = named /\ r.own = params
    <3> HIDE DEF r, named, params
    <3> QED
      BY <1>7
  <2>2. named[x] = IF latest(x) = {} THEN outer[x] ELSE v + Max(latest(x))
    OBVIOUS
  <2> HIDE DEF r, named, params
  <2>3. Decls(r.own, x) = latest(x)
    BY <1>5, <1>6, <2>1 DEF Decls
  <2>4. CASE latest(x) = {}
    BY <2>1, <2>2, <2>3, <2>4
  <2>5. CASE latest(x) # {}
    <3>1. Max(latest(x)) \in 1..n
      BY <1>3, <2>5
    <3>2. params[Max(latest(x))].var = v + Max(latest(x))
      BY <1>5, <3>1
    <3> QED
      BY <2>1, <2>2, <2>3, <2>5, <3>2
  <2> QED
    BY <2>4, <2>5
<1>10. Binds(outer, r)
  BY <1>9 DEF Binds
<1> QED
  BY <1>1, <1>8, <1>10

LEMMA GenFunctionDefKeeps ==
  ASSUME IInv, GenFunctionDef
  PROVE  IInv'
<1> DEFINE b == Len(blocks) + 2
           n == Len(T.params)
           v == n_allocas + n
           params == [k \in 1..n |-> [name |-> T.params[k], var |-> n_allocas + k]]
           latest(x) == {p \in 1..n : T.params[p] = x}
           named == [x \in Name |-> IF latest(x) = {} THEN Named[x]
                                    ELSE n_allocas + Max(latest(x))]
           r == [Frame(named, New(1)) EXCEPT !.own = params]
           i == Len(frames) + 1
           y == Gen(Kid(1))
           x == [do |-> "end function", decls |-> New(1), old |-> state]
           rest == Tail(todo)
<1>1. Generating("Fn")
  BY DEF GenFunctionDef
<1>2. /\ Runs /\ T \in Trees /\ T.node = "Fn" /\ IsSeq(rest) /\ state = Len(frames)
      /\ \E f, m \in Nat :
           Stack(Len(blocks), n_allocas, rest, Len(frames), Len(values), f, m)
  BY <1>1, AtStmt
<1>3. CASE Throw
  BY <1>2, <1>3, ThrowKeeps
<1>4. CASE ~Throw
  <2>1. /\ \E c, d : blocks' = blocks \o <<c, d>>
        /\ ip' = New(2) /\ n_allocas' = v /\ generated' = generated \union {T.name}
        /\ frames' = Append(frames, r) /\ state' = i
        /\ todo' = <<y, x>> \o rest
        /\ UNCHANGED <<program, functions, globals, values, outcome, errors, warnings>>
    BY <1>4 DEF GenFunctionDef, Go
  <2>2. PICK f, m : Stack(Len(blocks), n_allocas, rest, Len(frames), Len(values), f, m)
    BY <1>2
  <2>3. /\ Len(values) \in Nat /\ Len(blocks) \in Nat /\ n_allocas \in Nat
        /\ Len(frames) \in Nat \ {0} /\ Len(frames) \in 1..(Len(blocks) + 2)
    BY Facts DEF IInv, Built
  <2>4. T.params \in Seq(Name) /\ T.name \in Name /\ Kid(1) \in Exprs
    <3>1. T.node \in {"ExprStmt", "Return", "Fn"} /\ T.node \in {"VarRef", "Call", "Let", "Fn"}
      BY <1>2
    <3> QED
      BY <1>2, <3>1, KidsAre, OneKid DEF Kid
  <2>5. /\ Named \in [Name -> 0..n_allocas] /\ Named = frames[Len(frames)].named
        /\ Len(frames) # 0
    BY <1>2, NamedIs
  <2>6. New(1) \in Nat /\ b \in Nat /\ Len(blocks) <= b /\ New(1) \in 1..b /\ New(2) \in 0..b
          /\ i \in 1..(b + 2)
    BY <2>3 DEF New
  <2>7. n \in Nat /\ r \in Scope(v) /\ Binds(Named, r)
    <3> DEFINE ps == T.params
               outer == Named
               a == n_allocas
               d == New(1)
    <3>1. ps \in Seq(Name) /\ outer \in [Name -> 0..a] /\ a \in Nat /\ d \in Nat
      BY <2>3, <2>4, <2>5, <2>6
    <3> HIDE DEF ps, outer, a, d
    <3>2. LET l == Len(ps)
              qs == [k \in 1..l |-> [name |-> ps[k], var |-> a + k]]
              last(z) == {p \in 1..l : ps[p] = z}
              names == [z \in Name |-> IF last(z) = {} THEN outer[z]
                                       ELSE a + Max(last(z))]
              q == [Frame(names, d) EXCEPT !.own = qs]
          IN  l \in Nat /\ q \in Scope(a + l) /\ Binds(outer, q)
      BY ONLY <3>1, ParamsAre
    <3> QED
      BY ONLY <3>2 DEF ps, outer, a, d, n, v, params, latest, named, r
  <2>8. v \in Nat /\ n_allocas <= v
    <3> HIDE DEF n
    <3> QED
      BY <2>3, <2>7
  <2>9. x.do = "end function" /\ x.old = Len(frames) /\ x.decls = New(1)
    BY <1>2
  <2>10. Pushes(y)
    BY <2>4, GenPushes
  <2>11. IsSeq(values') /\ Len(values') = Len(values)
    BY <2>1, Facts
  <2>12. Counted' /\ UNCHANGED outcome
    BY <2>1, <2>4 DEF IInv, Counted
  <2>13. Blocks(blocks', b)
    <3>1. Blocks(blocks, Len(blocks))
      BY Facts
    <3> QED
      BY <2>1, <3>1, AddTwo
  <2> HIDE DEF n, v, params, latest, named, r, y, x, rest, b
  <2>14. Scoped(v, frames') /\ Len(frames') = i
    <3>1. Scoped(v, frames)
      <4>1. Scoped(n_allocas, frames)
        BY Facts
      <4> QED
        BY <2>3, <2>8, <4>1, ScopedGrow
    <3>2. Binds(frames[Len(frames)].named, r)
      BY <2>5, <2>7
    <3> QED
      BY <2>1, <2>5, <2>7, <3>1, <3>2, ScopedPush
  <2>15. Stack(b, v, rest, Len(frames), Len(values), f, m)
    BY <2>2, <2>3, <2>6, <2>8, Grow
  <2>16. Stack(b, v, Cons(x, rest), i, Len(values) + 1, f, m)
    BY <2>6, <2>9, <2>15, PutEndFunction
  <2>17. m <= Len(values)
    BY <2>15, StackIs
  <2>18. Stack(b, v, Cons(y, Cons(x, rest)), i, Len(values), f, m)
    BY <2>3, <2>10, <2>16, <2>17, PutPush
  <2>19. todo' = Cons(y, Cons(x, rest))
    <3>1. IsSeq(rest)
      BY <1>2
    <3>2. <<y, x>> \o rest = Cons(y, Cons(x, rest))
      BY ONLY <3>1, Tuple2
    <3> QED
      BY <2>1, <3>2
  <2> HIDE DEF i
  <2> QED
    BY <1>2, <2>1, <2>6, <2>8, <2>11, <2>12, <2>13, <2>14, <2>18, <2>19, Enters
<1> QED
  BY <1>3, <1>4

LEMMA PrototypesKeeps ==
  ASSUME IInv, Prototypes
  PROVE  IInv'
<1> DEFINE b == Len(blocks)
           v == n_allocas
           x == DefineEach(program)
           y == Then("verify")
           rest == Tail(todo)
           defs(z) == {k \in 1..Len(program) : program[k].node = "Fn" /\ program[k].name = z}
<1>1. /\ Doing("prototypes")
      /\ functions' = [z \in Name |-> IF defs(z) = {} THEN -1
                                      ELSE Len(program[Min(defs(z))].params)]
      /\ todo' = <<x, y>> \o rest
      /\ frames' = Append(frames, frames[1]) /\ state' = 2
      /\ UNCHANGED <<program, values, outcome, generated, globals, blocks, ip, n_allocas,
                     errors, warnings>>
  BY DEF Prototypes, Go
<1>2. /\ Runs /\ Instr.do = "prototypes"
      /\ Follows(Instr, IF rest = <<>> THEN {} ELSE {Head(rest).do})
      /\ \E i1 \in Nat \ {0}, n1, f1, m1 \in Nat :
           /\ Moves(Instr, Len(frames), Len(values), i1, n1)
           /\ Stack(Len(blocks), n_allocas, rest, i1, n1, f1, m1)
           /\ f1 <= Len(frames) /\ m1 <= Low(Instr, Len(values))
  BY <1>1, Running
<1>3. rest = <<>>
  <2>1. (IF rest = <<>> THEN {} ELSE {Head(rest).do}) = {}
    BY <1>2 DEF Follows
  <2> QED
    BY <2>1
<1>4. PICK i1, n1, f, m :
           /\ Moves(Instr, Len(frames), Len(values), i1, n1)
           /\ Stack(b, v, rest, i1, n1, f, m)
  BY <1>2
<1>5. Len(frames) = 1 /\ Len(values) = n1
  BY <1>2, <1>4, MovesPrototypes
<1>6. n1 = 0
  BY <1>3, <1>4, NoStack
<1>7. program \in Seq(Toplevel)
  BY ProgramsAssumption DEF IInv, Counted, Toplevel
<1>8. ASSUME NEW z \in Name, defs(z) # {}
      PROVE  Len(program[Min(defs(z))].params) \in Int
  <2> DEFINE D == defs(z)
             S == Toplevel
  <2>1. D \in SUBSET Int /\ 1 \in Int /\ \A k \in D : 1 <= k
    BY <1>7, LenProperties
  <2>2. D # {}
    BY <1>8
  <2> HIDE DEF D
  <2>3. Min(D) \in D
    BY <2>1, <2>2, LeastOf
  <2>4. Min(D) \in 1..Len(program) /\ program[Min(D)].node = "Fn"
    BY <2>3 DEF D
  <2> HIDE DEF S
  <2>5. program[Min(D)] \in S
    BY <1>7, <2>4, ElementOfSeq DEF S
  <2>6. program[Min(D)].params \in Seq(Name)
    BY <2>4, <2>5, KidsAre DEF S, Toplevel
  <2>7. Len(program[Min(D)].params) \in Nat
    BY <2>6, LenProperties
  <2>8. Len(program[Min(D)].params) \in Int
    BY <2>7
  <2> QED
    BY <2>8 DEF D
<1>9. Counted' /\ UNCHANGED outcome
  <2>1. functions' \in [Name -> Int]
    <3> HIDE DEF defs
    <3>1. ASSUME NEW z \in Name
          PROVE  (IF defs(z) = {} THEN -1 ELSE Len(program[Min(defs(z))].params)) \in Int
      BY <1>8
    <3> QED
      BY <1>1, <3>1
  <2> QED
    BY <1>1, <2>1 DEF IInv, Counted
<1>10. Scoped(v, frames') /\ Len(frames') = 2
  <2> DEFINE S == Scope(v)
  <2>1. Scoped(v, frames)
    BY Facts
  <2>2. 1 \in 1..Len(frames) /\ 1 + 1 = 2
    BY <1>5
  <2>3. frames[1] \in S /\ Binds(Outer(frames, 1), frames[1])
    <3>1. frames \in Seq(S) /\ Binds(Outer(frames, 1), frames[1])
      BY <2>1, <2>2 DEF Scoped
    <3> HIDE DEF S
    <3> QED
      BY <2>2, <3>1, ElementOfSeq
  <2>4. Binds(frames[1].named, frames[1])
    BY <2>3 DEF Binds
  <2>5. Scoped(v, Append(frames, frames[1])) /\ Len(Append(frames, frames[1])) = Len(frames) + 1
    <3>1. Len(frames) # 0 /\ Binds(frames[Len(frames)].named, frames[1])
      BY <1>5, <2>4
    <3> HIDE DEF v
    <3> QED
      BY <2>1, <2>3, <3>1, ScopedPush
  <2> QED
    BY <1>1, <1>5, <2>2, <2>5
<1>11. b \in Nat /\ v \in Nat /\ Blocks(blocks', b) /\ ip' \in 0..b /\ n_allocas' = v
         /\ IsSeq(values') /\ Len(values') = 0
  BY <1>1, <1>5, <1>6, Facts
<1>12. 2 \in 1..(b + 2)
  BY <1>11
<1> HIDE DEF b, v, rest
<1>13. Stack(b, v, Cons(x, Cons(y, <<>>)), 2, 0, 1, 0)
  <2>1. Keeps(x) /\ Refers(b, v, x)
    <3>1. x.do = "define each" /\ x.trees \in Seq(Toplevel)
      BY <1>7 DEF DefineEach
    <3> HIDE DEF x
    <3> QED
      BY <3>1 DEF Keeps, Refers
  <2>2. Stack(b, v, Cons(y, <<>>), 2, 0, 1, 0)
    BY PutVerify
  <2> HIDE DEF x, y
  <2> QED
    BY <2>1, <2>2, PutKeep
<1>14. todo' = Cons(x, Cons(y, <<>>))
  <2> HIDE DEF x, y
  <2> DEFINE u == <<>>
  <2>1. IsSeq(u)
    BY EmptyStack, StackIs
  <2>2. rest = u
    BY <1>3
  <2> HIDE DEF u
  <2>3. <<x, y>> \o u = Cons(x, Cons(y, u))
    BY ONLY <2>1, Tuple2
  <2>4. todo' = Cons(x, Cons(y, u))
    BY <1>1, <2>2, <2>3 DEF rest
  <2> QED
    BY <2>4 DEF u
<1> HIDE DEF x, y
<1> DEFINE i == 2
           n == 0
           g == 1
           l == 0
<1>15. Runs /\ UNCHANGED outcome /\ Counted'
  BY <1>2, <1>9
<1>16. state' = i
  BY <1>1
<1>17. Stack(b, v, todo', i, n, g, l)
  BY <1>13, <1>14
<1>18. Scoped(v, frames') /\ Len(frames') = i /\ i \in 1..(b + 2)
  BY <1>10, <1>12
<1>19. b \in Nat /\ v \in Nat /\ Blocks(blocks', b) /\ ip' \in 0..b /\ n_allocas' = v
         /\ IsSeq(values') /\ Len(values') = n
  BY <1>11
<1> HIDE DEF i, n, g, l
<1> QED
  BY ONLY <1>15, <1>16, <1>17, <1>18, <1>19, Enters

LEMMA VerifyModuleKeeps ==
  ASSUME IInv, VerifyModule
  PROVE  IInv'
<1> DEFINE rest == Tail(todo)
<1>1. /\ Doing("verify") /\ errors' \in {errors, OneMore(errors)}
      /\ outcome' \in {"done", "could not compile"}
      /\ frames' = Front(frames) /\ state' = 1 /\ Go(<<>>)
      /\ SameNames /\ UNCHANGED <<values, blocks, ip, n_allocas, warnings>>
  BY DEF VerifyModule
<1>2. /\ Runs /\ Instr.do = "verify" /\ IsSeq(rest)
      /\ Follows(Instr, IF rest = <<>> THEN {} ELSE {Head(rest).do})
      /\ \E i1 \in Nat \ {0}, n1, f1, m1 \in Nat :
           /\ Moves(Instr, Len(frames), Len(values), i1, n1)
           /\ Stack(Len(blocks), n_allocas, rest, i1, n1, f1, m1)
           /\ f1 <= Len(frames) /\ m1 <= Low(Instr, Len(values))
  BY <1>1, Running
<1>3. rest = <<>>
  <2>1. (IF rest = <<>> THEN {} ELSE {Head(rest).do}) = {}
    BY <1>2 DEF Follows
  <2> QED
    BY <2>1
<1>4. PICK i1, n1, f, m :
           /\ Moves(Instr, Len(frames), Len(values), i1, n1)
           /\ Stack(Len(blocks), n_allocas, rest, i1, n1, f, m)
  BY <1>2
<1>5. Len(frames) = 2 /\ Len(values) = n1
  <2>1. Instr.do = "verify" /\ Moves(Instr, Len(frames), Len(values), i1, n1)
    BY <1>2, <1>4
  <2>2. Len(frames) = 2 /\ n1 = Len(values)
    BY ONLY <2>1, MovesVerify
  <2> QED
    BY <2>2
<1>6. values = <<>>
  <2>1. IsSeq(values)
    BY Facts
  <2>2. n1 = 0
    BY <1>3, <1>4, NoStack
  <2> QED
    BY <1>5, <2>1, <2>2, EmptySeq
<1>7. Scoped(n_allocas, frames') /\ Len(frames') = 1
  <2>1. 1 \in Nat \ {0} /\ Len(frames) = 1 + 1
    BY <1>5
  <2> QED
    BY <1>1, <2>1, CutOne
<1>8. todo' = <<>>
  BY <1>1, <1>2, <1>3, GoNone
<1>9. Ended'
  BY <1>1, <1>6, <1>7, <1>8 DEF Ended
<1>10. Counted'
  BY <1>1, OneMoreIs DEF IInv, Counted, SameNames
<1>11. Built'
  <2>1. IsSeq(blocks) /\ ip \in 0..Len(blocks) /\ n_allocas \in Nat /\ IsSeq(values)
    BY DEF IInv, Built
  <2>2. Len(blocks) \in Nat
    BY Facts
  <2>3. 1 \in 1..(Len(blocks) + 2)
    BY <2>2
  <2> QED
    BY <1>1, <1>7, <2>1, <2>3 DEF Built
<1>12. ~Runs' /\ outcome' \in Outcomes
  BY <1>1 DEF Runs, Outcomes
<1> QED
  BY <1>9, <1>10, <1>11, <1>12 DEF IInv

-----------------------------------------------------------------------------
(* The invariant holds of every behaviour.                                 *)
LEMMA InitInv ==
  ASSUME Init
  PROVE  IInv
<1> DEFINE x == Then("prototypes")
           u == <<>>
           r == Frame([z \in Name |-> Undefined], Undefined)
<1>1. /\ program \in Programs /\ todo = <<x>> /\ values = u /\ frames = <<r>> /\ state = 1
      /\ outcome = "running" /\ functions = [z \in Name |-> -1] /\ generated = {}
      /\ globals = {} /\ blocks = u /\ ip = 0 /\ n_allocas = 0
      /\ errors = 0 /\ warnings = 0
  BY DEF Init, Undefined
<1>2. IsSeq(u) /\ Len(u) = 0
  BY EmptyStack, StackIs
<1>3. Counted
  <2>1. 0 \in 0..MaxErrors /\ -1 \in Int
    BY MaxErrorsAssumption
  <2> QED
    BY <1>1, <2>1 DEF Counted
<1>4. todo = Cons(x, <<>>)
  <2> HIDE DEF x, u
  <2>1. <<x>> \o u = Cons(x, u)
    BY ONLY <1>2, Tuple1
  <2>2. IsSeq(<<x>>)
    BY ONLY OneIs
  <2>3. <<x>> \o u = <<x>>
    <3> DEFINE w == <<x>>
               S == {w[k] : k \in 1..Len(w)}
    <3>1. w \in Seq(S)
      BY ONLY <2>2 DEF IsSeq
    <3> HIDE DEF w, S
    <3>2. w \o <<>> = w
      BY ONLY <3>1
    <3> QED
      BY <3>2 DEF u, w
  <2> QED
    BY <1>1, <2>1, <2>3 DEF u
<1>5. Scoped(0, frames) /\ Len(frames) = 1
  <2> DEFINE S == Scope(0)
             E == [name : Name, var : 1..0]
             names == [z \in Name |-> 0]
  <2>1. r = [named |-> names, declarations_block |-> 0, own |-> u]
    BY DEF Frame, Undefined
  <2>2. r \in S
    <3> DEFINE F == [Name -> 0..0]
               G == Seq(E)
    <3>1. names \in F /\ 0 \in Nat
      OBVIOUS
    <3>2. u \in G
      OBVIOUS
    <3>3. S = [named : F, declarations_block : Nat, own : G]
      BY DEF Scope, Own
    <3> HIDE DEF F, G, S, names, u, r
    <3> QED
      BY <2>1, <3>1, <3>2, <3>3
  <2>3. r.named = names /\ r.own = u
    <3> HIDE DEF names, u, r
    <3> QED
      BY <2>1
  <2>4. ASSUME NEW z \in Name
        PROVE  Decls(r.own, z) = {}
    <3> HIDE DEF u, r
    <3> QED
      BY <1>2, <2>3 DEF Decls
  <2>5. Binds([z \in Name |-> Undefined], r)
    <3> HIDE DEF r
    <3> QED
      BY <2>3, <2>4 DEF Binds, Undefined, names
  <2> HIDE DEF r, S
  <2>6. <<r>> \in Seq(S)
    BY <2>2
  <2>7. Len(<<r>>) = 1 /\ <<r>>[1] = r
    BY OneIs
  <2>8. frames \in Seq(S) /\ Len(frames) = 1 /\ frames[1] = r
    BY <1>1, <2>6, <2>7
  <2>9. \A k \in 1..1 : Binds(Outer(frames, k), frames[k])
    BY <2>5, <2>8 DEF Outer
  <2> QED
    BY <2>8, <2>9 DEF Scoped, S
<1>6. Built
  <2>1. 0 \in 0..0 /\ 0 \in Nat /\ 1 \in 1..(0 + 2)
    OBVIOUS
  <2>2. IsSeq(values)
    <3>1. IsSeq(<<0>>)
      BY OneIs
    <3>2. IsSeq(<<>>)
      BY <3>1, NoneIs
    <3> QED
      BY <1>1, <3>2
  <2> HIDE DEF u
  <2> QED
    BY <1>1, <1>2, <1>5, <2>1, <2>2 DEF Built
<1>7. Balanced
  <2>1. Stack(0, 0, todo, 1, 0, 1, 0)
    BY <1>4, PutPrototypes
  <2> HIDE DEF u
  <2>2. Len(blocks) = 0 /\ Len(values) = 0 /\ n_allocas = 0 /\ Len(frames) = 1
    BY <1>1, <1>2, <1>5
  <2> QED
    BY <2>1, <2>2 DEF Balanced
<1>8. Alive
  BY <1>1, <1>5 DEF Alive
<1>9. outcome \in Outcomes /\ outcome \notin {"done", "could not compile"}
  BY <1>1 DEF Outcomes
<1> QED
  BY <1>3, <1>6, <1>7, <1>8, <1>9 DEF IInv

LEMMA StutterKeeps ==
  ASSUME IInv, UNCHANGED vars
  PROVE  IInv'
<1>1. /\ program' = program /\ todo' = todo /\ values' = values /\ frames' = frames
      /\ state' = state /\ outcome' = outcome /\ functions' = functions
      /\ generated' = generated /\ globals' = globals /\ blocks' = blocks /\ ip' = ip
      /\ n_allocas' = n_allocas /\ errors' = errors /\ warnings' = warnings
  BY DEF vars, control, module
<1>2. Counted' /\ Built' /\ outcome' \in Outcomes
  BY <1>1 DEF IInv, Counted, Built
<1>3. Runs' => Balanced' /\ Alive'
  <2> SUFFICES ASSUME Runs'
               PROVE  Balanced' /\ Alive'
    OBVIOUS
  <2>1. Balanced /\ Alive
    BY <1>1 DEF IInv, Runs
  <2>2. Instr' = Instr
    BY <1>1 DEF Instr
  <2> QED
    BY <1>1, <2>1, <2>2 DEF Balanced, Alive
<1>4. outcome' \in {"done", "could not compile"} => Ended'
  BY <1>1 DEF IInv, Ended
<1> QED
  BY <1>2, <1>3, <1>4 DEF IInv

LEMMA StepInv ==
  ASSUME IInv, [Next]_vars
  PROVE  IInv'
<1>1. CASE EndOfTry
  BY <1>1, EndOfTryKeeps
<1>2. CASE GenConstant
  BY <1>2, GenConstantKeeps
<1>3. CASE GenOperator
  BY <1>3, GenOperatorKeeps
<1>4. CASE CreateOperator
  BY <1>4, CreateOperatorKeeps
<1>5. CASE NextOperand
  BY <1>5, NextOperandKeeps
<1>6. CASE GenVarRef
  BY <1>6, GenVarRefKeeps
<1>7. CASE GenFunctionCall
  BY <1>7, GenFunctionCallKeeps
<1>8. CASE CreateCall
  BY <1>8, CreateCallKeeps
<1>9. CASE EnterBlock
  BY <1>9, EnterBlockKeeps
<1>10. CASE NextStatement
  BY <1>10, NextStatementKeeps
<1>11. CASE NoValue
  BY <1>11, NoValueKeeps
<1>12. CASE LeaveBlock
  BY <1>12, LeaveBlockKeeps
<1>13. CASE GenIf
  BY <1>13, GenIfKeeps
<1>14. CASE IfTrue
  BY <1>14, IfTrueKeeps
<1>15. CASE IfFalse
  BY <1>15, IfFalseKeeps
<1>16. CASE PostIf
  BY <1>16, PostIfKeeps
<1>17. CASE GenWhile
  BY <1>17, GenWhileKeeps
<1>18. CASE LoopBody
  BY <1>18, LoopBodyKeeps
<1>19. CASE PostWhile
  BY <1>19, PostWhileKeeps
<1>20. CASE GenExprStmt
  BY <1>20, GenExprStmtKeeps
<1>21. CASE Drop
  BY <1>21, DropKeeps
<1>22. CASE GenReturn
  BY <1>22, GenReturnKeeps
<1>23. CASE CreateRet
  BY <1>23, CreateRetKeeps
<1>24. CASE GenAssignment
  BY <1>24, GenAssignmentKeeps
<1>25. CASE Assign
  BY <1>25, AssignKeeps
<1>26. CASE GenDeclAssignment
  BY <1>26, GenDeclAssignmentKeeps
<1>27. CASE Declare
  BY <1>27, DeclareKeeps
<1>28. CASE GenFunctionDef
  BY <1>28, GenFunctionDefKeeps
<1>29. CASE EndFunction
  BY <1>29, EndFunctionKeeps
<1>30. CASE Prototypes
  BY <1>30, PrototypesKeeps
<1>31. CASE NextDefinition
  BY <1>31, NextDefinitionKeeps
<1>32. CASE GlobalCodegen
  BY <1>32, GlobalCodegenKeeps
<1>33. CASE VerifyModule
  BY <1>33, VerifyModuleKeeps
<1>34. CASE UNCHANGED vars
  BY <1>34, StutterKeeps
<1> QED
  BY <1>1, <1>2, <1>3, <1>4, <1>5, <1>6, <1>7, <1>8, <1>9, <1>10, <1>11,
     <1>12, <1>13, <1>14, <1>15, <1>16, <1>17, <1>18, <1>19, <1>20, <1>21,
     <1>22, <1>23, <1>24, <1>25, <1>26, <1>27, <1>28, <1>29, <1>30, <1>31,
     <1>32, <1>33, <1>34
     DEF Next

LEMMA Always == Spec => []IInv
<1>1. Init => IInv
  BY InitInv
<1>2. IInv /\ [Next]_vars => IInv'
  BY StepInv
<1> QED
  BY <1>1, <1>2, PTL DEF Spec

-----------------------------------------------------------------------------
LEMMA TypeFollows == IInv => TypeOK
<1> SUFFICES ASSUME IInv
             PROVE  TypeOK
  OBVIOUS
<1>1. Len(values) \in Nat
  BY Facts
<1>2. state \in 1..(Len(frames) + Len(blocks) + 1) /\ ip \in 0..Len(blocks)
  <2>1. state \in 1..(Len(blocks) + 2) /\ Len(frames) \in Nat \ {0} /\ Len(blocks) \in Nat
          /\ ip \in 0..Len(blocks)
    BY Facts DEF IInv, Built
  <2>2. state \in 1..(Len(frames) + Len(blocks) + 1)
    BY ONLY <2>1
  <2> QED
    BY <2>1, <2>2
<1>3. /\ functions \in [Name -> Int] /\ generated \subseteq Name /\ globals \subseteq Name
      /\ errors \in 0..MaxErrors /\ warnings \in 0..MaxErrors /\ outcome \in Outcomes
  BY DEF IInv, Counted
<1>4. ASSUME NEW k \in 1..Len(frames)
      PROVE  frames[k].named \in [Name -> 0..n_allocas]
  <2> DEFINE V == [Name -> 0..n_allocas]
             E == Own(n_allocas)
             S == Scope(n_allocas)
             e == frames[k]
  <2>1. frames \in Seq(S) /\ S = [named : V, declarations_block : Nat, own : E]
    BY Facts DEF Scoped, Scope
  <2> HIDE DEF S
  <2>2. e \in S
    BY <2>1, ElementOfSeq
  <2> HIDE DEF V, E, e
  <2>3. e.named \in V
    BY <2>1, <2>2
  <2> QED
    BY <2>3 DEF e, V
<1>5. outcome \in {"done", "could not compile"} =>
        todo = <<>> /\ values = <<>> /\ Len(frames) = 1
  BY DEF IInv, Ended
<1> QED
  BY <1>1, <1>2, <1>3, <1>4, <1>5 DEF TypeOK

(* The control stack, the values, the frames and the counters have their   *)
(* types, and when code generation has come to its end nothing is left on  *)
(* the stacks and only the outermost State is alive.                       *)
THEOREM CodegenTypeOK == Spec => []TypeOK
BY Always, TypeFollows, PTL

LEMMA StateFollows == IInv => StateIsAlive
<1> SUFFICES ASSUME IInv, outcome = "running", todo # <<>>,
                    Instr.do \in {"gen", "assign", "declare", "if true", "end function"}
             PROVE  state = Len(frames)
  BY DEF StateIsAlive
<1>1. Alive
  BY DEF IInv, Runs
<1> QED
  BY <1>1 DEF Alive

(* Whatever statements, block results and functions throw, ctx->state      *)
(* points to the State of the block that is being generated whenever it is *)
(* read or written.                                                        *)
THEOREM CodegenStateIsAlive == Spec => []StateIsAlive
BY Always, StateFollows, PTL

LEMMA ScopesFollow == IInv => LexicalScoping
<1> SUFFICES ASSUME IInv, NEW k \in 1..Len(frames), NEW x \in Name
             PROVE  frames[k].named[x] = Meaning(frames, k, x)
  BY DEF LexicalScoping, Meaning, Decls
<1>1. Scoped(n_allocas, frames)
  BY Facts
<1> QED
  BY <1>1, ScopesLexically

(* In every frame, whatever is declared, shadowed, entered, left or given  *)
(* up by an exception, a name means its last declaration in the innermost  *)
(* block that has one.                                                     *)
THEOREM CodegenScopesLexically == Spec => []LexicalScoping
BY Always, ScopesFollow, PTL

-----------------------------------------------------------------------------
(* Lists of instructions: where they end, whereto, and where they return.  *)
Stops(u)   == {k \in 1..Len(u) : IsTerminator(u[k])}
Targets(u) == UNION {ToSet(u[k].to) : k \in Stops(u)}
RetsOf(u)  == {k \in 1..Len(u) : u[k].op = "ret"}
Late(u)    == \E k \in Stops(u) : k # Len(u)
Nulls(u)   == {k \in 1..Len(u) : u[k].op \in {"ret void", "null operand"}}

(* v is u with s behind it.                                                *)
Longer(u, v, s) ==
  /\ IsSeq(u) /\ IsSeq(v) /\ IsSeq(s) /\ Len(v) = Len(u) + Len(s)
  /\ \A k \in 1..Len(u) : v[k] = u[k]
  /\ \A k \in 1..Len(s) : v[Len(u) + k] = s[k]

LEMMA LongerIs ==
  ASSUME NEW u, NEW s, IsSeq(u), IsSeq(s)
  PROVE  Longer(u, u \o s, s)
BY JoinIs DEF Longer

LEMMA AppendLonger ==
  ASSUME NEW u, IsSeq(u), NEW x
  PROVE  Longer(u, Append(u, x), <<x>>)
<1>1. /\ IsSeq(Append(u, x)) /\ Len(Append(u, x)) = Len(u) + 1 /\ Len(u) \in Nat
      /\ Append(u, x)[Len(u) + 1] = x
      /\ \A k \in 1..Len(u) : Append(u, x)[k] = u[k]
  BY AppendIs
<1>2. IsSeq(<<x>>) /\ Len(<<x>>) = 1 /\ <<x>>[1] = x
  BY OneIs
<1> DEFINE v == Append(u, x)
           s == <<x>>
<1> HIDE DEF v, s
<1>3. \A k \in 1..Len(s) : k = 1
  BY <1>2 DEF s
<1>4. \A k \in 1..Len(s) : v[Len(u) + k] = s[k]
  BY <1>1, <1>2, <1>3 DEF v, s
<1> QED
  BY <1>1, <1>2, <1>4 DEF Longer, v, s

(* Where an instruction of the longer list comes from.                     *)
LEMMA LongerAt ==
  ASSUME NEW u, NEW v, NEW s, Longer(u, v, s)
  PROVE  /\ Len(u) \in Nat /\ Len(s) \in Nat /\ Len(v) \in Nat
         /\ \A k \in 1..Len(u) : k \in 1..Len(v) /\ v[k] = u[k]
         /\ \A k \in 1..Len(v) : k \notin 1..Len(u) =>
              k - Len(u) \in 1..Len(s) /\ v[k] = s[k - Len(u)]
<1>1. Len(u) \in Nat /\ Len(s) \in Nat /\ Len(v) = Len(u) + Len(s)
  BY ListIs DEF Longer
<1>2. \A k \in 1..Len(u) : k \in 1..Len(v) /\ v[k] = u[k]
  BY <1>1 DEF Longer
<1>3. ASSUME NEW k \in 1..Len(v), k \notin 1..Len(u)
      PROVE  k - Len(u) \in 1..Len(s) /\ v[k] = s[k - Len(u)]
  <2>1. k - Len(u) \in 1..Len(s) /\ Len(u) + (k - Len(u)) = k
    BY <1>1, <1>3
  <2> QED
    BY <2>1 DEF Longer
<1> QED
  BY <1>1, <1>2, <1>3

LEMMA LongerPlain ==
  ASSUME NEW u, NEW v, NEW s, Longer(u, v, s), \A k \in 1..Len(s) : ~IsTerminator(s[k])
  PROVE  /\ Stops(v) = Stops(u) /\ Targets(v) = Targets(u) /\ RetsOf(v) = RetsOf(u)
         /\ Late(v) => Stops(u) # {}
         /\ Nulls(v) = {} => Nulls(u) = {}
<1>1. /\ \A k \in 1..Len(u) : k \in 1..Len(v) /\ v[k] = u[k]
      /\ \A k \in 1..Len(v) : k \notin 1..Len(u) => ~IsTerminator(v[k])
  BY LongerAt
<1>2. Stops(v) = Stops(u) /\ \A k \in Stops(u) : v[k] = u[k]
  BY <1>1 DEF Stops
<1>3. RetsOf(v) = RetsOf(u)
  BY <1>1 DEF RetsOf, IsTerminator, Terminators
<1>4. Targets(v) = Targets(u)
  BY <1>2 DEF Targets
<1>5. Late(v) => Stops(u) # {}
  BY <1>2 DEF Late
<1>6. Nulls(v) = {} => Nulls(u) = {}
  BY <1>1 DEF Nulls
<1> QED
  BY <1>2, <1>3, <1>4, <1>5, <1>6

LEMMA LongerEnd ==
  ASSUME NEW u, NEW v, NEW x, Longer(u, v, <<x>>), IsTerminator(x)
  PROVE  /\ Stops(v) # {} /\ Targets(v) \subseteq Targets(u) \union ToSet(x.to)
         /\ Late(v) => Stops(u) # {}
         /\ Nulls(v) = {} => Nulls(u) = {}
         /\ x.op = "ret void" => Nulls(v) # {}
         /\ Len(u) + 1 \in Nat /\ Len(u) + 1 \notin RetsOf(u)
         /\ x.op # "ret" => RetsOf(v) = RetsOf(u)
         /\ x.op = "ret" => RetsOf(v) = RetsOf(u) \union {Len(u) + 1}
<1>1. Len(<<x>>) = 1 /\ <<x>>[1] = x
  BY OneIs
<1> DEFINE s == <<x>>
           l == Len(u) + 1
<1>2. Len(s) = 1 /\ s[1] = x /\ Longer(u, v, s)
  BY <1>1
<1> HIDE DEF s
<1>3. /\ Len(u) \in Nat /\ Len(v) = l
      /\ \A k \in 1..Len(u) : k \in 1..Len(v) /\ v[k] = u[k]
      /\ \A k \in 1..Len(v) : k \notin 1..Len(u) => k - Len(u) \in 1..Len(s)
  BY <1>2, LongerAt DEF Longer
<1>4. \A k \in 1..Len(v) : k \notin 1..Len(u) => k = l
  BY <1>2, <1>3
<1>5. l \in 1..Len(v) /\ l \notin 1..Len(u) /\ l \in Nat
  BY <1>3
<1>6. v[l] = x
  BY <1>2 DEF Longer
<1> HIDE DEF l
<1>7. Stops(v) = Stops(u) \union {l}
  BY <1>3, <1>4, <1>5, <1>6 DEF Stops
<1>8. \A k \in Stops(u) : v[k] = u[k]
  BY <1>3 DEF Stops
<1>9. Targets(v) \subseteq Targets(u) \union ToSet(x.to)
  BY <1>6, <1>7, <1>8 DEF Targets
<1>10. Late(v) => Stops(u) # {}
  BY <1>3, <1>7 DEF Late
<1>11. (Nulls(v) = {} => Nulls(u) = {}) /\ (x.op = "ret void" => l \in Nulls(v))
  BY <1>3, <1>5, <1>6 DEF Nulls
<1>12. /\ l \notin RetsOf(u)
       /\ x.op # "ret" => RetsOf(v) = RetsOf(u)
       /\ x.op = "ret" => RetsOf(v) = RetsOf(u) \union {l}
  BY <1>3, <1>4, <1>5, <1>6 DEF RetsOf
<1> QED
  BY <1>5, <1>7, <1>9, <1>10, <1>11, <1>12 DEF l

-----------------------------------------------------------------------------
(* The basic blocks.                                                       *)
IsBlock(r) ==
  r = [fn |-> r.fn, inserted |-> r.inserted, insts |-> r.insts] /\ IsSeq(r.insts)
Shape(bs) == IsSeq(bs) /\ \A b \in 1..Len(bs) : IsBlock(bs[b])

Code0(bs, b)   == bs[b].insts
Closed(bs) == {b \in 1..Len(bs) : Stops(Code0(bs, b)) # {}}
Early(bs)  == {b \in 1..Len(bs) : Late(Code0(bs, b))}
Rets(bs)   == {p \in (1..Len(bs)) \X Nat : p[2] \in RetsOf(Code0(bs, p[1]))}
NoNull(bs) == \A b \in 1..Len(bs) : Nulls(Code0(bs, b)) = {}

(* Only the basic blocks `open` may lack a terminator, and branches go to  *)
(* basic blocks of the same function that are inserted, or are in `due`.   *)
Joined(bs, open, due) ==
  /\ \A b \in open : b \in 1..Len(bs)
  /\ \A b \in 1..Len(bs) : bs[b].inserted => b \in open \/ b \in Closed(bs)
  /\ \A b \in 1..Len(bs) : \A t \in Targets(Code0(bs, b)) :
       t \in 1..Len(bs) /\ bs[t].fn = bs[b].fn /\ (bs[t].inserted \/ t \in due)

(* There is a return for each of n functions; without any other nothing    *)
(* follows a terminator, and the basic blocks `open` have none.            *)
Returning(bs, open, n) ==
  /\ n \in Nat /\ IsFiniteSet(Rets(bs)) /\ Cardinality(Rets(bs)) >= n
  /\ NoNull(bs) /\ Cardinality(Rets(bs)) = n => Early(bs) = {} /\ Closed(bs) \intersect open = {}

Graph(bs, open, due, n) == Shape(bs) /\ Joined(bs, open, due) /\ Returning(bs, open, n)

(* Instructions s are added to the basic block b.                          *)
Adds(bs, c, b, s) ==
  /\ Shape(bs) /\ Shape(c) /\ Len(c) = Len(bs) /\ b \in 1..Len(bs)
  /\ \A k \in 1..Len(bs) : c[k].fn = bs[k].fn /\ c[k].inserted = bs[k].inserted
  /\ \A k \in 1..Len(bs) : k # b => Code0(c, k) = Code0(bs, k)
  /\ Longer(Code0(bs, b), Code0(c, b), s)

(* A basic block with other instructions.                                  *)
Rewritten(bs, b, a) == [bs EXCEPT ![b] = [bs[b] EXCEPT !.insts = a]]

LEMMA Rewrites ==
  ASSUME NEW bs, Shape(bs), NEW b \in 1..Len(bs), NEW a, IsSeq(a),
         NEW c, c = Rewritten(bs, b, a)
  PROVE  /\ Shape(c) /\ Len(c) = Len(bs) /\ Code0(c, b) = a
         /\ \A k \in 1..Len(bs) : c[k].fn = bs[k].fn /\ c[k].inserted = bs[k].inserted
         /\ \A k \in 1..Len(bs) : k # b => Code0(c, k) = Code0(bs, k)
<1> DEFINE n == Len(bs)
           r == bs[b]
           d == [r EXCEPT !.insts = a]
<1>1. bs = [k \in 1..n |-> bs[k]] /\ n \in Nat /\ \A k \in 1..n : IsBlock(bs[k])
  BY ListIs DEF Shape
<1>2. c = [k \in 1..n |-> IF k = b THEN d ELSE bs[k]]
  BY <1>1 DEF Rewritten
<1>3. r = [fn |-> r.fn, inserted |-> r.inserted, insts |-> r.insts]
  BY <1>1 DEF IsBlock
<1> HIDE DEF r, n
<1>4. d = [fn |-> r.fn, inserted |-> r.inserted, insts |-> a]
  BY ONLY <1>3
<1>5. d.fn = r.fn /\ d.inserted = r.inserted /\ d.insts = a
  BY <1>4
<1>6. IsBlock(d)
  BY <1>4, <1>5 DEF IsBlock
<1> HIDE DEF d
<1>7. \A k \in 1..n : c[k] = IF k = b THEN d ELSE bs[k]
  BY <1>2
<1>8. c = [k \in 1..n |-> c[k]]
  BY <1>2
<1>9. IsSeq(c) /\ Len(c) = n
  BY <1>1, <1>8, MapIs
<1>10. b \in 1..n
  BY DEF n
<1>11. Shape(c)
  BY <1>1, <1>6, <1>7, <1>9 DEF Shape
<1> QED
  BY <1>5, <1>7, <1>9, <1>10, <1>11 DEF Code0, r, n

LEMMA WithAdds ==
  ASSUME NEW bs, Shape(bs), NEW b \in 1..Len(bs), NEW x
  PROVE  Adds(bs, With(bs, b, x), b, <<x>>)
<1> DEFINE a == Append(bs[b].insts, x)
           c == With(bs, b, x)
<1>1. IsSeq(bs[b].insts)
  BY DEF Shape, IsBlock
<1>2. Longer(bs[b].insts, a, <<x>>)
  BY <1>1, AppendLonger
<1>3. IsSeq(a)
  BY <1>2 DEF Longer
<1>4. c = Rewritten(bs, b, a)
  BY DEF With, Rewritten
<1> HIDE DEF a, c
<1>5. /\ Shape(c) /\ Len(c) = Len(bs) /\ Code0(c, b) = a
      /\ \A k \in 1..Len(bs) : c[k].fn = bs[k].fn /\ c[k].inserted = bs[k].inserted
      /\ \A k \in 1..Len(bs) : k # b => Code0(c, k) = Code0(bs, k)
  BY ONLY Shape(bs), b \in 1..Len(bs), <1>3, <1>4, Rewrites
<1> QED
  BY <1>2, <1>5 DEF Adds, Code0, c

LEMMA ManyAdds ==
  ASSUME NEW bs, Shape(bs), NEW b \in 1..Len(bs), NEW s, IsSeq(s)
  PROVE  Adds(bs, [bs EXCEPT ![b].insts = @ \o s], b, s)
<1> DEFINE a == bs[b].insts \o s
           c == [bs EXCEPT ![b].insts = @ \o s]
<1>1. IsSeq(bs[b].insts)
  BY DEF Shape, IsBlock
<1>2. Longer(bs[b].insts, a, s)
  BY <1>1, LongerIs
<1>3. IsSeq(a)
  BY <1>2 DEF Longer
<1>4. c = Rewritten(bs, b, a)
  BY DEF Rewritten
<1> HIDE DEF a, c
<1>5. /\ Shape(c) /\ Len(c) = Len(bs) /\ Code0(c, b) = a
      /\ \A k \in 1..Len(bs) : c[k].fn = bs[k].fn /\ c[k].inserted = bs[k].inserted
      /\ \A k \in 1..Len(bs) : k # b => Code0(c, k) = Code0(bs, k)
  BY ONLY Shape(bs), b \in 1..Len(bs), <1>3, <1>4, Rewrites
<1> QED
  BY <1>2, <1>5 DEF Adds, Code0, c

(* Basic blocks stay in their function, and stay inserted.                 *)
Grows(bs, c) ==
  /\ Len(bs) \in Nat /\ Len(c) \in Nat /\ Len(bs) <= Len(c)
  /\ \A k \in 1..Len(bs) : c[k].fn = bs[k].fn /\ (bs[k].inserted => c[k].inserted)

LEMMA AddsGrows ==
  ASSUME NEW bs, NEW c, NEW b, NEW s, Adds(bs, c, b, s)
  PROVE  Grows(bs, c)
<1>1. IsSeq(bs) /\ Len(c) = Len(bs)
  BY DEF Adds, Shape
<1>2. Len(bs) \in Nat
  BY <1>1, ListIs
<1>3. \A k \in 1..Len(bs) : c[k].fn = bs[k].fn /\ c[k].inserted = bs[k].inserted
  BY DEF Adds
<1> QED
  BY <1>1, <1>2, <1>3 DEF Grows

(* Instructions that are not terminators go to basic blocks that are open. *)
LEMMA AddsPlain ==
  ASSUME NEW bs, NEW open, NEW due, NEW n, Graph(bs, open, due, n),
         NEW c, NEW b \in open, NEW s, Adds(bs, c, b, s),
         \A k \in 1..Len(s) : ~IsTerminator(s[k])
  PROVE  Graph(c, open, due, n)
<1>1. /\ Shape(bs) /\ Shape(c) /\ Len(c) = Len(bs) /\ b \in 1..Len(bs)
      /\ \A k \in 1..Len(bs) : c[k].fn = bs[k].fn /\ c[k].inserted = bs[k].inserted
      /\ \A k \in 1..Len(bs) : k # b => Code0(c, k) = Code0(bs, k)
  BY DEF Adds
<1>2. /\ Stops(Code0(c, b)) = Stops(Code0(bs, b)) /\ Targets(Code0(c, b)) = Targets(Code0(bs, b))
      /\ RetsOf(Code0(c, b)) = RetsOf(Code0(bs, b))
      /\ Late(Code0(c, b)) => Stops(Code0(bs, b)) # {}
      /\ Nulls(Code0(c, b)) = {} => Nulls(Code0(bs, b)) = {}
  BY LongerPlain DEF Adds
<1>3. \A k \in 1..Len(bs) : /\ Stops(Code0(c, k)) = Stops(Code0(bs, k))
                            /\ Targets(Code0(c, k)) = Targets(Code0(bs, k))
                            /\ RetsOf(Code0(c, k)) = RetsOf(Code0(bs, k))
                            /\ Nulls(Code0(c, k)) = {} => Nulls(Code0(bs, k)) = {}
  BY <1>1, <1>2
<1>4. Closed(c) = Closed(bs)
  BY <1>1, <1>3 DEF Closed
<1>5. Early(c) \subseteq Early(bs) \union (Closed(bs) \intersect {b})
  BY <1>1, <1>2 DEF Early, Closed
<1>6. NoNull(c) => NoNull(bs)
  BY <1>1, <1>3 DEF NoNull
<1>7. Rets(c) = Rets(bs)
  <2>1. \A p : p \in (1..Len(bs)) \X Nat => p[1] \in 1..Len(bs)
    OBVIOUS
  <2> QED
    BY <1>1, <1>3, <2>1 DEF Rets
<1>8. Joined(c, open, due)
  BY <1>1, <1>3, <1>4 DEF Graph, Joined
<1>9. Returning(c, open, n)
  BY <1>4, <1>5, <1>6, <1>7 DEF Graph, Returning
<1> QED
  BY <1>1, <1>8, <1>9 DEF Graph

(* What a terminator at the end of a basic block does.                     *)
AddsOne(bs, c, b, x) == Adds(bs, c, b, <<x>>)

EndedAt(bs, c, b, x) ==
  /\ Closed(c) = Closed(bs) \union {b}
  /\ Early(c) \subseteq Early(bs) \union (Closed(bs) \intersect {b})
  /\ NoNull(c) => NoNull(bs) /\ x.op # "ret void"
  /\ \A k \in 1..Len(bs) : k # b => Targets(Code0(c, k)) = Targets(Code0(bs, k))
  /\ Targets(Code0(c, b)) \subseteq Targets(Code0(bs, b)) \union ToSet(x.to)
  /\ x.op # "ret" => Rets(c) = Rets(bs)
  /\ x.op = "ret" => \E q : q \notin Rets(bs) /\ Rets(c) = Rets(bs) \union {q}

LEMMA AddsEnd ==
  ASSUME NEW bs, NEW c, NEW b, NEW x, AddsOne(bs, c, b, x), IsTerminator(x)
  PROVE  EndedAt(bs, c, b, x)
<1>1. /\ Len(c) = Len(bs) /\ b \in 1..Len(bs)
      /\ \A k \in 1..Len(bs) : k # b => Code0(c, k) = Code0(bs, k)
  BY DEF Adds, AddsOne
<1> DEFINE u == Code0(bs, b)
           v == Code0(c, b)
           l == Len(u) + 1
<1>2. /\ Stops(v) # {} /\ Targets(v) \subseteq Targets(u) \union ToSet(x.to)
      /\ Late(v) => Stops(u) # {}
      /\ Nulls(v) = {} => Nulls(u) = {}
      /\ x.op = "ret void" => Nulls(v) # {}
      /\ l \in Nat /\ l \notin RetsOf(u)
      /\ x.op # "ret" => RetsOf(v) = RetsOf(u)
      /\ x.op = "ret" => RetsOf(v) = RetsOf(u) \union {l}
  BY LongerEnd DEF Adds, AddsOne
<1> HIDE DEF l
<1>3. Closed(c) = Closed(bs) \union {b}
  BY <1>1, <1>2 DEF Closed
<1>4. Early(c) \subseteq Early(bs) \union (Closed(bs) \intersect {b})
  BY <1>1, <1>2 DEF Early, Closed
<1>5. NoNull(c) => NoNull(bs) /\ x.op # "ret void"
  BY <1>1, <1>2 DEF NoNull
<1>6. \A p : p \in (1..Len(bs)) \X Nat => p[1] \in 1..Len(bs)
  OBVIOUS
<1>7. ASSUME x.op # "ret"
      PROVE  Rets(c) = Rets(bs)
  <2>1. \A k \in 1..Len(bs) : RetsOf(Code0(c, k)) = RetsOf(Code0(bs, k))
    BY <1>1, <1>2, <1>7
  <2> QED
    BY <1>1, <1>6, <2>1 DEF Rets
<1>8. ASSUME x.op = "ret"
      PROVE  \E q : q \notin Rets(bs) /\ Rets(c) = Rets(bs) \union {q}
  <2> DEFINE q == <<b, l>>
  <2>1. q \in (1..Len(bs)) \X Nat /\ q[1] = b /\ q[2] = l
    BY <1>1, <1>2
  <2>2. \A p : p \in (1..Len(bs)) \X Nat => (p = q <=> p[1] = b /\ p[2] = l)
    OBVIOUS
  <2>3. ASSUME NEW k \in 1..Len(bs), NEW j
        PROVE  j \in RetsOf(Code0(c, k)) <=> j \in RetsOf(Code0(bs, k)) \/ (k = b /\ j = l)
    BY <1>1, <1>2, <1>8
  <2> HIDE DEF q
  <2>4. q \notin Rets(bs)
    BY <1>2, <2>1 DEF Rets
  <2>5. ASSUME NEW p
        PROVE  p \in Rets(c) <=> p \in Rets(bs) \/ p = q
    BY <1>1, <1>6, <2>1, <2>2, <2>3 DEF Rets
  <2> QED
    BY <2>4, <2>5
<1> QED
  BY <1>1, <1>2, <1>3, <1>4, <1>5, <1>7, <1>8 DEF EndedAt

LEMMA AddsJump ==
  ASSUME NEW bs, NEW open, NEW due, NEW n, Graph(bs, open, due, n),
         NEW c, NEW b \in open, NEW x, AddsOne(bs, c, b, x), IsTerminator(x), x.op # "ret",
         \A t \in ToSet(x.to) : /\ t \in 1..Len(bs) /\ bs[t].fn = bs[b].fn
                                /\ bs[t].inserted \/ t \in due
  PROVE  Graph(c, open \ {b}, due, n)
<1>1. /\ Shape(c) /\ Len(c) = Len(bs) /\ b \in 1..Len(bs)
      /\ \A k \in 1..Len(bs) : c[k].fn = bs[k].fn /\ c[k].inserted = bs[k].inserted
  BY DEF Adds, AddsOne
<1>2. /\ Closed(c) = Closed(bs) \union {b}
      /\ Early(c) \subseteq Early(bs) \union (Closed(bs) \intersect {b})
      /\ NoNull(c) => NoNull(bs)
      /\ \A k \in 1..Len(bs) : k # b => Targets(Code0(c, k)) = Targets(Code0(bs, k))
      /\ Targets(Code0(c, b)) \subseteq Targets(Code0(bs, b)) \union ToSet(x.to)
      /\ Rets(c) = Rets(bs)
  <2>1. EndedAt(bs, c, b, x)
    BY AddsEnd
  <2> QED
    BY ONLY <2>1, x.op # "ret" DEF EndedAt
<1>3. Joined(bs, open, due) /\ Returning(bs, open, n)
  BY DEF Graph
<1>4. ASSUME NEW k \in 1..Len(c), NEW t \in Targets(Code0(c, k))
      PROVE  t \in 1..Len(c) /\ c[t].fn = c[k].fn /\ (c[t].inserted \/ t \in due)
  <2>1. t \in 1..Len(bs) /\ bs[t].fn = bs[k].fn /\ (bs[t].inserted \/ t \in due)
    <3>1. CASE t \in Targets(Code0(bs, k))
      BY <1>1, <1>3, <1>4, <3>1 DEF Joined
    <3>2. CASE t \notin Targets(Code0(bs, k))
      <4>1. k = b
        BY <1>1, <1>2, <1>4, <3>2
      <4>2. t \in ToSet(x.to)
        BY <1>2, <1>4, <3>2, <4>1
      <4> QED
        BY <4>1, <4>2
    <3> QED
      BY <3>1, <3>2
  <2> QED
    BY <1>1, <2>1
<1>5. Joined(c, open \ {b}, due)
  <2>1. \A k \in 1..Len(c) : c[k].inserted => k \in open \ {b} \/ k \in Closed(c)
    BY <1>1, <1>2, <1>3 DEF Joined
  <2>2. \A k \in open \ {b} : k \in 1..Len(c)
    BY <1>1, <1>3 DEF Joined
  <2> QED
    BY <1>4, <2>1, <2>2 DEF Joined
<1>6. Returning(c, open \ {b}, n)
  BY <1>2, <1>3 DEF Returning
<1> QED
  BY <1>1, <1>5, <1>6 DEF Graph

(* A return is one more, so that no other is needed.                       *)
LEMMA AddsRet ==
  ASSUME NEW bs, NEW open, NEW due, NEW n, Graph(bs, open, due, n),
         NEW c, NEW b \in open, NEW x, AddsOne(bs, c, b, x),
         x.op = "ret" \/ x.op = "ret void", x.to = <<>>
  PROVE  /\ Graph(c, open, due, n)
         /\ x.op = "ret" => Graph(c, open \ {b}, due, n + 1)
<1>0. IsTerminator(x) /\ ToSet(x.to) = {}
  <2>1. IsTerminator(x)
    BY DEF IsTerminator, Terminators
  <2> DEFINE none == <<>>
  <2>4. IsSeq(none) /\ Len(none) = 0
    BY NoneIs, OneIs
  <2> HIDE DEF none
  <2>5. none = [k \in 1..Len(none) |-> none[k]]
    BY <2>4, ListIs
  <2>6. DOMAIN none = 1..Len(none)
    BY ONLY <2>5
  <2>2. DOMAIN none = {}
    BY ONLY <2>4, <2>6
  <2>3. ToSet(none) = {}
    BY <2>2 DEF ToSet
  <2> QED
    BY <2>1, <2>3 DEF none
<1>1. /\ Shape(c) /\ Len(c) = Len(bs) /\ b \in 1..Len(bs)
      /\ \A k \in 1..Len(bs) : c[k].fn = bs[k].fn /\ c[k].inserted = bs[k].inserted
  BY DEF Adds, AddsOne
<1>2. /\ Closed(c) = Closed(bs) \union {b}
      /\ Early(c) \subseteq Early(bs) \union (Closed(bs) \intersect {b})
      /\ NoNull(c) => NoNull(bs) /\ x.op # "ret void"
      /\ \A k \in 1..Len(bs) : k # b => Targets(Code0(c, k)) = Targets(Code0(bs, k))
      /\ Targets(Code0(c, b)) \subseteq Targets(Code0(bs, b)) \union ToSet(x.to)
      /\ x.op # "ret" => Rets(c) = Rets(bs)
      /\ x.op = "ret" => \E q : q \notin Rets(bs) /\ Rets(c) = Rets(bs) \union {q}
  <2>1. EndedAt(bs, c, b, x)
    BY <1>0, AddsEnd
  <2> QED
    BY ONLY <2>1 DEF EndedAt
<1>3. Joined(bs, open, due) /\ Returning(bs, open, n)
  BY DEF Graph
<1>4. \A k \in 1..Len(bs) : Targets(Code0(c, k)) \subseteq Targets(Code0(bs, k))
  BY <1>0, <1>2
<1>5. Joined(c, open, due) /\ Joined(c, open \ {b}, due)
  <2>1. /\ \A k \in open : k \in 1..Len(bs)
        /\ \A k \in 1..Len(bs) : bs[k].inserted => k \in open \/ k \in Closed(bs)
        /\ \A k \in 1..Len(bs) : \A t \in Targets(Code0(bs, k)) :
             t \in 1..Len(bs) /\ bs[t].fn = bs[k].fn /\ (bs[t].inserted \/ t \in due)
    BY <1>3 DEF Joined
  <2>2. \A k \in 1..Len(c) : \A t \in Targets(Code0(c, k)) :
             t \in 1..Len(c) /\ c[t].fn = c[k].fn /\ (c[t].inserted \/ t \in due)
    BY <1>1, <1>4, <2>1
  <2>3. \A k \in 1..Len(c) : c[k].inserted => k \in open \ {b} \/ k \in Closed(c)
    BY <1>1, <1>2, <2>1
  <2> QED
    BY <1>1, <2>1, <2>2, <2>3 DEF Joined
<1>6. n \in Nat /\ IsFiniteSet(Rets(bs)) /\ Cardinality(Rets(bs)) >= n
  BY <1>3 DEF Returning
<1>7. CASE x.op = "ret void"
  BY <1>1, <1>2, <1>5, <1>6, <1>7 DEF Returning, Graph
<1>8. CASE x.op = "ret"
  <2>1. PICK q : q \notin Rets(bs) /\ Rets(c) = Rets(bs) \union {q}
    BY <1>2, <1>8
  <2> DEFINE A == Rets(bs)
             C == Rets(c)
  <2>6. q \notin A /\ C = A \union {q} /\ IsFiniteSet(A) /\ n \in Nat /\ Cardinality(A) >= n
    BY <1>6, <2>1
  <2> HIDE DEF A, C
  <2>7. IsFiniteSet(C) /\ Cardinality(C) = Cardinality(A) + 1
    BY ONLY <2>6, FS_AddElement
  <2>8. Cardinality(A) \in Nat
    BY ONLY <2>6, FS_CardinalityType
  <2>9. /\ n + 1 \in Nat /\ Cardinality(C) >= n + 1 /\ Cardinality(C) >= n
        /\ Cardinality(C) # n
        /\ Cardinality(C) = n + 1 => Cardinality(A) = n
    BY ONLY <2>6, <2>7, <2>8
  <2>2. IsFiniteSet(Rets(c))
    BY <2>7 DEF C
  <2>3. /\ n + 1 \in Nat /\ Cardinality(Rets(c)) >= n + 1 /\ Cardinality(Rets(c)) >= n
        /\ Cardinality(Rets(c)) # n
        /\ Cardinality(Rets(c)) = n + 1 => Cardinality(Rets(bs)) = n
    BY <2>9 DEF A, C
  <2>4. Returning(c, open, n)
    BY <1>6, <2>2, <2>3 DEF Returning
  <2>5. Returning(c, open \ {b}, n + 1)
    BY <1>2, <1>3, <2>2, <2>3 DEF Returning
  <2> QED
    BY <1>1, <1>5, <2>4, <2>5 DEF Graph
<1> QED
  BY <1>7, <1>8

LEMMA InsertedRecord ==
  ASSUME NEW r, r = [fn |-> r.fn, inserted |-> r.inserted, insts |-> r.insts], NEW v
  PROVE  [r EXCEPT !.inserted = v] = [fn |-> r.fn, inserted |-> v, insts |-> r.insts]
OBVIOUS

(* A basic block that is open is inserted.                                 *)
LEMMA InsertedIs ==
  ASSUME NEW bs, Shape(bs), NEW b \in 1..Len(bs)
  PROVE  LET c == Inserted(bs, b)
         IN  /\ Shape(c) /\ Len(c) = Len(bs) /\ c[b].inserted
             /\ \A k \in 1..Len(bs) : c[k].fn = bs[k].fn /\ Code0(c, k) = Code0(bs, k)
             /\ \A k \in 1..Len(bs) : k # b => c[k].inserted = bs[k].inserted
<1> DEFINE n == Len(bs)
           r == bs[b]
           d == [r EXCEPT !.inserted = TRUE]
           c == Inserted(bs, b)
<1>1. bs = [k \in 1..n |-> bs[k]] /\ n \in Nat /\ \A k \in 1..n : IsBlock(bs[k])
  BY ListIs DEF Shape
<1>2. c = [k \in 1..n |-> IF k = b THEN d ELSE bs[k]]
  BY <1>1 DEF Inserted
<1>3. r = [fn |-> r.fn, inserted |-> r.inserted, insts |-> r.insts]
  BY <1>1 DEF IsBlock
<1>12. IsSeq(r.insts)
  BY <1>1 DEF IsBlock
<1>10. b \in 1..n
  OBVIOUS
<1> HIDE DEF r, n, c
<1>4. d = [fn |-> r.fn, inserted |-> TRUE, insts |-> r.insts]
  BY ONLY <1>3, InsertedRecord
<1>5. d.fn = r.fn /\ d.inserted = TRUE /\ d.insts = r.insts
  BY <1>4
<1>6. IsBlock(d)
  BY <1>4, <1>5, <1>12 DEF IsBlock
<1> HIDE DEF d
<1>7. \A k \in 1..n : c[k] = IF k = b THEN d ELSE bs[k]
  BY <1>2
<1>8. c = [k \in 1..n |-> c[k]]
  BY <1>2
<1>9. IsSeq(c) /\ Len(c) = n
  BY <1>1, <1>8, MapIs
<1>11. Shape(c)
  BY <1>1, <1>6, <1>7, <1>9 DEF Shape
<1> QED
  BY <1>5, <1>7, <1>9, <1>10, <1>11 DEF Code0, r, n, c

LEMMA Inserts ==
  ASSUME NEW bs, NEW open, NEW due, NEW n, Graph(bs, open, due, n), NEW b \in open
  PROVE  Graph(Inserted(bs, b), open, due \ {b}, n) /\ Grows(bs, Inserted(bs, b))
<1> DEFINE c == Inserted(bs, b)
<1>1. Shape(bs) /\ Joined(bs, open, due) /\ Returning(bs, open, n) /\ b \in 1..Len(bs)
  BY DEF Graph, Joined
<1>2. /\ Shape(c) /\ Len(c) = Len(bs) /\ c[b].inserted
      /\ \A k \in 1..Len(bs) : c[k].fn = bs[k].fn /\ Code0(c, k) = Code0(bs, k)
      /\ \A k \in 1..Len(bs) : k # b => c[k].inserted = bs[k].inserted
  BY <1>1, InsertedIs
<1> HIDE DEF c
<1>3. Closed(c) = Closed(bs) /\ Early(c) = Early(bs) /\ (NoNull(c) => NoNull(bs))
  BY <1>2 DEF Closed, Early, NoNull
<1>4. Rets(c) = Rets(bs)
  <2>1. \A p : p \in (1..Len(bs)) \X Nat => p[1] \in 1..Len(bs)
    OBVIOUS
  <2> QED
    BY <1>2, <2>1 DEF Rets
<1>5. Joined(c, open, due \ {b})
  BY <1>1, <1>2, <1>3 DEF Joined
<1>6. Returning(c, open, n)
  BY <1>1, <1>3, <1>4 DEF Returning
<1>7. Len(bs) \in Nat
  BY <1>1, ListIs DEF Shape
<1>8. Grows(bs, c)
  BY <1>2, <1>7 DEF Grows
<1> QED
  BY <1>2, <1>5, <1>6, <1>8 DEF Graph, c

(* Basic blocks without terminators are created.                           *)
PlainBlock(r) == IsBlock(r) /\ Stops(r.insts) = {} /\ Targets(r.insts) = {} /\ RetsOf(r.insts) = {}

LEMMA Extends ==
  ASSUME NEW bs, NEW open, NEW due, NEW n, Graph(bs, open, due, n),
         NEW s, IsSeq(s), \A k \in 1..Len(s) : PlainBlock(s[k]),
         NEW more
  PROVE  Graph(bs \o s, open \union ((Len(bs) + 1)..(Len(bs) + Len(s))), due \union more, n)
           /\ Grows(bs, bs \o s)
<1> DEFINE c == bs \o s
           l == Len(bs)
           m == Len(s)
           fresh == (l + 1)..(l + m)
<1>1. Shape(bs) /\ Joined(bs, open, due) /\ Returning(bs, open, n)
  BY DEF Graph
<1>2. /\ IsSeq(c) /\ Len(c) = l + m /\ l \in Nat /\ m \in Nat
      /\ \A k \in 1..l : c[k] = bs[k]
      /\ \A k \in 1..m : c[l + k] = s[k]
  BY <1>1, JoinIs DEF Shape
<1>3. ASSUME NEW k \in 1..Len(c), k \notin 1..l
      PROVE  k \in fresh /\ PlainBlock(c[k])
  <2>1. k \in fresh /\ k - l \in 1..m /\ l + (k - l) = k
    BY <1>2, <1>3
  <2> HIDE DEF c, m
  <2>2. c[k] = s[k - l]
    BY <1>2, <2>1
  <2> QED
    BY <2>1, <2>2 DEF m
<1>4. /\ \A k \in 1..l : k \in 1..Len(c) /\ k \notin fresh
      /\ \A k \in fresh : k \in 1..Len(c) /\ k \notin 1..l
  BY <1>2
<1> HIDE DEF c, fresh, m
<1>5. Shape(c)
  BY <1>1, <1>2, <1>3 DEF Shape, PlainBlock, l
<1>6. Closed(c) = Closed(bs) /\ Early(c) = Early(bs) /\ (NoNull(c) => NoNull(bs))
        /\ Closed(bs) \intersect fresh = {}
  BY <1>2, <1>3, <1>4 DEF Closed, Early, NoNull, PlainBlock, Code0, Late, l
<1>7. Rets(c) = Rets(bs)
  <2>1. \A p : /\ p \in (1..Len(bs)) \X Nat => p[1] \in 1..Len(bs) /\ p[2] \in Nat
               /\ p \in (1..Len(c)) \X Nat => p[1] \in 1..Len(c) /\ p[2] \in Nat
               /\ p \in (1..Len(c)) \X Nat /\ p[1] \in 1..Len(bs) => p \in (1..Len(bs)) \X Nat
               /\ p \in (1..Len(bs)) \X Nat /\ p[1] \in 1..Len(c) => p \in (1..Len(c)) \X Nat
    OBVIOUS
  <2> QED
    BY <1>2, <1>3, <1>4, <2>1 DEF Rets, Code0, PlainBlock, l
<1>8. Joined(c, open \union fresh, due \union more)
  <2>1. \A b \in open \union fresh : b \in 1..Len(c)
    BY <1>1, <1>4 DEF Joined, l
  <2>2. \A b \in 1..Len(c) : c[b].inserted => b \in open \union fresh \/ b \in Closed(c)
    BY <1>1, <1>2, <1>3, <1>6 DEF Joined, l
  <2>3. ASSUME NEW b \in 1..Len(c), NEW t \in Targets(Code0(c, b))
        PROVE  t \in 1..Len(c) /\ c[t].fn = c[b].fn /\ (c[t].inserted \/ t \in due \union more)
    <3>1. b \in 1..l
      BY <1>3, <2>3 DEF PlainBlock, Code0
    <3>2. t \in 1..l /\ bs[t].fn = bs[b].fn /\ (bs[t].inserted \/ t \in due)
      BY <1>1, <1>2, <2>3, <3>1 DEF Joined, Code0, l
    <3> QED
      BY <1>2, <1>4, <3>1, <3>2
  <2> QED
    BY <2>1, <2>2, <2>3 DEF Joined
<1>9. Returning(c, open \union fresh, n)
  BY <1>1, <1>6, <1>7 DEF Returning
<1>10. Grows(bs, c)
  BY <1>2 DEF Grows, l
<1> QED
  BY <1>5, <1>8, <1>9, <1>10 DEF Graph, c, fresh, l, m

(* More basic blocks than that may be due.                                 *)
LEMMA MoreDue ==
  ASSUME NEW bs, NEW open, NEW due, NEW n, Graph(bs, open, due, n), NEW due2, due \subseteq due2
  PROVE  Graph(bs, open, due2, n)
BY DEF Graph, Joined

(* An instruction is added to one of them before others are created.       *)
LEMMA WithJoin ==
  ASSUME NEW bs, IsSeq(bs), NEW b \in 1..Len(bs), NEW x, NEW s, IsSeq(s)
  PROVE  With(bs, b, x) \o s = With(bs \o s, b, x)
<1> DEFINE c == With(bs, b, x)
           d == bs \o s
           l == Len(bs)
           r == [bs[b] EXCEPT !.insts = Append(@, x)]
           u == c \o s
           v == With(d, b, x)
<1>1. Blocks(c, l) /\ l \in Nat /\ bs = [k \in 1..l |-> bs[k]]
  <2>1. IsSeq(bs) /\ Len(bs) = l
    OBVIOUS
  <2>2. l \in Nat /\ bs = [k \in 1..l |-> bs[k]]
    BY ONLY <2>1, ListIs
  <2>3. Blocks(bs, l)
    BY ONLY <2>1, <2>2 DEF Blocks
  <2>4. Blocks(c, l)
    BY ONLY <2>3, WithIs
  <2> QED
    BY ONLY <2>2, <2>4
<1>2. IsSeq(c) /\ Len(c) = l /\ b \in 1..l
  BY <1>1 DEF Blocks
<1>3. \A k \in 1..l : c[k] = IF k = b THEN r ELSE bs[k]
  BY <1>1 DEF With
<1>4. /\ IsSeq(d) /\ Len(d) = l + Len(s) /\ Len(s) \in Nat
      /\ \A k \in 1..l : d[k] = bs[k]
      /\ \A k \in 1..Len(s) : d[l + k] = s[k]
  BY JoinIs
<1> HIDE DEF c, d
<1>5. /\ IsSeq(u) /\ Len(u) = l + Len(s)
      /\ \A k \in 1..l : u[k] = c[k]
      /\ \A k \in 1..Len(s) : u[l + k] = s[k]
  BY <1>2, JoinIs
<1> HIDE DEF u
<1>6. v = [k \in 1..Len(d) |-> IF k = b THEN [d[b] EXCEPT !.insts = Append(@, x)] ELSE d[k]]
  <2>1. d = [k \in 1..Len(d) |-> d[k]]
    BY <1>4, ListIs
  <2> QED
    BY <2>1 DEF With
<1>7. u = [k \in 1..Len(d) |-> u[k]]
  BY <1>4, <1>5, ListIs
<1>8. [d[b] EXCEPT !.insts = Append(@, x)] = r
  BY <1>2, <1>4
<1> HIDE DEF r, v, l
<1>9. ASSUME NEW k \in 1..Len(d)
      PROVE  u[k] = IF k = b THEN r ELSE d[k]
  <2>1. CASE k \in 1..l
    BY <1>3, <1>4, <1>5, <2>1
  <2>2. CASE k \notin 1..l
    <3>1. k - l \in 1..Len(s) /\ l + (k - l) = k
      BY <1>1, <1>4, <2>2
    <3>2. u[k] = s[k - l] /\ d[k] = s[k - l]
      BY <1>4, <1>5, <3>1
    <3> QED
      BY <1>2, <2>2, <3>2
  <2> QED
    BY <2>1, <2>2
<1>10. u = v
  BY <1>6, <1>7, <1>8, <1>9
<1> QED
  BY <1>10 DEF u, v, c, d

-----------------------------------------------------------------------------
(* The control stack and the basic blocks.  An instruction that is still   *)
(* to be done ends the basic blocks it owes, inserts those of them that    *)
(* are due, and branches to those it aims at.                              *)
Owed(x) ==
  IF x.do = "leave block" THEN {x.begin, x.end}
  ELSE IF x.do = "if false" THEN {x.no}
  ELSE IF x.do \in {"post if", "post while"} THEN {x.post}
  ELSE IF x.do = "loop body" THEN {x.body}
  ELSE IF x.do = "end function" THEN {x.decls} ELSE {}

Due(x) == IF x.do = "leave block" THEN {x.end}
          ELSE IF x.do = "end function" THEN {} ELSE Owed(x)

Aims(x) ==
  IF x.do = "leave block" THEN {x.entry}
  ELSE IF x.do \in {"if false", "loop body"} THEN {x.post}
  ELSE IF x.do = "post while" THEN {x.cond}
  ELSE IF x.do = "end function" THEN {x.decls + 1} ELSE {}

Entries(s) == {s[k] : k \in 1..Len(s)}
After(s, k) == {s[j] : j \in (k + 1)..Len(s)}
OwedBy(R)  == UNION {Owed(x) : x \in R}
DueBy(R)   == UNION {Due(x) : x \in R}

(* Functions follow one another: what is done between them, and what is    *)
(* done for a statement of a block.                                        *)
AtTop(x)  == \/ x.do \in {"prototypes", "define each", "global", "verify"}
             \/ x.do = "gen" /\ x.tree.node = "Fn"
             \/ x.do = "catch" /\ x.of = "function"
InBlock(x) == \/ x.do \in {"try each", "declare"}
              \/ x.do = "gen" /\ x.tree.node \in StmtNode
Inside(R) == \E x \in R : x.do = "end function"
BlockIn(R) == \E x \in R : x.do = "leave block"

(* What is to be done before R in a function f.                            *)
Fits(bs, f, x, R) ==
  /\ \A b \in Owed(x) \union Aims(x) : b \in 1..Len(bs) /\ bs[b].fn = f
  /\ \A b \in Owed(x) : b \notin OwedBy(R)
  /\ \A b \in Aims(x) : bs[b].inserted \/ b \in DueBy(R)
  /\ x.do = "leave block" => x.begin # x.end /\ x.old \in Nat /\ x.old >= 3
  /\ IF AtTop(x) \/ x.do = "end function" THEN \A r \in R : AtTop(r) ELSE Inside(R)
  /\ InBlock(x) => BlockIn(R)

Sound(bs, f, s) ==
  IsSeq(s) /\ \A k \in 1..Len(s) : Fits(bs, f, s[k], After(s, k))

LEMMA ConsEntries ==
  ASSUME NEW x, NEW s, IsSeq(s)
  PROVE  /\ Entries(Cons(x, s)) = {x} \union Entries(s)
         /\ After(Cons(x, s), 1) = Entries(s)
         /\ \A k \in 1..Len(s) : After(Cons(x, s), k + 1) = After(s, k)
<1> DEFINE t == Cons(x, s)
<1>1. /\ IsSeq(t) /\ Len(t) = Len(s) + 1 /\ Len(s) \in Nat /\ t[1] = x
      /\ \A k \in 1..Len(s) : t[k + 1] = s[k]
  BY ConsIs DEF Cons
<1> HIDE DEF t
<1>2. 1 \in 1..Len(t) /\ \A k \in 1..Len(s) : k + 1 \in 1..Len(t) /\ k + 1 \in (1 + 1)..Len(t)
  BY <1>1
<1>3. ASSUME NEW k \in 1..Len(t), k # 1
      PROVE  k - 1 \in 1..Len(s) /\ t[k] = s[k - 1]
  <2>1. k - 1 \in 1..Len(s) /\ (k - 1) + 1 = k
    BY <1>1, <1>3
  <2> QED
    BY <1>1, <2>1
<1>4. Entries(t) = {x} \union Entries(s)
  <2>1. ASSUME NEW e \in Entries(t)
        PROVE  e \in {x} \union Entries(s)
    <3>1. PICK k \in 1..Len(t) : e = t[k]
      BY DEF Entries
    <3> QED
      BY <1>1, <1>3, <3>1 DEF Entries
  <2>2. ASSUME NEW e \in {x} \union Entries(s)
        PROVE  e \in Entries(t)
    <3>1. CASE e = x
      BY <1>1, <1>2, <3>1 DEF Entries
    <3>2. CASE e # x
      <4>1. PICK k \in 1..Len(s) : e = s[k]
        BY <2>2, <3>2 DEF Entries
      <4> QED
        BY <1>1, <1>2, <4>1 DEF Entries
    <3> QED
      BY <3>1, <3>2
  <2> QED
    BY <2>1, <2>2
<1>5. ASSUME NEW k \in 0..Len(s)
      PROVE  After(t, k + 1) = After(s, k)
  <2> DEFINE A == After(t, k + 1)
             B == After(s, k)
  <2>1. \A j \in ((k + 1) + 1)..Len(t) : j \in 1..Len(t) /\ j # 1 /\ j - 1 \in (k + 1)..Len(s)
    BY <1>1
  <2>2. \A j \in (k + 1)..Len(s) : j + 1 \in ((k + 1) + 1)..Len(t) /\ j \in 1..Len(s)
    BY <1>1
  <2>3. \A j \in ((k + 1) + 1)..Len(t) : t[j] = s[j - 1]
    BY <1>3, <2>1
  <2>4. \A j \in (k + 1)..Len(s) : t[j + 1] = s[j]
    BY <1>1, <2>2
  <2>5. ASSUME NEW e \in A
        PROVE  e \in B
    <3>1. PICK j \in ((k + 1) + 1)..Len(t) : e = t[j]
      BY <2>5 DEF After
    <3> QED
      BY <2>1, <2>3, <3>1 DEF After
  <2>6. ASSUME NEW e \in B
        PROVE  e \in A
    <3>1. PICK j \in (k + 1)..Len(s) : e = s[j]
      BY <2>6 DEF After
    <3> QED
      BY <2>2, <2>4, <3>1 DEF After
  <2> HIDE DEF A, B
  <2>7. A = B
    BY <2>5, <2>6
  <2> QED
    BY <2>7 DEF A, B
<1>6. \A k \in 1..Len(s) : After(t, k + 1) = After(s, k)
  <2>1. \A k \in 1..Len(s) : k \in 0..Len(s)
    BY <1>1
  <2> QED
    BY <1>5, <2>1
<1>7. After(t, 1) = Entries(s)
  <2>1. 0 \in 0..Len(s) /\ 0 + 1 = 1
    BY <1>1
  <2> QED
    BY <1>5, <2>1 DEF After, Entries
<1> QED
  BY <1>4, <1>6, <1>7 DEF t

LEMMA SoundCons ==
  ASSUME NEW bs, NEW f, NEW x, NEW s, IsSeq(s)
  PROVE  Sound(bs, f, Cons(x, s)) <=> Fits(bs, f, x, Entries(s)) /\ Sound(bs, f, s)
<1> DEFINE t == Cons(x, s)
<1>1. /\ IsSeq(t) /\ Len(t) = Len(s) + 1 /\ Len(s) \in Nat /\ t[1] = x
      /\ \A k \in 1..Len(s) : t[k + 1] = s[k]
  BY ConsIs DEF Cons
<1>2. /\ After(t, 1) = Entries(s)
      /\ \A k \in 1..Len(s) : After(t, k + 1) = After(s, k)
  BY ConsEntries
<1> HIDE DEF t
<1>3. 1 \in 1..Len(t) /\ \A k \in 1..Len(s) : k + 1 \in 1..Len(t)
  BY <1>1
<1>4. ASSUME Sound(bs, f, t)
      PROVE  Fits(bs, f, x, Entries(s)) /\ Sound(bs, f, s)
  <2>1. \A k \in 1..Len(t) : Fits(bs, f, t[k], After(t, k))
    BY <1>4 DEF Sound
  <2>2. Fits(bs, f, x, Entries(s))
    BY <1>1, <1>2, <1>3, <2>1
  <2>3. \A k \in 1..Len(s) : Fits(bs, f, s[k], After(s, k))
    BY <1>1, <1>2, <1>3, <2>1
  <2> QED
    BY <2>2, <2>3 DEF Sound
<1>5. ASSUME Fits(bs, f, x, Entries(s)), Sound(bs, f, s)
      PROVE  Sound(bs, f, t)
  <2>1. ASSUME NEW k \in 1..Len(t)
        PROVE  Fits(bs, f, t[k], After(t, k))
    <3>1. CASE k = 1
      BY <1>1, <1>2, <1>5, <3>1
    <3>2. CASE k # 1
      <4>1. k - 1 \in 1..Len(s) /\ (k - 1) + 1 = k
        BY <1>1, <3>2
      <4>2. t[k] = s[k - 1] /\ After(t, k) = After(s, k - 1)
        BY <1>1, <1>2, <4>1
      <4> QED
        BY <1>5, <4>1, <4>2 DEF Sound
    <3> QED
      BY <3>1, <3>2
  <2> QED
    BY <1>1, <2>1 DEF Sound
<1> QED
  BY <1>4, <1>5 DEF t

LEMMA HeadTail ==
  ASSUME NEW s, IsSeq(s), s # <<>>
  PROVE  s = Cons(Head(s), Tail(s)) /\ IsSeq(Tail(s))
<1> DEFINE r == Tail(s)
           x == Head(s)
           t == Cons(x, r)
<1>1. /\ IsSeq(r) /\ Len(r) = Len(s) - 1
      /\ Len(s) \in Nat /\ Len(s) >= 1 /\ x = s[1]
      /\ \A k \in 1..(Len(s) - 1) : r[k] = s[k + 1]
  BY TailIs
<1> HIDE DEF r, x
<1>2. /\ IsSeq(t) /\ Len(t) = Len(r) + 1 /\ t[1] = x
      /\ \A k \in 1..Len(r) : t[k + 1] = r[k]
  BY <1>1, ConsIs DEF Cons
<1> HIDE DEF t
<1>3. ASSUME NEW k \in 1..Len(s)
      PROVE  t[k] = s[k]
  <2>1. CASE k = 1
    BY <1>1, <1>2, <2>1
  <2>2. CASE k # 1
    <3>1. k - 1 \in 1..(Len(s) - 1) /\ (k - 1) + 1 = k
      BY <1>1, <2>2
    <3> QED
      BY <1>1, <1>2, <3>1
  <2> QED
    BY <2>1, <2>2
<1>4. s = [k \in 1..Len(s) |-> s[k]] /\ t = [k \in 1..Len(t) |-> t[k]] /\ Len(t) = Len(s)
  BY <1>1, <1>2, ListIs
<1>5. s = t
  BY <1>3, <1>4
<1> QED
  BY <1>1, <1>5 DEF t, r, x

(* The basic blocks may become more.                                       *)
LEMMA SoundGrow ==
  ASSUME NEW bs, NEW c, NEW f, NEW s, Grows(bs, c), Sound(bs, f, s)
  PROVE  Sound(c, f, s)
<1>1. ASSUME NEW x, NEW R, Fits(bs, f, x, R)
      PROVE  Fits(c, f, x, R)
  <2>1. \A b \in 1..Len(bs) : b \in 1..Len(c)
    BY DEF Grows
  <2>2. \A b \in Owed(x) \union Aims(x) : b \in 1..Len(bs) /\ bs[b].fn = f
    BY <1>1 DEF Fits
  <2>3. \A b \in Owed(x) \union Aims(x) : b \in 1..Len(c) /\ c[b].fn = f
    BY <2>1, <2>2 DEF Grows
  <2>4. \A b \in Aims(x) : c[b].inserted \/ b \in DueBy(R)
    BY <1>1, <2>2 DEF Grows, Fits
  <2> QED
    BY <1>1, <2>3, <2>4 DEF Fits
<1> QED
  BY <1>1 DEF Sound

LEMMA TopOwes ==
  ASSUME NEW x, AtTop(x)
  PROVE  Owed(x) = {} /\ Due(x) = {} /\ Aims(x) = {} /\ ~InBlock(x)
           /\ x.do # "end function" /\ x.do # "leave block"
BY DEF AtTop, Owed, Due, Aims, InBlock, StmtNode

LEMMA AllTop ==
  ASSUME NEW R, \A r \in R : AtTop(r)
  PROVE  OwedBy(R) = {} /\ DueBy(R) = {} /\ ~Inside(R)
<1>1. \A r \in R : Owed(r) = {} /\ Due(r) = {} /\ r.do # "end function"
  BY TopOwes
<1> QED
  BY <1>1 DEF OwedBy, DueBy, Inside

(* Between functions no basic block is owed.                               *)
LEMMA SoundTop ==
  ASSUME NEW s, IsSeq(s), \A r \in Entries(s) : AtTop(r), NEW bs, NEW f
  PROVE  Sound(bs, f, s)
<1>1. Len(s) \in Nat
  BY ListIs
<1>2. ASSUME NEW k \in 1..Len(s)
      PROVE  Fits(bs, f, s[k], After(s, k))
  <2>1. AtTop(s[k])
    BY DEF Entries
  <2>2. \A j \in (k + 1)..Len(s) : j \in 1..Len(s)
    BY <1>1
  <2>3. \A r \in After(s, k) : AtTop(r)
    BY <2>2 DEF After, Entries
  <2> QED
    BY <2>1, <2>3, TopOwes DEF Fits
<1> QED
  BY <1>2 DEF Sound

-----------------------------------------------------------------------------
(* Inside a function, where p is the basic block code is generated in, all *)
(* frames share the first basic block; and between functions.              *)
Framed(R, fr) ==
  /\ Len(fr) >= 3
  /\ \A x \in R : x.do = "end function" =>
       x.old = 2 /\ \A j \in 3..Len(fr) : fr[j].declarations_block = x.decls

InFunction(bs, p, s, fr, gen) ==
  /\ Sound(bs, bs[p].fn, s) /\ Inside(Entries(s)) /\ p \notin OwedBy(Entries(s))
  /\ Framed(Entries(s), fr) /\ IsFiniteSet(gen)
  /\ Graph(bs, OwedBy(Entries(s)) \union {p}, DueBy(Entries(s)), Cardinality(gen) - 1)

Settled(R, n) == \A r \in R : r.do \notin {"prototypes", "verify"} => n = 2

Between(bs, s, fr, gen) ==
  /\ IsSeq(s) /\ (\A r \in Entries(s) : AtTop(r)) /\ Settled(Entries(s), Len(fr))
  /\ IsFiniteSet(gen) /\ Graph(bs, {}, {}, Cardinality(gen))

Wired == InFunction(blocks, ip, todo, frames, generated)
           \/ Between(blocks, todo, frames, generated)

(* If nothing has been thrown yet.                                         *)
WiredInv == Runs /\ errors = 0 => state = Len(frames) /\ Wired

(* Instructions that leave the basic blocks to others.                     *)
Plain(x) ==
  /\ Owed(x) = {} /\ Due(x) = {} /\ Aims(x) = {} /\ ~AtTop(x)
  /\ x.do # "end function" /\ x.do # "leave block"

PlainDos == {"each", "operator", "call", "no value", "if true", "drop", "ret", "assign"}

LEMMA PlainIs ==
  ASSUME NEW x, NEW what, what \in PlainDos, x.do = what
  PROVE  Plain(x) /\ ~InBlock(x)
BY DEF PlainDos, Plain, Owed, Due, Aims, AtTop, InBlock

PlainBlockDos == {"try each", "declare"}

LEMMA PlainBlockIs ==
  ASSUME NEW x, NEW what, what \in PlainBlockDos, x.do = what
  PROVE  Plain(x)
BY DEF PlainBlockDos, Plain, Owed, Due, Aims, AtTop

LEMMA PlainGen ==
  ASSUME NEW x, x.do = "gen", x.tree.node \in ExprNode \union StmtNode
  PROVE  /\ Plain(x)
         /\ x.tree.node \in ExprNode => ~InBlock(x)
BY DEF Plain, Owed, Due, Aims, AtTop, InBlock, ExprNode, StmtNode

LEMMA PlainCatch ==
  ASSUME NEW x, x.do = "catch", x.of # "function"
  PROVE  Plain(x) /\ ~InBlock(x)
BY DEF Plain, Owed, Due, Aims, AtTop, InBlock

LEMMA GenExpr ==
  ASSUME NEW e \in Exprs
  PROVE  Plain(Gen(e)) /\ ~InBlock(Gen(e))
<1>1. Gen(e).do = "gen" /\ Gen(e).tree = e /\ e.node \in ExprNode
  BY DEF Gen, Exprs
<1> DEFINE x == Gen(e)
<1>2. x.do = "gen" /\ x.tree.node \in ExprNode
  BY <1>1
<1> HIDE DEF x
<1>3. Plain(x) /\ ~InBlock(x)
  BY <1>2, PlainGen
<1> QED
  BY <1>3 DEF x

LEMMA ConsOwed ==
  ASSUME NEW x, NEW s, IsSeq(s)
  PROVE  /\ OwedBy(Entries(Cons(x, s))) = Owed(x) \union OwedBy(Entries(s))
         /\ DueBy(Entries(Cons(x, s))) = Due(x) \union DueBy(Entries(s))
         /\ Inside(Entries(Cons(x, s))) <=> x.do = "end function" \/ Inside(Entries(s))
         /\ BlockIn(Entries(Cons(x, s))) <=> x.do = "leave block" \/ BlockIn(Entries(s))
<1>1. Entries(Cons(x, s)) = {x} \union Entries(s)
  BY ConsEntries
<1> QED
  BY <1>1 DEF OwedBy, DueBy, Inside, BlockIn

(* A plain instruction in front.                                           *)
LEMMA InPush ==
  ASSUME NEW bs, NEW p, NEW s, NEW fr, NEW gen, InFunction(bs, p, s, fr, gen),
         NEW x, Plain(x), InBlock(x) => BlockIn(Entries(s))
  PROVE  /\ InFunction(bs, p, Cons(x, s), fr, gen) /\ IsSeq(Cons(x, s))
         /\ BlockIn(Entries(s)) => BlockIn(Entries(Cons(x, s)))
<1> DEFINE R == Entries(s)
           t == Cons(x, s)
           Q == Entries(t)
<1>1. /\ Sound(bs, bs[p].fn, s) /\ Inside(R) /\ p \notin OwedBy(R)
      /\ Framed(R, fr) /\ IsFiniteSet(gen)
      /\ Graph(bs, OwedBy(R) \union {p}, DueBy(R), Cardinality(gen) - 1)
  BY DEF InFunction
<1>2. IsSeq(s)
  BY <1>1 DEF Sound
<1>3. Q = {x} \union R
  BY <1>2, ConsEntries
<1>4. /\ OwedBy(Q) = OwedBy(R) /\ DueBy(Q) = DueBy(R) /\ Inside(Q) 
      /\ BlockIn(R) => BlockIn(Q)
  <2>1. /\ OwedBy(Q) = Owed(x) \union OwedBy(R) /\ DueBy(Q) = Due(x) \union DueBy(R)
        /\ Inside(Q) <=> x.do = "end function" \/ Inside(R)
        /\ BlockIn(Q) <=> x.do = "leave block" \/ BlockIn(R)
    BY <1>2, ConsOwed
  <2> HIDE DEF Q, R
  <2> QED
    BY <1>1, <2>1 DEF Plain
<1>5. Fits(bs, bs[p].fn, x, R)
  BY <1>1 DEF Fits, Plain
<1>6. Sound(bs, bs[p].fn, t) /\ IsSeq(t)
  <2>1. Sound(bs, bs[p].fn, t)
    BY <1>1, <1>2, <1>5, SoundCons
  <2> QED
    BY <2>1 DEF Sound
<1>7. Framed(Q, fr)
  <2> HIDE DEF Q, R, t
  <2> QED
    BY <1>1, <1>3 DEF Framed, Plain
<1> HIDE DEF Q, R, t
<1>8. InFunction(bs, p, t, fr, gen)
  BY <1>1, <1>4, <1>6, <1>7 DEF InFunction, Q
<1> QED
  BY <1>4, <1>6, <1>8 DEF t, Q, R

(* What is left when the first instruction is done.                        *)
LEMMA PopOwes ==
  ASSUME NEW bs, NEW p, NEW s, NEW fr, NEW gen, InFunction(bs, p, s, fr, gen), s # <<>>
  PROVE  LET x == Head(s)
             R == Entries(Tail(s))
         IN  /\ Entries(s) = {x} \union R
             /\ OwedBy(Entries(s)) = Owed(x) \union OwedBy(R)
             /\ DueBy(Entries(s)) = Due(x) \union DueBy(R)
<1> DEFINE x == Head(s)
           r == Tail(s)
           R == Entries(r)
           Q == Entries(s)
<1>1. IsSeq(s)
  BY DEF InFunction, Sound
<1>2. s = Cons(x, r) /\ IsSeq(r)
  BY <1>1, HeadTail
<1> HIDE DEF x, r
<1>3. Q = {x} \union R /\ OwedBy(Q) = Owed(x) \union OwedBy(R)
      /\ DueBy(Q) = Due(x) \union DueBy(R)
  BY <1>2, ConsEntries, ConsOwed
<1> HIDE DEF Q, R
<1> QED
  BY ONLY <1>3 DEF x, r, Q, R

LEMMA PopFits ==
  ASSUME NEW bs, NEW p, NEW s, NEW fr, NEW gen, InFunction(bs, p, s, fr, gen), s # <<>>
  PROVE  LET x == Head(s)
             r == Tail(s)
             R == Entries(r)
         IN  /\ IsSeq(r) /\ Sound(bs, bs[p].fn, r) /\ Fits(bs, bs[p].fn, x, R)
             /\ ~AtTop(x) /\ (x.do # "end function" => Inside(R))
<1> DEFINE x == Head(s)
           r == Tail(s)
           R == Entries(r)
           Q == Entries(s)
<1>1. Sound(bs, bs[p].fn, s) /\ Inside(Q)
  BY DEF InFunction
<1>2. IsSeq(s)
  BY <1>1 DEF Sound
<1>3. s = Cons(x, r) /\ IsSeq(r)
  BY <1>2, HeadTail
<1> HIDE DEF x, r
<1>4. Fits(bs, bs[p].fn, x, R) /\ Sound(bs, bs[p].fn, r)
  BY <1>1, <1>3, SoundCons
<1>5. Q = {x} \union R /\ (Inside(Q) <=> x.do = "end function" \/ Inside(R))
  BY <1>3, ConsEntries, ConsOwed
<1> HIDE DEF Q, R
<1>6. ~AtTop(x) /\ (x.do # "end function" => Inside(R))
  BY <1>1, <1>4, <1>5, AllTop, TopOwes DEF Fits
<1> QED
  BY ONLY <1>3, <1>4, <1>6 DEF x, r, R

LEMMA PopPlain ==
  ASSUME NEW bs, NEW p, NEW s, NEW fr, NEW gen, InFunction(bs, p, s, fr, gen), s # <<>>,
         Plain(Head(s))
  PROVE  InFunction(bs, p, Tail(s), fr, gen)
<1> DEFINE x == Head(s)
           r == Tail(s)
           R == Entries(r)
           Q == Entries(s)
<1>1. /\ p \notin OwedBy(Q) /\ Framed(Q, fr) /\ IsFiniteSet(gen)
      /\ Graph(bs, OwedBy(Q) \union {p}, DueBy(Q), Cardinality(gen) - 1)
  BY DEF InFunction
<1>2. /\ Sound(bs, bs[p].fn, r) /\ Fits(bs, bs[p].fn, x, R)
      /\ x.do # "end function" => Inside(R)
  BY ONLY InFunction(bs, p, s, fr, gen), s # <<>>, PopFits
<1>3. /\ Q = {x} \union R /\ OwedBy(Q) = Owed(x) \union OwedBy(R)
      /\ DueBy(Q) = Due(x) \union DueBy(R)
  BY ONLY InFunction(bs, p, s, fr, gen), s # <<>>, PopOwes
<1>4. Plain(x)
  OBVIOUS
<1> HIDE DEF x, r, R, Q
<1>5. OwedBy(Q) = OwedBy(R) /\ DueBy(Q) = DueBy(R) /\ Inside(R)
  BY ONLY <1>2, <1>3, <1>4 DEF Plain
<1>6. Framed(R, fr)
  BY ONLY <1>1, <1>3 DEF Framed
<1>7. InFunction(bs, p, r, fr, gen)
  BY ONLY <1>1, <1>2, <1>5, <1>6 DEF InFunction, R
<1> QED
  BY ONLY <1>7 DEF r

(* Inside a function, and between functions.                               *)
LEMMA Inward ==
  ASSUME WiredInv, Runs, errors = 0, todo # <<>>, ~AtTop(Instr)
  PROVE  state = Len(frames) /\ InFunction(blocks, ip, todo, frames, generated)
<1>1. state = Len(frames) /\ Wired
  BY DEF WiredInv
<1>2. ASSUME Between(blocks, todo, frames, generated)
      PROVE  FALSE
  <2>1. IsSeq(todo) /\ \A r \in Entries(todo) : AtTop(r)
    BY <1>2 DEF Between
  <2>2. Instr = todo[1] /\ 1 \in 1..Len(todo)
    BY <2>1, TailIs DEF Instr
  <2> QED
    BY <2>1, <2>2 DEF Entries
<1> QED
  BY <1>1, <1>2 DEF Wired

LEMMA Outward ==
  ASSUME WiredInv, Runs, errors = 0, todo # <<>>, AtTop(Instr)
  PROVE  /\ state = Len(frames) /\ IsSeq(Tail(todo)) /\ IsFiniteSet(generated)
         /\ \A r \in Entries(Tail(todo)) : AtTop(r)
         /\ Settled(Entries(Tail(todo)), Len(frames)) /\ Settled({Instr}, Len(frames))
         /\ Graph(blocks, {}, {}, Cardinality(generated))
<1>1. state = Len(frames) /\ Wired
  BY DEF WiredInv
<1>2. ~InFunction(blocks, ip, todo, frames, generated)
  <2> SUFFICES ASSUME InFunction(blocks, ip, todo, frames, generated)
               PROVE  FALSE
    OBVIOUS
  <2> QED
    BY PopFits DEF Instr
<1>3. Between(blocks, todo, frames, generated)
  BY <1>1, <1>2 DEF Wired
<1>4. IsSeq(todo) /\ \A r \in Entries(todo) : AtTop(r)
  BY <1>3 DEF Between
<1>5. IsSeq(Tail(todo)) /\ todo = Cons(Head(todo), Tail(todo))
  BY <1>4, HeadTail
<1>6. Entries(todo) = {Head(todo)} \union Entries(Tail(todo))
  BY <1>5, ConsEntries
<1> QED
  BY <1>1, <1>3, <1>4, <1>5, <1>6 DEF Between, Settled, Instr

(* How a step keeps it.                                                    *)
LEMMA StaysInside ==
  ASSUME state' = Len(frames'), InFunction(blocks', ip', todo', frames', generated')
  PROVE  WiredInv'
BY DEF WiredInv, Wired

LEMMA StaysBetween ==
  ASSUME state' = Len(frames'), Between(blocks', todo', frames', generated')
  PROVE  WiredInv'
BY DEF WiredInv, Wired

LEMMA CrashWires ==
  ASSUME NEW why, why # "running", Crash(why)
  PROVE  WiredInv'
BY DEF Crash, WiredInv, Runs

LEMMA ThrowWires ==
  ASSUME IInv, Throw
  PROVE  WiredInv'
<1>1. errors \in 0..MaxErrors /\ MaxErrors \in Nat \ {0}
  <2>3. Counted
    BY DEF IInv
  <2>1. errors \in 0..MaxErrors
    BY ONLY <2>3 DEF Counted
  <2>2. MaxErrors \in Nat \ {0}
    BY ONLY MaxErrorsAssumption
  <2> QED
    BY ONLY <2>1, <2>2
<1>2. CASE errors' = OneMore(errors)
  <2>1. errors' # 0
    BY <1>1, <1>2 DEF OneMore
  <2> QED
    BY <2>1 DEF WiredInv
<1>3. CASE Crash("uncaught")
  BY <1>3, CrashWires
<1> QED
  BY <1>2, <1>3 DEF Throw

(* A step that only says what is to be done, inside a function.            *)
LEMMA GoesOn ==
  ASSUME WiredInv, Runs, todo # <<>>, Plain(Instr), SameScope, UNCHANGED <<blocks, ip, generated, errors>>,
         InFunction(blocks, ip, Tail(todo), frames, generated) =>
           InFunction(blocks, ip, todo', frames, generated)
  PROVE  WiredInv'
<1> SUFFICES ASSUME errors = 0
             PROVE  WiredInv'
  BY DEF WiredInv
<1>1. state = Len(frames) /\ InFunction(blocks, ip, todo, frames, generated)
  BY Inward DEF Plain
<1>2. InFunction(blocks, ip, Tail(todo), frames, generated)
  BY <1>1, PopPlain DEF Instr
<1>3. InFunction(blocks', ip', todo', frames', generated') /\ state' = Len(frames')
  BY <1>1, <1>2 DEF SameScope
<1> QED
  BY <1>3, StaysInside

Steady == SameScope /\ UNCHANGED <<blocks, ip, generated, errors>>

LEMMA SteadyRest ==
  ASSUME SameScope, SameRest, UNCHANGED <<blocks, ip, n_allocas>>
  PROVE  Steady
BY DEF Steady, SameRest, SameNames

LEMMA GoesNone ==
  ASSUME WiredInv, Runs, todo # <<>>, IsSeq(Tail(todo)), Plain(Instr), Steady, Go(<<>>)
  PROVE  WiredInv'
<1>1. todo' = Tail(todo)
  BY GoNone
<1> QED
  BY <1>1, GoesOn DEF Steady

LEMMA GoesTwo ==
  ASSUME WiredInv, Runs, todo # <<>>, IsSeq(Tail(todo)), Plain(Instr), Steady,
         NEW x, NEW y, Go(<<x, y>>), Plain(x), ~InBlock(x), Plain(y), ~InBlock(y)
  PROVE  WiredInv'
<1> DEFINE rest == Tail(todo)
<1>1. todo' = Cons(x, Cons(y, rest))
  <2>1. IsSeq(rest) /\ todo' = <<x, y>> \o rest
    BY DEF Go
  <2> HIDE DEF rest
  <2>2. <<x, y>> \o rest = Cons(x, Cons(y, rest))
    BY ONLY <2>1, Tuple2
  <2> QED
    BY <2>1, <2>2
<1>2. ASSUME InFunction(blocks, ip, rest, frames, generated)
      PROVE  InFunction(blocks, ip, Cons(x, Cons(y, rest)), frames, generated)
  <2> HIDE DEF rest
  <2>1. InFunction(blocks, ip, Cons(y, rest), frames, generated)
    BY ONLY <1>2, Plain(y), ~InBlock(y), InPush
  <2> QED
    BY ONLY <2>1, Plain(x), ~InBlock(x), InPush
<1> QED
  BY <1>1, <1>2, GoesOn DEF Steady

LEMMA DoingIs ==
  ASSUME IInv, NEW what, Doing(what)
  PROVE  Runs /\ Instr.do = what /\ todo # <<>> /\ IsSeq(Tail(todo))
BY Running

LEMMA DoingPlain ==
  ASSUME IInv, NEW what, what \in PlainDos, Doing(what)
  PROVE  Runs /\ Instr.do = what /\ todo # <<>> /\ IsSeq(Tail(todo)) /\ Plain(Instr) /\ ~InBlock(Instr)
<1>1. Runs /\ Instr.do = what /\ todo # <<>> /\ IsSeq(Tail(todo))
  BY DoingIs
<1> DEFINE x == Instr
<1>2. x.do = what
  BY <1>1
<1> HIDE DEF x
<1>3. Plain(x) /\ ~InBlock(x)
  BY <1>2, PlainIs
<1> QED
  BY <1>1, <1>3 DEF x

LEMMA GeneratingIs ==
  ASSUME IInv, NEW node \in ExprNode \union StmtNode, Generating(node)
  PROVE  Runs /\ todo # <<>> /\ IsSeq(Tail(todo)) /\ Plain(Instr) /\ T \in Trees /\ T.node = node
<1>1. Doing("gen") /\ T.node = node
  BY DEF Generating, T
<1>2. Runs /\ Instr.do = "gen" /\ todo # <<>> /\ IsSeq(Tail(todo))
  BY <1>1, DoingIs
<1>3. Plain(Instr)
  <2>1. Instr.tree.node \in ExprNode \union StmtNode
    BY <1>1 DEF T
  <2> QED
    BY <1>2, <2>1, PlainGen
<1>4. T \in Trees
  BY AtExpr, AtStmt
<1> QED
  BY <1>1, <1>2, <1>3, <1>4

LEMMA EndOfTryWires ==
  ASSUME IInv, WiredInv, EndOfTry
  PROVE  WiredInv'
<1>1. /\ Doing("catch") /\ Go(<<>>) /\ Steady
  BY SteadyRest DEF EndOfTry
<1>2. Runs /\ Instr.do = "catch" /\ todo # <<>> /\ IsSeq(Tail(todo))
  BY <1>1, DoingIs
<1>3. CASE Instr.of # "function"
  BY <1>1, <1>2, <1>3, PlainCatch, GoesNone
<1>4. CASE Instr.of = "function"
  <2> SUFFICES ASSUME errors = 0
               PROVE  WiredInv'
    BY <1>1 DEF WiredInv, Steady
  <2>1. AtTop(Instr)
    BY <1>2, <1>4 DEF AtTop
  <2>2. todo' = Tail(todo)
    BY <1>1, <1>2, GoNone
  <2>3. Between(blocks', todo', frames', generated') /\ state' = Len(frames')
    BY <1>1, <1>2, <2>1, <2>2, Outward DEF Between, Steady, SameScope
  <2> QED
    BY <2>3, StaysBetween
<1> QED
  BY <1>3, <1>4

LEMMA GenConstantWires ==
  ASSUME IInv, WiredInv, GenConstant
  PROVE  WiredInv'
<1>1. Generating("Constant") /\ Go(<<>>) /\ Steady
  BY SteadyRest DEF GenConstant
<1> QED
  BY <1>1, GeneratingIs, GoesNone DEF ExprNode

LEMMA NoValueWires ==
  ASSUME IInv, WiredInv, NoValue
  PROVE  WiredInv'
<1>1. Doing("no value") /\ Go(<<>>) /\ Steady
  BY SteadyRest DEF NoValue
<1> QED
  BY <1>1, DoingPlain, GoesNone DEF PlainDos

LEMMA DropWires ==
  ASSUME IInv, WiredInv, Drop
  PROVE  WiredInv'
<1>1. Doing("drop") /\ Go(<<>>) /\ Steady
  BY SteadyRest DEF Drop
<1> QED
  BY <1>1, DoingPlain, GoesNone DEF PlainDos

LEMMA GenOperatorWires ==
  ASSUME IInv, WiredInv, GenOperator
  PROVE  WiredInv'
<1> DEFINE a == Each(T.kids)
           o == [do |-> "operator", n |-> Len(T.kids)]
<1>1. Generating("Operator") /\ Go(<<a, o>>) /\ Steady
  BY SteadyRest DEF GenOperator
<1>2. a.do = "each" /\ o.do = "operator"
  BY DEF Each
<1> HIDE DEF a, o
<1>4. "each" \in PlainDos /\ "operator" \in PlainDos
  BY DEF PlainDos
<1>3. Plain(a) /\ ~InBlock(a) /\ Plain(o) /\ ~InBlock(o)
  BY ONLY <1>2, <1>4, PlainIs
<1> QED
  BY <1>1, <1>3, GeneratingIs, GoesTwo DEF ExprNode

LEMMA NextOperandWires ==
  ASSUME IInv, WiredInv, NextOperand
  PROVE  WiredInv'
<1> DEFINE left == Instr.trees
<1>1. /\ Doing("each") /\ Steady
      /\ Go(IF left = <<>> THEN <<>> ELSE <<Gen(Head(left)), Each(Tail(left))>>)
  BY SteadyRest DEF NextOperand
<1>6. "each" \in PlainDos
  BY DEF PlainDos
<1>2. /\ Runs /\ Instr.do = "each" /\ todo # <<>> /\ IsSeq(Tail(todo)) /\ Plain(Instr)
      /\ Refers(Len(blocks), n_allocas, Instr)
  BY <1>1, <1>6, Running, DoingPlain
<1>3. left \in Seq(Exprs)
  BY <1>2 DEF Refers
<1> HIDE DEF left
<1>4. CASE left = <<>>
  BY <1>1, <1>2, <1>4, GoesNone
<1>5. CASE left # <<>>
  <2>1. Head(left) \in Exprs
    <3> DEFINE S == Exprs
    <3>1. left \in Seq(S)
      BY <1>3
    <3> HIDE DEF S
    <3>2. Head(left) \in S
      BY <1>5, <3>1, HeadTailProperties
    <3> QED
      BY <3>2 DEF S
  <2> DEFINE a == Gen(Head(left))
             o == Each(Tail(left))
  <2>2. Plain(a) /\ ~InBlock(a) /\ o.do = "each" /\ Go(<<a, o>>)
    BY <1>1, <1>5, <2>1, GenExpr DEF Each
  <2> HIDE DEF a, o
  <2>3. Plain(o) /\ ~InBlock(o)
    BY ONLY <1>6, <2>2, PlainIs
  <2> QED
    BY <1>1, <1>2, <2>2, <2>3, GoesTwo
<1> QED
  BY <1>4, <1>5

LEMMA GenFunctionCallWires ==
  ASSUME IInv, WiredInv, GenFunctionCall
  PROVE  WiredInv'
<1> DEFINE n == Len(T.kids)
           a == Each(T.kids)
           o == [do |-> "call", n |-> n, name |-> T.name]
<1>1. Generating("Call")
  BY DEF GenFunctionCall
<1>2. CASE Throw
  BY <1>2, ThrowWires
<1>3. CASE ~Throw
  <2>1. Go(<<a, o>>) /\ Steady
    BY <1>3 DEF GenFunctionCall, Steady
  <2>2. a.do = "each" /\ o.do = "call"
    BY DEF Each
  <2> HIDE DEF a, o
  <2>4. "each" \in PlainDos /\ "call" \in PlainDos
    BY DEF PlainDos
  <2>3. Plain(a) /\ ~InBlock(a) /\ Plain(o) /\ ~InBlock(o)
    BY ONLY <2>2, <2>4, PlainIs
  <2> QED
    BY <1>1, <2>1, <2>3, GeneratingIs, GoesTwo DEF ExprNode
<1> QED
  BY <1>2, <1>3

LEMMA GenIfWires ==
  ASSUME IInv, WiredInv, GenIf
  PROVE  WiredInv'
<1> DEFINE e == Kid(1)
           x == [do |-> "if true", tree |-> T]
<1>1. Generating("If") /\ Go(<<Gen(e), x>>) /\ Steady
  BY SteadyRest DEF GenIf
<1>2. T \in Trees /\ T.node = "If"
  BY <1>1, GeneratingIs DEF ExprNode
<1>3. e \in Exprs
  <2>1. Len(T.kids) \in {2, 3} /\ T.node # "Block"
    BY <1>2, KidsAre
  <2>2. 1 <= Len(T.kids) /\ 1 \in Nat /\ 1 <= 1
    BY <2>1
  <2> QED
    BY <1>2, <2>1, <2>2, KidIs DEF Kid
<1>4. x.do = "if true" /\ Plain(Gen(e)) /\ ~InBlock(Gen(e))
  BY <1>3, GenExpr
<1> HIDE DEF x, e
<1>6. "if true" \in PlainDos
  BY DEF PlainDos
<1>5. Plain(x) /\ ~InBlock(x)
  BY ONLY <1>4, <1>6, PlainIs
<1> QED
  BY <1>1, <1>4, <1>5, GeneratingIs, GoesTwo DEF ExprNode

LEMMA ThenWires ==
  ASSUME IInv, WiredInv, NEW node, node \in StmtNode, Generating(node),
         NEW e, e \in Exprs, NEW x, x.do \in PlainDos,
         Go(<<Gen(e), x>>), Steady
  PROVE  WiredInv'
<1>1. node \in ExprNode \union StmtNode
  BY DEF StmtNode
<1>2. Plain(Gen(e)) /\ ~InBlock(Gen(e)) /\ Plain(x) /\ ~InBlock(x)
  BY GenExpr, PlainIs
<1>3. Runs /\ todo # <<>> /\ IsSeq(Tail(todo)) /\ Plain(Instr)
  BY <1>1, GeneratingIs
<1> QED
  BY <1>2, <1>3, GoesTwo

LEMMA GenExprStmtWires ==
  ASSUME IInv, WiredInv, GenExprStmt
  PROVE  WiredInv'
<1>4. "ExprStmt" \in StmtNode /\ "drop" \in PlainDos
  BY DEF StmtNode, PlainDos
<1>1. Generating("ExprStmt") /\ Go(<<Gen(Kid(1)), Then("drop")>>) /\ Steady
  BY SteadyRest DEF GenExprStmt
<1>2. Then("drop").do = "drop" /\ T.node = "ExprStmt" /\ T \in Trees
  BY <1>1, GeneratingIs DEF Then, StmtNode
<1>3. Kid(1) \in Exprs
  BY <1>2, OneKid DEF Kid
<1> QED
  BY <1>1, <1>2, <1>3, <1>4, ThenWires

LEMMA GenReturnWires ==
  ASSUME IInv, WiredInv, GenReturn
  PROVE  WiredInv'
<1>4. "Return" \in StmtNode /\ "ret" \in PlainDos
  BY DEF StmtNode, PlainDos
<1>1. Generating("Return") /\ Go(<<Gen(Kid(1)), Then("ret")>>) /\ Steady
  BY SteadyRest DEF GenReturn
<1>2. Then("ret").do = "ret" /\ T.node = "Return" /\ T \in Trees
  BY <1>1, GeneratingIs DEF Then, StmtNode
<1>3. Kid(1) \in Exprs
  BY <1>2, OneKid DEF Kid
<1> QED
  BY <1>1, <1>2, <1>3, <1>4, ThenWires

LEMMA GenAssignmentWires ==
  ASSUME IInv, WiredInv, GenAssignment
  PROVE  WiredInv'
<1> DEFINE x == [do |-> "assign", key |-> Kid(1)]
<1>4. "Assign" \in StmtNode /\ "assign" \in PlainDos
  BY DEF StmtNode, PlainDos
<1>1. Generating("Assign") /\ Go(<<Gen(Kid(2)), x>>) /\ Steady
  BY SteadyRest DEF GenAssignment
<1>2. x.do = "assign" /\ T.node = "Assign" /\ T \in Trees
  BY <1>1, GeneratingIs DEF StmtNode
<1>3. Kid(2) \in Exprs
  BY <1>2, TwoKids DEF Kid
<1> HIDE DEF x
<1> QED
  BY <1>1, <1>2, <1>3, <1>4, ThenWires

LEMMA NextStatementWires ==
  ASSUME IInv, WiredInv, NextStatement
  PROVE  WiredInv'
<1> DEFINE left == Instr.trees
           rest == Tail(todo)
           a == Gen(Head(left))
           y == Catch("statement", Len(frames))
           z == TryEach(Tail(left))
<1>1. /\ Doing("try each") /\ Steady
      /\ Go(IF left = <<>> THEN <<>> ELSE <<a, y, z>>)
  BY SteadyRest DEF NextStatement
<1>6. "try each" \in PlainBlockDos
  BY DEF PlainBlockDos
<1>7. /\ Runs /\ Instr.do = "try each" /\ todo # <<>> /\ IsSeq(rest)
      /\ Refers(Len(blocks), n_allocas, Instr)
  BY <1>1, Running
<1>2. /\ Runs /\ Instr.do = "try each" /\ todo # <<>> /\ IsSeq(rest) /\ Plain(Instr)
      /\ Refers(Len(blocks), n_allocas, Instr)
  <2> DEFINE x == Instr
  <2>1. x.do = "try each"
    BY <1>7
  <2> HIDE DEF x
  <2>2. Plain(x)
    BY ONLY <1>6, <2>1, PlainBlockIs
  <2> QED
    BY <1>7, <2>2 DEF x
<1>3. left \in Seq(Stmts)
  BY <1>2 DEF Refers
<1>4. CASE left = <<>>
  BY <1>1, <1>2, <1>4, GoesNone
<1>5. CASE left # <<>>
  <2>1. Head(left) \in Stmts
    <3> DEFINE S == Stmts
    <3>1. left \in Seq(S)
      BY <1>3
    <3> HIDE DEF S, left
    <3>2. Head(left) \in S
      BY <1>5, <3>1, HeadTailProperties
    <3> QED
      BY <3>2 DEF S
  <2>2. a.do = "gen" /\ a.tree.node \in StmtNode
    BY <2>1 DEF Gen, Stmts
  <2>3. y.do = "catch" /\ y.of = "statement" /\ z.do = "try each"
    BY DEF Catch, TryEach
  <2>4. todo' = <<a, y, z>> \o rest
    BY <1>1, <1>5 DEF Go
  <2> HIDE DEF a, y, z, rest
  <2>5. Plain(a) /\ Plain(y) /\ ~InBlock(y) /\ Plain(z)
    <3>1. a.tree.node \in ExprNode \union StmtNode /\ y.of # "function"
      BY <2>2, <2>3
    <3>2. Plain(z)
      BY ONLY <1>6, <2>3, PlainBlockIs
    <3>3. Plain(y) /\ ~InBlock(y)
      BY ONLY <2>3, <3>1, PlainCatch
    <3>4. Plain(a)
      BY ONLY <2>2, <3>1, PlainGen
    <3> QED
      BY <3>2, <3>3, <3>4
  <2>6. todo' = Cons(a, Cons(y, Cons(z, rest)))
    <3>1. IsSeq(rest)
      BY <1>2
    <3> QED
      BY ONLY <2>4, <3>1, Tuple3
  <2> SUFFICES ASSUME errors = 0
               PROVE  WiredInv'
    BY <1>1 DEF WiredInv, Steady
  <2>7. InFunction(blocks, ip, todo, frames, generated)
    BY <1>2, Inward DEF Plain
  <2>8. Fits(blocks, blocks[ip].fn, Instr, Entries(rest)) /\ InFunction(blocks, ip, rest, frames, generated)
    BY <1>2, <2>7, PopFits, PopPlain DEF Instr, rest
  <2>9. BlockIn(Entries(rest))
    BY <1>2, <2>8 DEF Fits, InBlock
  <2>10. InFunction(blocks, ip, Cons(z, rest), frames, generated) /\ BlockIn(Entries(Cons(z, rest)))
    BY ONLY <2>5, <2>8, <2>9, InPush
  <2>11. InFunction(blocks, ip, Cons(y, Cons(z, rest)), frames, generated)
            /\ BlockIn(Entries(Cons(y, Cons(z, rest))))
    BY ONLY <2>5, <2>10, InPush
  <2>12. InFunction(blocks, ip, todo', frames, generated)
    BY ONLY <2>5, <2>6, <2>11, InPush
  <2> QED
    BY <1>1, <1>2, <2>12, GoesOn DEF Steady
<1> QED
  BY <1>4, <1>5

-----------------------------------------------------------------------------
(* Steps that add an instruction which is not a terminator.                *)
LEMMA AddsInside ==
  ASSUME NEW bs, NEW p, NEW s, NEW fr, NEW gen, InFunction(bs, p, s, fr, gen),
         NEW b, b = p \/ b \in OwedBy(Entries(s)), NEW x, ~IsTerminator(x),
         NEW c, c = With(bs, b, x)
  PROVE  InFunction(c, p, s, fr, gen) /\ Len(c) = Len(bs) /\ c[p].fn = bs[p].fn
<1> DEFINE R == Entries(s)
           open == OwedBy(R) \union {p}
           due == DueBy(R)
           n == Cardinality(gen) - 1
           l == <<x>>
<1>1. /\ Sound(bs, bs[p].fn, s) /\ Inside(R) /\ p \notin OwedBy(R)
      /\ Framed(R, fr) /\ IsFiniteSet(gen) /\ Graph(bs, open, due, n)
  BY DEF InFunction
<1>2. b \in open /\ p \in open
  OBVIOUS
<1>3. \A k \in 1..Len(l) : ~IsTerminator(l[k])
  <2>1. Len(l) = 1 /\ l[1] = x
    BY OneIs
  <2> HIDE DEF l
  <2> QED
    BY <2>1
<1> HIDE DEF open, due, n
<1>4. Shape(bs) /\ b \in 1..Len(bs) /\ p \in 1..Len(bs)
  BY <1>1, <1>2 DEF Graph, Joined
<1>5. Adds(bs, c, b, l)
  BY <1>4, WithAdds
<1> HIDE DEF l
<1>6. Graph(c, open, due, n)
  BY <1>1, <1>2, <1>3, <1>5, AddsPlain
<1>7. Grows(bs, c) /\ Len(c) = Len(bs) /\ c[p].fn = bs[p].fn
  <2>1. Grows(bs, c)
    BY <1>5, AddsGrows
  <2> QED
    BY <1>4, <1>5, <2>1 DEF Adds
<1>8. Sound(c, bs[p].fn, s)
  BY <1>1, <1>7, SoundGrow
<1> QED
  BY <1>1, <1>6, <1>7, <1>8 DEF InFunction, R, open, due, n

LEMMA AllocatesInside ==
  ASSUME NEW bs, NEW p, NEW s, NEW fr, NEW gen, InFunction(bs, p, s, fr, gen),
         NEW b, b = p \/ b \in OwedBy(Entries(s)), NEW v, NEW x,
         NEW c, c = Allocated(bs, b, v, x)
  PROVE  InFunction(c, p, s, fr, gen) /\ Len(c) = Len(bs) /\ c[p].fn = bs[p].fn
<1> DEFINE i == Alloca(v, x)
           j == Poison(v)
           d == With(bs, b, i)
<1>1. ~IsTerminator(i) /\ ~IsTerminator(j)
  BY DEF Alloca, Poison, IsTerminator, Terminators
<1>2. d = With(bs, b, i) /\ c = With(d, b, j)
  BY DEF Allocated
<1> HIDE DEF i, j, d
<1>3. InFunction(d, p, s, fr, gen) /\ Len(d) = Len(bs) /\ d[p].fn = bs[p].fn
  BY <1>1, <1>2, AddsInside
<1>4. InFunction(c, p, s, fr, gen) /\ Len(c) = Len(d) /\ c[p].fn = d[p].fn
  BY <1>1, <1>2, <1>3, AddsInside
<1> QED
  BY <1>3, <1>4

LEMMA Writes ==
  ASSUME WiredInv, Runs, todo # <<>>, IsSeq(Tail(todo)), Plain(Instr), SameScope,
         UNCHANGED <<ip, generated, errors>>, Go(<<>>),
         NEW x, ~IsTerminator(x), blocks' = With(blocks, ip, x)
  PROVE  WiredInv'
<1> SUFFICES ASSUME errors = 0
             PROVE  WiredInv'
  BY DEF WiredInv
<1>1. state = Len(frames) /\ InFunction(blocks, ip, todo, frames, generated)
  BY Inward DEF Plain
<1>2. InFunction(blocks, ip, Tail(todo), frames, generated)
  BY <1>1, PopPlain DEF Instr
<1>3. todo' = Tail(todo)
  BY GoNone
<1> DEFINE c == blocks'
<1>4. c = With(blocks, ip, x)
  OBVIOUS
<1> HIDE DEF c
<1>5. InFunction(c, ip, Tail(todo), frames, generated)
  BY <1>2, <1>4, AddsInside
<1>6. InFunction(blocks', ip', todo', frames', generated') /\ state' = Len(frames')
  BY <1>1, <1>3, <1>5 DEF SameScope, c
<1> QED
  BY <1>6, StaysInside

LEMMA GenVarRefWires ==
  ASSUME IInv, WiredInv, GenVarRef
  PROVE  WiredInv'
<1>1. Generating("VarRef")
  BY DEF GenVarRef
<1>2. CASE Throw
  BY <1>2, ThrowWires
<1>3. CASE ~Throw
  <2> DEFINE x == Load(Named[T.name])
  <2>1. /\ blocks' = With(blocks, ip, x) /\ Go(<<>>) /\ SameScope
        /\ UNCHANGED <<ip, generated, errors>>
    BY <1>3 DEF GenVarRef, SameRest, SameNames
  <2>2. ~IsTerminator(x)
    BY DEF Load, IsTerminator, Terminators
  <2>3. "VarRef" \in ExprNode \union StmtNode
    BY DEF ExprNode
  <2> HIDE DEF x
  <2> QED
    BY <1>1, <2>1, <2>2, <2>3, GeneratingIs, Writes
<1> QED
  BY <1>2, <1>3

LEMMA CreateOperatorWires ==
  ASSUME IInv, WiredInv, CreateOperator
  PROVE  WiredInv'
<1> DEFINE x == Operation(Operands(Instr.n))
<1>1. Doing("operator") /\ "operator" \in PlainDos
  BY DEF CreateOperator, PlainDos
<1>2. ~IsTerminator(x)
  BY DEF Operation, IsTerminator, Terminators
<1>3. CASE Crash("non-null assertion")
  BY <1>3, CrashWires
<1>4. CASE ~Crash("non-null assertion")
  <2>1. /\ blocks' = blocks \/ blocks' = With(blocks, ip, x)
        /\ Go(<<>>) /\ SameScope /\ SameRest /\ UNCHANGED <<ip, n_allocas>>
    BY <1>4 DEF CreateOperator
  <2>2. CASE blocks' = blocks
    <3>1. Steady
      BY <2>1, <2>2, SteadyRest
    <3> QED
      BY <1>1, <2>1, <3>1, DoingPlain, GoesNone
  <2>3. CASE blocks' = With(blocks, ip, x)
    <3> HIDE DEF x
    <3> QED
      BY <1>1, <1>2, <2>1, <2>3, DoingPlain, Writes DEF SameRest, SameNames
  <2> QED
    BY <2>1, <2>2, <2>3
<1> QED
  BY <1>3, <1>4

LEMMA CreateCallWires ==
  ASSUME IInv, WiredInv, CreateCall
  PROVE  WiredInv'
<1>1. Doing("call") /\ "call" \in PlainDos
  BY DEF CreateCall, PlainDos
<1>2. ~IsTerminator(NullOperand) /\ ~IsTerminator(CallTo(Instr.name, Operands(Instr.n)))
  BY DEF NullOperand, CallTo, IsTerminator, Terminators
<1>3. ASSUME NEW x, ~IsTerminator(x), blocks' = With(blocks, ip, x), Go(<<>>),
             SameScope, SameRest, UNCHANGED <<ip, n_allocas>>
      PROVE  WiredInv'
  BY <1>1, <1>3, DoingPlain, Writes DEF SameRest, SameNames
<1>4. CASE Crash("null operand")
  BY <1>4, CrashWires
<1> QED
  BY <1>2, <1>3, <1>4 DEF CreateCall

LEMMA AssignWires ==
  ASSUME IInv, WiredInv, Assign
  PROVE  WiredInv'
<1>1. Doing("assign") /\ "assign" \in PlainDos
  BY DEF Assign, PlainDos
<1>2. CASE Throw
  BY <1>2, ThrowWires
<1>3. CASE Crash("null operand")
  BY <1>3, CrashWires
<1>4. CASE ~Throw /\ ~Crash("null operand")
  <2> DEFINE x == Store(Named[Instr.key.name], Top)
  <2>1. /\ blocks' = With(blocks, ip, x) /\ Go(<<>>) /\ SameScope
        /\ UNCHANGED <<ip, generated, errors>>
    BY <1>4 DEF Assign, SameRest, SameNames
  <2>2. ~IsTerminator(x)
    BY DEF Store, IsTerminator, Terminators
  <2> HIDE DEF x
  <2> QED
    BY <1>1, <2>1, <2>2, DoingPlain, Writes
<1> QED
  BY <1>2, <1>3, <1>4

(* The first basic block of a function is not ended before the function.   *)
LEMMA DeclsOwed ==
  ASSUME NEW bs, NEW p, NEW s, NEW fr, NEW gen, InFunction(bs, p, s, fr, gen), Len(fr) \in Nat
  PROVE  fr[Len(fr)].declarations_block \in OwedBy(Entries(s))
<1>1. Inside(Entries(s)) /\ Framed(Entries(s), fr)
  BY DEF InFunction
<1>2. PICK x \in Entries(s) : x.do = "end function"
  BY <1>1 DEF Inside
<1>3. Len(fr) \in 3..Len(fr)
  <2>1. Len(fr) >= 3
    BY <1>1 DEF Framed
  <2> QED
    BY ONLY <2>1, Len(fr) \in Nat
<1>4. fr[Len(fr)].declarations_block = x.decls
  BY <1>1, <1>2, <1>3 DEF Framed
<1>5. Owed(x) = {x.decls}
  BY <1>2 DEF Owed
<1> QED
  BY <1>4, <1>5 DEF OwedBy

LEMMA GenDeclAssignmentWires ==
  ASSUME IInv, WiredInv, GenDeclAssignment
  PROVE  WiredInv'
<1> DEFINE v == n_allocas + 1
           x == [do |-> "declare", name |-> T.name, var |-> v, has_value |-> T.kids # <<>>]
           rest == Tail(todo)
           name == T.name
           c == Allocated(blocks, DeclarationsBlock, v, name)
<1>1. /\ Generating("Let") /\ blocks' = c
      /\ todo' = ((IF T.kids = <<>> THEN <<>> ELSE <<Gen(Kid(1))>>) \o <<x>>) \o rest
      /\ SameScope /\ UNCHANGED <<ip, generated, errors>>
  BY DEF GenDeclAssignment, Go, SameRest, SameNames
<1>2. /\ Runs /\ todo # <<>> /\ IsSeq(rest) /\ Plain(Instr) /\ T \in Trees /\ T.node = "Let"
  BY <1>1, GeneratingIs DEF StmtNode
<1>3. Plain(x) /\ x.do = "declare"
  <2>1. "declare" \in PlainBlockDos /\ x.do = "declare"
    BY DEF PlainBlockDos
  <2> HIDE DEF x
  <2> QED
    BY ONLY <2>1, PlainBlockIs
<1>4. InBlock(Instr)
  BY <1>1, <1>2 DEF InBlock, Generating, Doing, T, StmtNode
<1> SUFFICES ASSUME errors = 0
             PROVE  WiredInv'
  BY <1>1 DEF WiredInv
<1>6. state = Len(frames) /\ InFunction(blocks, ip, todo, frames, generated)
  BY <1>2, Inward DEF Plain
<1>7. InFunction(blocks, ip, rest, frames, generated) /\ BlockIn(Entries(rest))
  BY <1>2, <1>4, <1>6, PopFits, PopPlain DEF Instr, Fits
<1>8. DeclarationsBlock \in OwedBy(Entries(rest))
  BY <1>6, <1>7, Facts, DeclsOwed DEF DeclarationsBlock
<1> HIDE DEF x, v, rest, name
<1>9. InFunction(c, ip, rest, frames, generated)
  <2> HIDE DEF c
  <2>1. c = Allocated(blocks, DeclarationsBlock, v, name)
    BY DEF c
  <2> QED
    BY ONLY <1>7, <1>8, <2>1, AllocatesInside
<1> HIDE DEF c
<1>10. InFunction(c, ip, Cons(x, rest), frames, generated) /\ IsSeq(Cons(x, rest))
  BY <1>3, <1>7, <1>9, InPush
<1>11. IsSeq(rest) /\ IsSeq(<<x>>) /\ <<x>> \o rest = Cons(x, rest)
  <2>1. IsSeq(rest)
    BY <1>2
  <2> QED
    BY ONLY <2>1, Tuple1
<1>12. InFunction(c, ip, todo', frames, generated)
  <2>1. CASE T.kids = <<>>
    <3>1. todo' = (<<>> \o <<x>>) \o rest
      BY <1>1, <2>1
    <3>2. <<>> \o <<x>> = <<x>>
      BY ONLY <1>11, NoneIs
    <3>3. todo' = Cons(x, rest)
      BY ONLY <1>11, <3>1, <3>2
    <3> QED
      BY <1>10, <3>3
  <2>2. CASE T.kids # <<>>
    <3> DEFINE e == Kid(1)
               y == Gen(e)
    <3>1. e \in Exprs
      <4> DEFINE s == T.kids
                 E == Exprs
      <4>1. T.node # "Block"
        BY <1>2
      <4>2. s \in Seq(E)
        BY <1>2, <4>1, KidsAre
      <4>3. s # <<>>
        BY <2>2
      <4> HIDE DEF s, E
      <4>4. s[1] \in E
        <5>1. Head(s) \in E /\ Head(s) = s[1]
          BY <4>2, <4>3, PartsOf
        <5> QED
          BY <5>1
      <4> QED
        BY <4>4 DEF s, E, Kid
    <3>2. todo' = (<<y>> \o <<x>>) \o rest
      BY <1>1, <2>2
    <3>3. Plain(y) /\ ~InBlock(y)
      BY <3>1, GenExpr
    <3> HIDE DEF y
    <3>4. todo' = Cons(y, Cons(x, rest))
      <4>1. IsSeq(<<y>>) /\ IsSeq(<<x>> \o rest)
        BY ONLY <1>11, Tuple1, JoinIs
      <4>2. (<<y>> \o <<x>>) \o rest = <<y>> \o (<<x>> \o rest)
        BY ONLY <1>11, <4>1, JoinsIs
      <4>3. IsSeq(Cons(x, rest))
        BY <1>11, <4>1
      <4>4. <<y>> \o Cons(x, rest) = Cons(y, Cons(x, rest))
        BY ONLY <4>3, Tuple1
      <4> QED
        BY ONLY <1>11, <3>2, <4>2, <4>4
    <3> QED
      BY ONLY <1>10, <3>3, <3>4, InPush
  <2> QED
    BY <2>1, <2>2
<1>13. InFunction(blocks', ip', todo', frames', generated') /\ state' = Len(frames')
  BY <1>1, <1>6, <1>12 DEF SameScope
<1> QED
  BY <1>13, StaysInside

(* A declaration leaves the first basic block of the function as it is.    *)
LEMMA DeclaredDecls ==
  ASSUME NEW v \in Nat, NEW fr, Scoped(v, fr), Len(fr) # 0, NEW x \in Name, NEW a \in 1..v
  PROVE  \A j \in 1..Len(fr) :
           Declared(fr, x, a)[j].declarations_block = fr[j].declarations_block
<1> DEFINE n == Len(fr)
           S == Scope(v)
           r == fr[n]
           own2 == Append(r.own, [name |-> x, var |-> a])
           named2 == [r.named EXCEPT ![x] = a]
           r2 == [[r EXCEPT !.named = named2] EXCEPT !.own = own2]
           fr2 == Declared(fr, x, a)
<1>1. fr \in Seq(S)
  BY DEF Scoped
<1>2. n \in Nat /\ n \in 1..n /\ fr \in [1..n -> S] /\ r \in S
  <2> HIDE DEF S
  <2>1. Len(fr) \in Nat /\ fr \in [1..Len(fr) -> S]
    BY <1>1, LenProperties
  <2>2. Len(fr) \in 1..Len(fr)
    BY <2>1
  <2> QED
    BY <2>1, <2>2
<1>3. r = [named |-> r.named, declarations_block |-> r.declarations_block, own |-> r.own]
  BY <1>2 DEF Scope
<1>4. fr2 = [fr EXCEPT ![n] = r2]
  BY <1>2, <1>3 DEF Declared
<1>5. r2.declarations_block = r.declarations_block
  <2> DEFINE r1 == [r EXCEPT !.named = named2]
  <2> HIDE DEF own2, named2, r
  <2>1. PICK p, d, w : r = [named |-> p, declarations_block |-> d, own |-> w]
    BY <1>3
  <2>2. r1 = [named |-> named2, declarations_block |-> d, own |-> w]
    BY ONLY <2>1
  <2>3. r2 = [r1 EXCEPT !.own = own2]
    OBVIOUS
  <2> HIDE DEF r1, r2
  <2>4. r2 = [named |-> named2, declarations_block |-> d, own |-> own2]
    BY ONLY <2>2, <2>3
  <2>5. d = r.declarations_block
    BY ONLY <2>1
  <2> QED
    BY ONLY <2>4, <2>5
<1> HIDE DEF r2
<1>6. \A j \in 1..n : fr2[j] = IF j = n THEN r2 ELSE fr[j]
  BY <1>2, <1>4
<1> QED
  BY <1>5, <1>6

LEMMA FramedSame ==
  ASSUME NEW R, NEW fr, NEW fr2, Framed(R, fr), Len(fr) \in Nat, Len(fr2) = Len(fr),
         \A j \in 1..Len(fr) : fr2[j].declarations_block = fr[j].declarations_block
  PROVE  Framed(R, fr2)
<1>1. \A j \in 3..Len(fr) : j \in 1..Len(fr)
  OBVIOUS
<1> QED
  BY <1>1 DEF Framed

(* The innermost block that is left next.                                  *)
LEMMA Innermost ==
  ASSUME NEW s, IsSeq(s), BlockIn(Entries(s))
  PROVE  LET k == Min({j \in 1..Len(s) : s[j].do = "leave block"})
         IN  k \in 1..Len(s) /\ s[k].do = "leave block" /\ s[k] \in Entries(s)
<1> DEFINE K == {j \in 1..Len(s) : s[j].do = "leave block"}
<1>1. PICK x \in Entries(s) : x.do = "leave block"
  BY DEF BlockIn
<1>2. PICK j \in 1..Len(s) : x = s[j]
  BY <1>1 DEF Entries
<1>4. \A k \in K : k \in 1..Len(s) /\ s[k].do = "leave block" /\ s[k] \in Entries(s)
  BY DEF Entries
<1>6. j \in K
  BY <1>1, <1>2
<1>7. Len(s) \in Nat
  BY ListIs
<1>3. K \in SUBSET Int /\ K # {} /\ 1 \in Int /\ \A k \in K : 1 <= k
  <2> HIDE DEF K
  <2>1. \A k \in 1..Len(s) : k \in Int /\ 1 <= k
    BY <1>7
  <2> QED
    <3>1. \A k \in K : k \in Int /\ 1 <= k
      BY <1>4, <2>1
    <3> QED
      BY ONLY <1>6, <3>1
<1> HIDE DEF K
<1>5. Min(K) \in K
  BY <1>3, LeastOf
<1> QED
  BY <1>4, <1>5 DEF K

LEMMA DeclareWires ==
  ASSUME IInv, WiredInv, Declare
  PROVE  WiredInv'
<1> DEFINE x == Instr.name
           a == Instr.var
           rest == Tail(todo)
           p == IF Instr.has_value THEN 1 ELSE 0
           begin == Min({k \in 1..Len(todo) : todo[k].do = "leave block"})
           stored == IF Instr.has_value THEN With(blocks, ip, Store(a, Top)) ELSE blocks
<1>1. Doing("declare")
  BY DEF Declare
<1>2. /\ Runs /\ Instr.do = "declare" /\ IsSeq(rest) /\ todo # <<>>
      /\ Refers(Len(blocks), n_allocas, Instr)
  BY <1>1, Running
<1>3. CASE Crash("null operand")
  BY <1>3, CrashWires
<1>4. CASE ~Crash("null operand")
  <2>1. /\ blocks' = With(stored, todo[begin].begin, LifetimeStart(a))
        /\ frames' = [frames EXCEPT ![state].named[x] = a,
                                    ![Len(frames)].own = Append(@, [name |-> x, var |-> a])]
        /\ Go(<<>>) /\ UNCHANGED <<state, ip, generated, errors>>
    BY <1>4 DEF Declare, SameRest, SameNames
  <2> SUFFICES ASSUME errors = 0
               PROVE  WiredInv'
    BY <2>1 DEF WiredInv
  <2>2. Plain(Instr) /\ InBlock(Instr)
    <3> DEFINE y == Instr
    <3>1. "declare" \in PlainBlockDos /\ y.do = "declare"
      BY <1>2 DEF PlainBlockDos
    <3> HIDE DEF y
    <3>2. Plain(y) /\ InBlock(y)
      BY <3>1, PlainBlockIs DEF InBlock
    <3> QED
      BY <3>2 DEF y
  <2>3. state = Len(frames) /\ InFunction(blocks, ip, todo, frames, generated)
    BY <1>2, <2>2, Inward DEF Plain
  <2>4. /\ InFunction(blocks, ip, rest, frames, generated) /\ BlockIn(Entries(rest))
        /\ Entries(todo) = {Instr} \union Entries(rest)
        /\ OwedBy(Entries(todo)) = Owed(Instr) \union OwedBy(Entries(rest))
    <3> DEFINE y == Instr
    <3>5. InFunction(blocks, ip, todo, frames, generated) /\ todo # <<>>
      BY <1>2, <2>3
    <3>1. /\ Fits(blocks, blocks[ip].fn, y, Entries(rest))
          /\ Entries(todo) = {y} \union Entries(rest)
          /\ OwedBy(Entries(todo)) = Owed(y) \union OwedBy(Entries(rest))
          /\ Plain(y) => InFunction(blocks, ip, rest, frames, generated)
      <4>1. Fits(blocks, blocks[ip].fn, Head(todo), Entries(Tail(todo)))
        BY ONLY <3>5, PopFits
      <4>2. Entries(todo) = {Head(todo)} \union Entries(Tail(todo))
        BY ONLY <3>5, PopOwes
      <4>3. OwedBy(Entries(todo)) = Owed(Head(todo)) \union OwedBy(Entries(Tail(todo)))
        BY ONLY <3>5, PopOwes
      <4>4. Plain(Head(todo)) => InFunction(blocks, ip, Tail(todo), frames, generated)
        BY ONLY <3>5, PopPlain
      <4> QED
        BY ONLY <4>1, <4>2, <4>3, <4>4 DEF Instr
    <3>2. Plain(y) /\ InBlock(y)
      BY <2>2
    <3> HIDE DEF y, rest
    <3>3. BlockIn(Entries(rest))
      BY <3>1, <3>2 DEF Fits
    <3>4. /\ InFunction(blocks, ip, rest, frames, generated) /\ BlockIn(Entries(rest))
          /\ Entries(todo) = {y} \union Entries(rest)
          /\ OwedBy(Entries(todo)) = Owed(y) \union OwedBy(Entries(rest))
      BY <3>1, <3>2, <3>3
    <3> QED
      BY <3>4 DEF y, rest
  <2>5. OwedBy(Entries(todo)) = OwedBy(Entries(rest))
    BY <2>2, <2>4 DEF Plain
  <2>6. todo[begin].begin \in OwedBy(Entries(rest))
    <3>1. IsSeq(todo) /\ BlockIn(Entries(todo))
      BY <2>3, <2>4 DEF InFunction, Sound, BlockIn
    <3>2. todo[begin].do = "leave block" /\ todo[begin] \in Entries(todo)
      BY <3>1, Innermost
    <3> DEFINE y == todo[begin]
    <3>3. y.do = "leave block" /\ y \in Entries(todo)
      BY <3>2
    <3> HIDE DEF y
    <3>4. y.begin \in Owed(y)
      BY <3>3 DEF Owed
    <3>5. y.begin \in OwedBy(Entries(todo))
      BY <3>3, <3>4 DEF OwedBy
    <3> QED
      BY <2>5, <3>5 DEF y
  <2>7. ~IsTerminator(Store(a, Top)) /\ ~IsTerminator(LifetimeStart(a))
    BY DEF Store, LifetimeStart, IsTerminator, Terminators
  <2>8. Len(frames') = Len(frames) /\ Framed(Entries(rest), frames')
    <3>1. x \in Name /\ a \in 1..n_allocas
      BY <1>2 DEF Refers
    <3>2. n_allocas \in Nat /\ Scoped(n_allocas, frames) /\ Len(frames) # 0 /\ Len(frames) \in Nat
      BY Facts
    <3>3. frames' = Declared(frames, x, a)
      BY <2>1, <2>3 DEF Declared
    <3>4. Framed(Entries(rest), frames)
      BY <2>4 DEF InFunction
    <3> HIDE DEF x, a, rest
    <3>5. Len(frames') = Len(frames)
      BY ONLY <3>1, <3>2, <3>3, ScopedDeclare
    <3>6. \A j \in 1..Len(frames) : frames'[j].declarations_block = frames[j].declarations_block
      BY ONLY <3>1, <3>2, <3>3, DeclaredDecls
    <3> DEFINE fr == frames'
               R == Entries(rest)
    <3>7. Len(fr) = Len(frames) /\ Framed(R, frames) /\ Len(frames) \in Nat
            /\ \A j \in 1..Len(frames) : fr[j].declarations_block = frames[j].declarations_block
      BY <3>2, <3>4, <3>5, <3>6
    <3> HIDE DEF fr, R
    <3>8. Framed(R, fr)
      BY ONLY <3>7, FramedSame
    <3> QED
      BY <3>5, <3>8 DEF fr, R
  <2>9. todo' = rest
    BY <1>2, <2>1, GoNone
  <2> DEFINE c == blocks'
             q == todo[begin].begin
             u == LifetimeStart(a)
  <2>10. c = With(stored, q, u) /\ q \in OwedBy(Entries(rest)) /\ ~IsTerminator(u)
    BY <2>1, <2>6, <2>7
  <2>11. InFunction(stored, ip, rest, frames, generated)
    <3>1. CASE Instr.has_value
      BY <2>4, <2>7, <3>1, AddsInside
    <3>2. CASE ~Instr.has_value
      BY <2>4, <3>2
    <3> QED
      BY <3>1, <3>2
  <2> HIDE DEF c, q, u, stored, rest, begin
  <2>12. InFunction(c, ip, rest, frames, generated)
    BY ONLY <2>10, <2>11, AddsInside
  <2>13. InFunction(c, ip, rest, frames', generated)
    BY <2>8, <2>12 DEF InFunction
  <2>14. InFunction(blocks', ip', todo', frames', generated') /\ state' = Len(frames')
    BY <2>1, <2>3, <2>8, <2>9, <2>13 DEF c
  <2> QED
    BY <2>14, StaysInside
<1> QED
  BY <1>3, <1>4

-----------------------------------------------------------------------------
(* A return leaves its basic block open for what follows it.               *)
LEMMA RetInside ==
  ASSUME NEW bs, NEW p, NEW s, NEW fr, NEW gen, InFunction(bs, p, s, fr, gen),
         NEW x, x.op = "ret" \/ x.op = "ret void", x.to = <<>>,
         NEW c, c = With(bs, p, x)
  PROVE  InFunction(c, p, s, fr, gen)
<1> DEFINE R == Entries(s)
           open == OwedBy(R) \union {p}
           due == DueBy(R)
           n == Cardinality(gen) - 1
<1>1. /\ Sound(bs, bs[p].fn, s) /\ Inside(R) /\ p \notin OwedBy(R)
      /\ Framed(R, fr) /\ IsFiniteSet(gen) /\ Graph(bs, open, due, n)
  BY DEF InFunction
<1>2. p \in open
  OBVIOUS
<1> HIDE DEF open, due, n
<1>3. Shape(bs) /\ p \in 1..Len(bs)
  BY <1>1, <1>2 DEF Graph, Joined
<1>4. AddsOne(bs, c, p, x)
  BY <1>3, WithAdds DEF AddsOne
<1>5. Graph(c, open, due, n)
  BY <1>1, <1>2, <1>4, AddsRet
<1>6. Grows(bs, c) /\ c[p].fn = bs[p].fn
  BY <1>3, <1>4, AddsGrows DEF Adds, AddsOne
<1>7. Sound(c, bs[p].fn, s)
  BY <1>1, <1>6, SoundGrow
<1> QED
  BY <1>1, <1>5, <1>6, <1>7 DEF InFunction, R, open, due, n

LEMMA CreateRetWires ==
  ASSUME IInv, WiredInv, CreateRet
  PROVE  WiredInv'
<1> DEFINE x == Ret(Top)
           c == blocks'
           rest == Tail(todo)
<1>1. /\ Doing("ret") /\ "ret" \in PlainDos /\ c = With(blocks, ip, x) /\ Go(<<>>)
      /\ SameScope /\ UNCHANGED <<ip, generated, errors>>
  BY DEF CreateRet, PlainDos, SameRest, SameNames
<1>2. Runs /\ todo # <<>> /\ IsSeq(rest) /\ Plain(Instr)
  BY <1>1, DoingPlain
<1>3. (x.op = "ret" \/ x.op = "ret void") /\ x.to = <<>>
  BY DEF Ret
<1>4. todo' = rest
  BY <1>1, <1>2, GoNone
<1> SUFFICES ASSUME errors = 0
             PROVE  WiredInv'
  BY <1>1 DEF WiredInv
<1>5. state = Len(frames) /\ InFunction(blocks, ip, todo, frames, generated)
  BY <1>2, Inward DEF Plain
<1>6. InFunction(blocks, ip, rest, frames, generated)
  BY <1>2, <1>5, PopPlain DEF Instr
<1> HIDE DEF x, c, rest
<1>7. InFunction(c, ip, rest, frames, generated)
  BY ONLY <1>1, <1>3, <1>6, RetInside
<1>8. InFunction(blocks', ip', todo', frames', generated') /\ state' = Len(frames')
  BY <1>1, <1>4, <1>5, <1>7 DEF SameScope, c
<1> QED
  BY <1>8, StaysInside

(* The basic block that code is generated in is ended by a branch, and the *)
(* one that the instruction owes is inserted and goes on.                  *)
LEMMA JumpsTo ==
  ASSUME NEW bs, NEW p, NEW s, NEW fr, NEW gen, InFunction(bs, p, s, fr, gen), s # <<>>,
         NEW q, Owed(Head(s)) = {q}, Due(Head(s)) = {q},
         Head(s).do # "end function", Head(s).do # "leave block",
         NEW j, IsTerminator(j), j.op # "ret",
         \A t \in ToSet(j.to) : t = q \/ t \in Aims(Head(s)),
         NEW c, c = Inserted(With(bs, p, j), q)
  PROVE  InFunction(c, q, Tail(s), fr, gen)
<1> DEFINE x == Head(s)
           r == Tail(s)
           R == Entries(r)
           open == OwedBy(Entries(s)) \union {p}
           due == DueBy(Entries(s))
           n == Cardinality(gen) - 1
           f == bs[p].fn
           d == With(bs, p, j)
<1>1. /\ Inside(Entries(s)) /\ p \notin OwedBy(Entries(s))
      /\ Framed(Entries(s), fr) /\ IsFiniteSet(gen) /\ Graph(bs, open, due, n)
  BY DEF InFunction
<1>2. /\ IsSeq(r) /\ Sound(bs, f, r) /\ Fits(bs, f, x, R)
      /\ x.do # "end function" => Inside(R)
      /\ Entries(s) = {x} \union R
      /\ OwedBy(Entries(s)) = Owed(x) \union OwedBy(R)
      /\ DueBy(Entries(s)) = Due(x) \union DueBy(R)
  <2>1. IsSeq(r) /\ Sound(bs, f, r) /\ Fits(bs, f, x, R) /\ (x.do # "end function" => Inside(R))
    BY ONLY InFunction(bs, p, s, fr, gen), s # <<>>, PopFits
  <2>2. /\ Entries(s) = {x} \union R
        /\ OwedBy(Entries(s)) = Owed(x) \union OwedBy(R)
        /\ DueBy(Entries(s)) = Due(x) \union DueBy(R)
    BY ONLY InFunction(bs, p, s, fr, gen), s # <<>>, PopOwes
  <2> HIDE DEF x, r, R, f
  <2> QED
    BY ONLY <2>1, <2>2
<1>3. /\ Inside(R) /\ OwedBy(Entries(s)) = {q} \union OwedBy(R)
      /\ DueBy(Entries(s)) = {q} \union DueBy(R) /\ q \in Owed(x)
  BY <1>2
<1>4. Framed(R, fr)
  BY <1>1, <1>2 DEF Framed
<1>5. /\ \A b \in Owed(x) \union Aims(x) : b \in 1..Len(bs) /\ bs[b].fn = f
      /\ \A b \in Owed(x) : b \notin OwedBy(R)
      /\ \A b \in Aims(x) : bs[b].inserted \/ b \in DueBy(R)
  BY <1>2 DEF Fits
<1>6. p \in open /\ p # q /\ q \in open /\ q \in due /\ DueBy(R) \subseteq due
        /\ open \ {p} = OwedBy(R) \union {q} /\ q \notin OwedBy(R) /\ due \ {q} \subseteq DueBy(R)
  BY <1>1, <1>3, <1>5
<1>7. \A t \in ToSet(j.to) : /\ t \in 1..Len(bs) /\ bs[t].fn = bs[p].fn
                             /\ bs[t].inserted \/ t \in due
  BY <1>3, <1>5, <1>6
<1>8. c = Inserted(d, q)
  OBVIOUS
<1> HIDE DEF open, due, n, x, r, R, d
<1>9. Shape(bs) /\ p \in 1..Len(bs) /\ q \in 1..Len(bs)
  BY <1>1, <1>6 DEF Graph, Joined
<1>10. AddsOne(bs, d, p, j)
  BY <1>9, WithAdds DEF AddsOne, d
<1>11. Graph(d, open \ {p}, due, n)
  BY <1>1, <1>6, <1>7, <1>10, AddsJump
<1>12. Grows(bs, d)
  BY <1>10, AddsGrows DEF AddsOne
<1>13. Graph(c, open \ {p}, due \ {q}, n) /\ Grows(d, c)
  <2>1. q \in open \ {p}
    BY <1>6
  <2> QED
    BY ONLY <1>8, <1>11, <2>1, Inserts
<1>14. Graph(c, OwedBy(R) \union {q}, DueBy(R), n)
  BY <1>6, <1>13, MoreDue
<1>15. Sound(c, f, r)
  BY <1>2, <1>12, <1>13, SoundGrow
<1>16. c[q].fn = f
  <2>1. bs[q].fn = f
    BY <1>3, <1>5
  <2>2. d[q].fn = bs[q].fn
    BY <1>9, <1>12 DEF Grows
  <2>3. q \in 1..Len(d)
    BY <1>9, <1>10 DEF AddsOne, Adds
  <2>4. c[q].fn = d[q].fn
    BY <1>13, <2>3 DEF Grows
  <2> QED
    BY <2>1, <2>2, <2>4
<1> QED
  BY <1>1, <1>3, <1>4, <1>6, <1>14, <1>15, <1>16 DEF InFunction, R, r, n

LEMMA OneTarget ==
  ASSUME NEW a
  PROVE  /\ IsTerminator(Br(a)) /\ Br(a).op # "ret"
         /\ \A t \in ToSet(Br(a).to) : t = a
<1>1. Br(a).op = "br" /\ Br(a).to = <<a>>
  BY DEF Br
<1>2. \A t \in ToSet(<<a>>) : t = a
  BY DEF ToSet
<1> QED
  BY <1>1, <1>2 DEF IsTerminator, Terminators

LEMMA TwoTargets ==
  ASSUME NEW x, NEW a, NEW b
  PROVE  /\ IsTerminator(CondBr(x, a, b)) /\ CondBr(x, a, b).op # "ret"
         /\ \A t \in ToSet(CondBr(x, a, b).to) : t = a \/ t = b
<1>1. CondBr(x, a, b).op = "condbr" /\ CondBr(x, a, b).to = <<a, b>>
  BY DEF CondBr
<1>2. \A t \in ToSet(<<a, b>>) : t = a \/ t = b
  BY DEF ToSet
<1> QED
  BY <1>1, <1>2 DEF IsTerminator, Terminators

LEMMA IfFalseOwes ==
  ASSUME NEW x, x.do = "if false"
  PROVE  /\ Owed(x) = {x.no} /\ Due(x) = {x.no} /\ Aims(x) = {x.post}
         /\ ~AtTop(x) /\ ~InBlock(x) /\ x.do # "end function" /\ x.do # "leave block"
BY DEF Owed, Due, Aims, AtTop, InBlock

LEMMA PostIfOwes ==
  ASSUME NEW x, x.do = "post if"
  PROVE  /\ Owed(x) = {x.post} /\ Due(x) = {x.post} /\ Aims(x) = {}
         /\ ~AtTop(x) /\ ~InBlock(x) /\ x.do # "end function" /\ x.do # "leave block"
BY DEF Owed, Due, Aims, AtTop, InBlock

LEMMA LoopBodyOwes ==
  ASSUME NEW x, x.do = "loop body"
  PROVE  /\ Owed(x) = {x.body} /\ Due(x) = {x.body} /\ Aims(x) = {x.post}
         /\ ~AtTop(x) /\ ~InBlock(x) /\ x.do # "end function" /\ x.do # "leave block"
BY DEF Owed, Due, Aims, AtTop, InBlock

LEMMA PostWhileOwes ==
  ASSUME NEW x, x.do = "post while"
  PROVE  /\ Owed(x) = {x.post} /\ Due(x) = {x.post} /\ Aims(x) = {x.cond}
         /\ ~AtTop(x) /\ ~InBlock(x) /\ x.do # "end function" /\ x.do # "leave block"
BY DEF Owed, Due, Aims, AtTop, InBlock

LEMMA LeaveBlockOwes ==
  ASSUME NEW x, x.do = "leave block"
  PROVE  /\ Owed(x) = {x.begin, x.end} /\ Due(x) = {x.end} /\ Aims(x) = {x.entry}
         /\ ~AtTop(x) /\ ~InBlock(x) /\ x.do # "end function"
BY DEF Owed, Due, Aims, AtTop, InBlock

LEMMA EndFunctionOwes ==
  ASSUME NEW x, x.do = "end function"
  PROVE  /\ Owed(x) = {x.decls} /\ Due(x) = {} /\ Aims(x) = {x.decls + 1}
         /\ ~AtTop(x) /\ ~InBlock(x) /\ x.do # "leave block"
BY DEF Owed, Due, Aims, AtTop, InBlock

(* The steps that end one basic block and go on in the next.               *)
LEMMA Jumps ==
  ASSUME WiredInv, Runs, todo # <<>>, IsSeq(Tail(todo)), SameScope, UNCHANGED <<generated, errors>>,
         Go(<<>>), ~AtTop(Instr), Instr.do # "end function", Instr.do # "leave block",
         NEW q, Owed(Instr) = {q}, Due(Instr) = {q}, ip' = q,
         NEW j, IsTerminator(j), j.op # "ret",
         \A t \in ToSet(j.to) : t = q \/ t \in Aims(Instr),
         NEW bs, InFunction(blocks, ip, todo, frames, generated) =>
                   InFunction(bs, ip, todo, frames, generated),
         LET c == Inserted(With(bs, ip, j), q)
         IN  InFunction(c, q, Tail(todo), frames, generated) =>
               InFunction(blocks', q, Tail(todo), frames, generated)
  PROVE  WiredInv'
<1> SUFFICES ASSUME errors = 0
             PROVE  WiredInv'
  BY DEF WiredInv
<1>1. state = Len(frames) /\ InFunction(blocks, ip, todo, frames, generated)
  BY Inward
<1>2. InFunction(bs, ip, todo, frames, generated)
  BY <1>1
<1>3. todo' = Tail(todo)
  BY GoNone
<1> DEFINE c == Inserted(With(bs, ip, j), q)
           s == todo
           x == Instr
<1>4. /\ s # <<>> /\ Owed(Head(s)) = {q} /\ Due(Head(s)) = {q}
      /\ Head(s).do # "end function" /\ Head(s).do # "leave block"
      /\ \A t \in ToSet(j.to) : t = q \/ t \in Aims(Head(s))
      /\ IsTerminator(j) /\ j.op # "ret" /\ InFunction(bs, ip, s, frames, generated)
  BY <1>2 DEF Instr
<1>5. c = Inserted(With(bs, ip, j), q)
  OBVIOUS
<1> HIDE DEF c, s
<1>6. InFunction(c, q, Tail(s), frames, generated)
  BY ONLY <1>4, <1>5, JumpsTo
<1>7. InFunction(blocks', q, Tail(todo), frames, generated)
  BY <1>6 DEF c, s
<1>8. InFunction(blocks', ip', todo', frames', generated') /\ state' = Len(frames')
  BY <1>1, <1>3, <1>7 DEF SameScope
<1> QED
  BY <1>8, StaysInside

LEMMA IfFalseWires ==
  ASSUME IInv, WiredInv, IfFalse
  PROVE  WiredInv'
<1> DEFINE a == Store(Instr.result, OrZero(Top))
           bs == With(blocks, ip, a)
           j == Br(Instr.post)
           q == Instr.no
<1>1. /\ Doing("if false") /\ blocks' = Inserted(With(bs, ip, j), q)
      /\ ip' = q /\ Go(<<>>) /\ SameScope /\ UNCHANGED <<generated, errors>>
  BY DEF IfFalse, SameRest, SameNames
<1>2. Runs /\ todo # <<>> /\ IsSeq(Tail(todo)) /\ Instr.do = "if false"
  BY <1>1, DoingIs
<1>3. /\ Owed(Instr) = {q} /\ Due(Instr) = {q} /\ Aims(Instr) = {Instr.post}
      /\ ~AtTop(Instr) /\ Instr.do # "end function" /\ Instr.do # "leave block"
  BY <1>2, IfFalseOwes
<1>4. ~IsTerminator(a)
  BY DEF Store, IsTerminator, Terminators
<1>5. /\ IsTerminator(j) /\ j.op # "ret"
      /\ \A t \in ToSet(j.to) : t = q \/ t \in Aims(Instr)
  BY <1>3, OneTarget
<1> HIDE DEF q, j, a
<1>6. InFunction(blocks, ip, todo, frames, generated) =>
        InFunction(bs, ip, todo, frames, generated)
  BY <1>4, AddsInside
<1> HIDE DEF bs
<1> QED
  BY <1>1, <1>2, <1>3, <1>5, <1>6, Jumps

LEMMA PostIfWires ==
  ASSUME IInv, WiredInv, PostIf
  PROVE  WiredInv'
<1> DEFINE a == Store(Instr.result, OrZero(Top))
           bs == With(blocks, ip, a)
           j == Br(Instr.post)
           q == Instr.post
           l == Load(Instr.result)
           c == Inserted(With(bs, ip, j), q)
<1>1. /\ Doing("post if") /\ blocks' = With(c, q, l)
      /\ ip' = q /\ Go(<<>>) /\ SameScope /\ UNCHANGED <<generated, errors>>
  BY DEF PostIf, SameNames
<1>2. Runs /\ todo # <<>> /\ IsSeq(Tail(todo)) /\ Instr.do = "post if"
  BY <1>1, DoingIs
<1>3. /\ Owed(Instr) = {q} /\ Due(Instr) = {q}
      /\ ~AtTop(Instr) /\ Instr.do # "end function" /\ Instr.do # "leave block"
  BY <1>2, PostIfOwes
<1>4. ~IsTerminator(a) /\ ~IsTerminator(l)
  BY DEF Store, Load, IsTerminator, Terminators
<1>5. /\ IsTerminator(j) /\ j.op # "ret"
      /\ \A t \in ToSet(j.to) : t = q \/ t \in Aims(Instr)
  BY OneTarget
<1> HIDE DEF q, j, a, l
<1>6. InFunction(blocks, ip, todo, frames, generated) =>
        InFunction(bs, ip, todo, frames, generated)
  BY <1>4, AddsInside
<1> HIDE DEF bs
<1> DEFINE d == blocks'
<1>8. d = With(c, q, l)
  BY <1>1
<1> HIDE DEF d
<1>7. InFunction(c, q, Tail(todo), frames, generated) =>
        InFunction(d, q, Tail(todo), frames, generated)
  BY <1>4, <1>8, AddsInside
<1> QED
  BY <1>1, <1>2, <1>3, <1>5, <1>6, <1>7, Jumps DEF d

LEMMA LoopBodyWires ==
  ASSUME IInv, WiredInv, LoopBody
  PROVE  WiredInv'
<1> DEFINE j == CondBr(Top, Instr.body, Instr.post)
           q == Instr.body
<1>0. CASE Crash("null operand")
  BY <1>0, CrashWires
<1>7. CASE ~Crash("null operand")
  <2>1. /\ Doing("loop body") /\ blocks' = Inserted(With(blocks, ip, j), q)
        /\ ip' = q /\ Go(<<>>) /\ SameScope /\ UNCHANGED <<generated, errors>>
    BY <1>7 DEF LoopBody, SameRest, SameNames
  <2>2. Runs /\ todo # <<>> /\ IsSeq(Tail(todo)) /\ Instr.do = "loop body"
    BY <2>1, DoingIs
  <2>3. /\ Owed(Instr) = {q} /\ Due(Instr) = {q} /\ Aims(Instr) = {Instr.post}
        /\ ~AtTop(Instr) /\ Instr.do # "end function" /\ Instr.do # "leave block"
    BY <2>2, LoopBodyOwes
  <2>5. /\ IsTerminator(j) /\ j.op # "ret"
        /\ \A t \in ToSet(j.to) : t = q \/ t \in Aims(Instr)
    BY <2>3, TwoTargets
  <2> HIDE DEF q, j
  <2> QED
    BY <2>1, <2>2, <2>3, <2>5, Jumps
<1> QED
  BY <1>0, <1>7

LEMMA PostWhileWires ==
  ASSUME IInv, WiredInv, PostWhile
  PROVE  WiredInv'
<1> DEFINE j == Br(Instr.cond)
           q == Instr.post
<1>0. CASE Crash("return values from loops")
  BY <1>0, CrashWires
<1>7. CASE ~Crash("return values from loops")
  <2>1. /\ Doing("post while") /\ blocks' = Inserted(With(blocks, ip, j), q)
        /\ ip' = q /\ Go(<<>>) /\ SameScope /\ UNCHANGED <<generated, errors>>
    BY <1>7 DEF PostWhile, SameRest, SameNames
  <2>2. Runs /\ todo # <<>> /\ IsSeq(Tail(todo)) /\ Instr.do = "post while"
    BY <2>1, DoingIs
  <2>3. /\ Owed(Instr) = {q} /\ Due(Instr) = {q} /\ Aims(Instr) = {Instr.cond}
        /\ ~AtTop(Instr) /\ Instr.do # "end function" /\ Instr.do # "leave block"
    BY <2>2, PostWhileOwes
  <2>5. /\ IsTerminator(j) /\ j.op # "ret"
        /\ \A t \in ToSet(j.to) : t = q \/ t \in Aims(Instr)
    BY <2>3, OneTarget
  <2> HIDE DEF q, j
  <2> QED
    BY <2>1, <2>2, <2>3, <2>5, Jumps
<1> QED
  BY <1>0, <1>7

(* A block is left: what is in front of its first statement ends at begin, *)
(* its last statement goes on at end.                                      *)
LEMMA Leaves ==
  ASSUME NEW bs, NEW p, NEW s, NEW fr, NEW gen, InFunction(bs, p, s, fr, gen), s # <<>>,
         NEW x, x = Head(s), x.do = "leave block",
         NEW u, IsSeq(u), \A k \in 1..Len(u) : ~IsTerminator(u[k]),
         NEW d, d = Inserted(With(With(bs, x.begin, Br(x.entry)), p, Br(x.end)), x.end),
         NEW c, c = [d EXCEPT ![x.end].insts = @ \o u],
         NEW fr2, Framed(Entries(Tail(s)), fr2)
  PROVE  InFunction(c, x.end, Tail(s), fr2, gen)
<1> DEFINE r == Tail(s)
           R == Entries(r)
           open == OwedBy(Entries(s)) \union {p}
           due == DueBy(Entries(s))
           n == Cardinality(gen) - 1
           f == bs[p].fn
           begin == x.begin
           end == x.end
           j1 == Br(x.entry)
           j2 == Br(end)
           d1 == With(bs, begin, j1)
           d2 == With(d1, p, j2)
<1>1. p \notin OwedBy(Entries(s)) /\ IsFiniteSet(gen) /\ Graph(bs, open, due, n)
  BY DEF InFunction
<1>2. /\ IsSeq(r) /\ Sound(bs, f, r) /\ Fits(bs, f, x, R)
      /\ x.do # "end function" => Inside(R)
      /\ OwedBy(Entries(s)) = Owed(x) \union OwedBy(R)
      /\ DueBy(Entries(s)) = Due(x) \union DueBy(R)
  <2>1. IsSeq(r) /\ Sound(bs, f, r) /\ Fits(bs, f, x, R) /\ (x.do # "end function" => Inside(R))
    BY ONLY InFunction(bs, p, s, fr, gen), s # <<>>, x = Head(s), PopFits
  <2>2. /\ OwedBy(Entries(s)) = Owed(x) \union OwedBy(R)
        /\ DueBy(Entries(s)) = Due(x) \union DueBy(R)
    BY ONLY InFunction(bs, p, s, fr, gen), s # <<>>, x = Head(s), PopOwes
  <2> HIDE DEF r, R, f
  <2> QED
    BY ONLY <2>1, <2>2
<1>3. Owed(x) = {begin, end} /\ Due(x) = {end} /\ Aims(x) = {x.entry} /\ x.do # "end function"
  BY LeaveBlockOwes
<1>4. begin # end
  BY <1>2 DEF Fits
<1>5. /\ \A b \in Owed(x) \union Aims(x) : b \in 1..Len(bs) /\ bs[b].fn = f
      /\ \A b \in Owed(x) : b \notin OwedBy(R)
      /\ \A b \in Aims(x) : bs[b].inserted \/ b \in DueBy(R)
  BY <1>2 DEF Fits
<1>6. /\ begin \in open /\ p \in open \ {begin} /\ end \in (open \ {begin}) \ {p}
      /\ (open \ {begin}) \ {p} = OwedBy(R) \union {end}
      /\ end \notin OwedBy(R) /\ end \in due /\ DueBy(R) \subseteq due /\ due \ {end} \subseteq DueBy(R)
  BY <1>1, <1>2, <1>3, <1>4, <1>5
<1>7. /\ begin \in 1..Len(bs) /\ bs[begin].fn = f /\ end \in 1..Len(bs) /\ bs[end].fn = f
      /\ x.entry \in 1..Len(bs) /\ bs[x.entry].fn = f
      /\ bs[x.entry].inserted \/ x.entry \in due
  BY <1>3, <1>5, <1>6
<1>8. /\ IsTerminator(j1) /\ j1.op # "ret" /\ \A t \in ToSet(j1.to) : t = x.entry
      /\ IsTerminator(j2) /\ j2.op # "ret" /\ \A t \in ToSet(j2.to) : t = end
  BY OneTarget
<1>9. d = Inserted(d2, end) /\ c = [d EXCEPT ![end].insts = @ \o u] /\ Inside(R)
  BY <1>2, <1>3
<1> HIDE DEF open, due, n, r, R, j1, j2, d1, d2, begin, end
<1>10. Shape(bs) /\ p \in 1..Len(bs)
  BY <1>1, <1>6 DEF Graph, Joined
<1>11. AddsOne(bs, d1, begin, j1)
  BY <1>7, <1>10, WithAdds DEF AddsOne, d1
<1>12. \A t \in ToSet(j1.to) : /\ t \in 1..Len(bs) /\ bs[t].fn = bs[begin].fn
                               /\ bs[t].inserted \/ t \in due
  BY <1>7, <1>8
<1>13. Graph(d1, open \ {begin}, due, n)
  BY ONLY <1>1, <1>6, <1>8, <1>11, <1>12, AddsJump
<1>14. /\ Grows(bs, d1) /\ Shape(d1) /\ Len(d1) = Len(bs) /\ d1[p].fn = f /\ d1[end].fn = f
  <2>1. Grows(bs, d1)
    BY ONLY <1>11, AddsGrows DEF AddsOne
  <2> QED
    BY <1>7, <1>10, <1>11, <2>1 DEF AddsOne, Adds
<1>15. AddsOne(d1, d2, p, j2)
  BY <1>10, <1>14, WithAdds DEF AddsOne, d2
<1>16. \A t \in ToSet(j2.to) : /\ t \in 1..Len(d1) /\ d1[t].fn = d1[p].fn
                               /\ d1[t].inserted \/ t \in due
  BY <1>6, <1>7, <1>8, <1>14
<1>17. Graph(d2, (open \ {begin}) \ {p}, due, n)
  BY ONLY <1>6, <1>8, <1>13, <1>15, <1>16, AddsJump
<1>18. Grows(d1, d2) /\ Len(d2) = Len(d1) /\ d2[end].fn = f
  <2>1. Grows(d1, d2)
    BY ONLY <1>15, AddsGrows DEF AddsOne
  <2> QED
    BY <1>7, <1>14, <1>15, <2>1 DEF AddsOne, Adds
<1>19. Graph(d, (open \ {begin}) \ {p}, due \ {end}, n) /\ Grows(d2, d)
  BY ONLY <1>6, <1>9, <1>17, Inserts
<1>20. Graph(d, OwedBy(R) \union {end}, DueBy(R), n)
  BY <1>6, <1>19, MoreDue
<1>21. Shape(d) /\ end \in 1..Len(d) /\ d[end].fn = f
  <2>1. Shape(d) /\ end \in 1..Len(d)
    BY <1>20 DEF Graph, Joined
  <2>2. end \in 1..Len(d2)
    BY <1>7, <1>14, <1>18
  <2> QED
    BY <1>18, <1>19, <2>1, <2>2 DEF Grows
<1>22. Adds(d, c, end, u)
  BY ONLY <1>9, <1>21, IsSeq(u), ManyAdds
<1>23. Graph(c, OwedBy(R) \union {end}, DueBy(R), n)
  <2> DEFINE o == OwedBy(R) \union {end}
             e == DueBy(R)
  <2>1. end \in o /\ Graph(d, o, e, n)
    BY <1>20
  <2> HIDE DEF o, e
  <2>2. Graph(c, o, e, n)
    BY ONLY <1>22, <2>1, \A k \in 1..Len(u) : ~IsTerminator(u[k]), AddsPlain
  <2> QED
    BY <2>2 DEF o, e
<1>24. Grows(d, c)
  BY ONLY <1>22, AddsGrows
<1>25. c[end].fn = f
  BY <1>21, <1>24 DEF Grows
<1>26. Sound(c, f, r)
  <2>1. Sound(d1, f, r)
    BY <1>2, <1>14, SoundGrow
  <2>2. Sound(d2, f, r)
    BY <1>18, <2>1, SoundGrow
  <2>3. Sound(d, f, r)
    BY <1>19, <2>2, SoundGrow
  <2> QED
    BY ONLY <1>24, <2>3, SoundGrow
<1>27. Framed(R, fr2)
  BY DEF R, r
<1>28. InFunction(c, end, r, fr2, gen)
  BY <1>1, <1>6, <1>9, <1>23, <1>25, <1>26, <1>27 DEF InFunction, R, n
<1> QED
  BY <1>28 DEF end, r

(* The frame that is left is not that of the function.                     *)
LEMMA FramedFront ==
  ASSUME NEW R, NEW fr, Framed(R, fr), NEW fr2, NEW m \in Nat, m >= 3, Len(fr) = m + 1,
         Len(fr2) = m, \A j \in 1..m : fr2[j] = fr[j]
  PROVE  Framed(R, fr2)
<1>1. \A j \in 3..m : j \in 1..m /\ j \in 3..Len(fr)
  OBVIOUS
<1> QED
  BY <1>1 DEF Framed

LEMMA LeaveBlockWires ==
  ASSUME IInv, WiredInv, LeaveBlock
  PROVE  WiredInv'
<1> DEFINE x == Instr
           own == Last(frames).own
           u == [k \in 1..Len(own) |-> LifetimeEnd(own[k].var)]
           d == Inserted(With(With(blocks, x.begin, Br(x.entry)), ip, Br(x.end)), x.end)
           rest == Tail(todo)
           m == Len(frames) - 1
           c == blocks'
           fr2 == frames'
<1>1. /\ Doing("leave block") /\ c = [d EXCEPT ![x.end].insts = @ \o u]
      /\ ip' = x.end /\ fr2 = Front(frames) /\ state' = x.old /\ Go(<<>>)
      /\ UNCHANGED <<generated, errors>>
  BY DEF LeaveBlock, SameRest, SameNames
<1>2. /\ Runs /\ todo # <<>> /\ IsSeq(rest) /\ x.do = "leave block"
      /\ \E i1 \in Nat \ {0}, n1, f1, m1 \in Nat :
           Moves(Instr, Len(frames), Len(values), i1, n1)
  BY <1>1, Running
<1>3. x.old = m
  <2>1. PICK i1 \in Nat \ {0}, n1 \in Nat : Moves(Instr, Len(frames), Len(values), i1, n1)
    BY <1>2
  <2>2. Len(frames) = i1 + 1 /\ x.old = i1
    BY <1>2, <2>1, MovesLeave
  <2> QED
    BY ONLY <2>2, i1 \in Nat \ {0}
<1> SUFFICES ASSUME errors = 0
             PROVE  WiredInv'
  BY <1>1 DEF WiredInv
<1>4. ~AtTop(x)
  <2> HIDE DEF x
  <2> QED
    BY <1>2, LeaveBlockOwes
<1>5. InFunction(blocks, ip, todo, frames, generated)
  BY <1>2, <1>4, Inward
<1>6. Fits(blocks, blocks[ip].fn, x, Entries(rest)) /\ Entries(todo) = {x} \union Entries(rest)
  <2>1. InFunction(blocks, ip, todo, frames, generated) /\ todo # <<>>
    BY <1>2, <1>5
  <2>2. Fits(blocks, blocks[ip].fn, x, Entries(rest))
    BY ONLY <2>1, PopFits DEF Instr
  <2>3. Entries(todo) = {x} \union Entries(rest)
    BY ONLY <2>1, PopOwes DEF Instr
  <2> QED
    BY ONLY <2>2, <2>3
<1>7. x.old \in Nat /\ x.old >= 3
  BY <1>2, <1>6 DEF Fits
<1>8. Len(fr2) = m /\ \A k \in 1..m : fr2[k] = frames[k]
  <2>1. Len(frames) \in Nat \ {0} /\ Scoped(n_allocas, frames)
    BY Facts
  <2>2. fr2 = SubSeq(frames, 1, m)
    BY <1>1 DEF Front
  <2>3. IsSeq(frames)
    <3> DEFINE S == Scope(n_allocas)
    <3>1. frames \in Seq(S)
      BY <2>1 DEF Scoped
    <3> HIDE DEF S
    <3> QED
      BY <3>1, SeqIs
  <2>4. m \in Nat /\ 1 \in Nat /\ 1 <= 1 /\ 1 <= m + 1 /\ m <= Len(frames) /\ m - 1 + 1 = m
          /\ \A k \in 1..m : 1 + k - 1 = k
    BY ONLY <2>1
  <2> HIDE DEF m, fr2
  <2>5. /\ Len(SubSeq(frames, 1, m)) = m - 1 + 1
        /\ \A k \in 1..(m - 1 + 1) : SubSeq(frames, 1, m)[k] = frames[1 + k - 1]
    BY ONLY <2>3, <2>4, SubSeqIs
  <2> QED
    BY ONLY <2>2, <2>4, <2>5
<1>9. Framed(Entries(rest), fr2)
  <2>1. Framed(Entries(todo), frames)
    BY <1>5 DEF InFunction
  <2>2. Framed(Entries(rest), frames)
    BY <1>6, <2>1 DEF Framed
  <2>3. m \in Nat /\ m >= 3 /\ Len(frames) = m + 1
    <3>1. Len(frames) \in Nat
      BY Facts
    <3> QED
      BY <1>3, <1>7, <3>1
  <2> DEFINE R == Entries(rest)
  <2> HIDE DEF R, m, fr2
  <2> QED
    BY <1>8, <2>2, <2>3, FramedFront DEF R
<1>10. IsSeq(u) /\ \A k \in 1..Len(u) : ~IsTerminator(u[k])
  <2> DEFINE l == Len(own)
  <2>1. l \in Nat
    <3>1. Len(frames) \in Nat \ {0} /\ Scoped(n_allocas, frames)
      BY Facts
    <3> DEFINE S == Scope(n_allocas)
    <3>2. frames \in Seq(S)
      BY <3>1 DEF Scoped
    <3> HIDE DEF S
    <3>3. Len(frames) \in 1..Len(frames)
      BY ONLY <3>1
    <3>4. Last(frames) \in S
      BY <3>2, <3>3, ElementOfSeq DEF Last
    <3>5. own \in Own(n_allocas)
      BY <3>4 DEF S, Scope
    <3> DEFINE E == [name : Name, var : 1..n_allocas]
    <3>6. own \in Seq(E)
      BY <3>5 DEF Own
    <3> HIDE DEF E, own
    <3> QED
      BY <3>6, SeqIs
  <2>2. u = [k \in 1..l |-> u[k]] /\ \A k \in 1..l : u[k] = LifetimeEnd(own[k].var)
    OBVIOUS
  <2>3. \A k \in 1..l : ~IsTerminator(u[k])
    BY <2>2 DEF LifetimeEnd, IsTerminator, Terminators
  <2> HIDE DEF u, l
  <2>4. IsSeq(u) /\ Len(u) = l
    BY <2>1, <2>2, MapIs
  <2> QED
    BY <2>3, <2>4
<1>11. todo' = rest
  BY <1>1, <1>2, GoNone
<1>12. x = Head(todo)
  BY DEF Instr
<1> HIDE DEF u, c, fr2, x
<1>13. InFunction(c, x.end, rest, fr2, generated)
  BY ONLY <1>1, <1>2, <1>5, <1>9, <1>10, <1>12, Leaves
<1>14. Len(fr2) = state'
  BY <1>1, <1>3, <1>8
<1>15. InFunction(blocks', ip', todo', frames', generated') /\ state' = Len(frames')
  BY <1>1, <1>11, <1>13, <1>14 DEF c, fr2
<1> QED
  BY <1>15, StaysInside

(* The body of a function returns its value, and its first basic block     *)
(* goes on to the second.                                                  *)
LEMMA Returns1 ==
  ASSUME NEW bs, NEW p, NEW s, NEW fr, NEW gen, InFunction(bs, p, s, fr, gen), s # <<>>,
         NEW x, x = Head(s), x.do = "end function",
         NEW v, v.op = "ret", v.to = <<>>,
         NEW c, c = With(With(bs, p, v), x.decls, Br(x.decls + 1)),
         NEW fr2, Len(fr2) = 2
  PROVE  Between(c, Tail(s), fr2, gen)
<1> DEFINE r == Tail(s)
           R == Entries(r)
           open == OwedBy(Entries(s)) \union {p}
           due == DueBy(Entries(s))
           n == Cardinality(gen)
           f == bs[p].fn
           q == x.decls
           t == x.decls + 1
           j == Br(t)
           d == With(bs, p, v)
<1>1. p \notin OwedBy(Entries(s)) /\ IsFiniteSet(gen) /\ Graph(bs, open, due, n - 1)
  BY DEF InFunction
<1>2. /\ IsSeq(r) /\ Fits(bs, f, x, R)
      /\ OwedBy(Entries(s)) = Owed(x) \union OwedBy(R)
      /\ DueBy(Entries(s)) = Due(x) \union DueBy(R)
  <2>1. IsSeq(r) /\ Fits(bs, f, x, R)
    BY ONLY InFunction(bs, p, s, fr, gen), s # <<>>, x = Head(s), PopFits
  <2>2. /\ OwedBy(Entries(s)) = Owed(x) \union OwedBy(R)
        /\ DueBy(Entries(s)) = Due(x) \union DueBy(R)
    BY ONLY InFunction(bs, p, s, fr, gen), s # <<>>, x = Head(s), PopOwes
  <2> HIDE DEF r, R, f
  <2> QED
    BY ONLY <2>1, <2>2
<1>3. Owed(x) = {q} /\ Due(x) = {} /\ Aims(x) = {t} /\ ~AtTop(x)
  BY EndFunctionOwes
<1>4. \A e \in R : AtTop(e)
  BY <1>2 DEF Fits
<1>5. OwedBy(R) = {} /\ DueBy(R) = {}
  BY <1>4, AllTop
<1>6. /\ q \in 1..Len(bs) /\ bs[q].fn = f /\ t \in 1..Len(bs) /\ bs[t].fn = f
      /\ bs[t].inserted
  BY <1>2, <1>3, <1>5 DEF Fits
<1>7. open = {q, p} /\ due = {} /\ p # q /\ p \in open /\ q \in open \ {p}
        /\ (open \ {p}) \ {q} = {}
  BY <1>1, <1>2, <1>3, <1>5
<1>8. IsTerminator(j) /\ j.op # "ret" /\ \A b \in ToSet(j.to) : b = t
  BY OneTarget
<1>9. (n - 1) + 1 = n
  <2>1. n \in Nat
    BY <1>1, FS_CardinalityType
  <2> HIDE DEF n
  <2> QED
    BY ONLY <2>1
<1>10. c = With(d, q, j)
  OBVIOUS
<1> HIDE DEF open, due, n, r, R, j, d, q, t
<1>11. Shape(bs) /\ p \in 1..Len(bs)
  BY <1>1, <1>7 DEF Graph, Joined
<1>12. AddsOne(bs, d, p, v)
  BY <1>11, WithAdds DEF AddsOne, d
<1>13. Graph(d, open \ {p}, due, (n - 1) + 1)
  <2>1. v.op = "ret" \/ v.op = "ret void"
    OBVIOUS
  <2> QED
    BY ONLY <1>1, <1>7, <1>12, <2>1, v.op = "ret", v.to = <<>>, AddsRet
<1>14. Graph(d, open \ {p}, due, n)
  BY <1>9, <1>13
<1>15. Shape(d) /\ Len(d) = Len(bs) /\ d[q].fn = f /\ d[t].fn = f /\ d[t].inserted
  BY <1>6, <1>12 DEF AddsOne, Adds
<1>16. AddsOne(d, c, q, j)
  BY <1>6, <1>10, <1>15, WithAdds DEF AddsOne
<1>17. \A b \in ToSet(j.to) : /\ b \in 1..Len(d) /\ d[b].fn = d[q].fn
                              /\ d[b].inserted \/ b \in due
  BY <1>6, <1>8, <1>15
<1>18. Graph(c, (open \ {p}) \ {q}, due, n)
  BY ONLY <1>7, <1>8, <1>14, <1>16, <1>17, AddsJump
<1>19. Graph(c, {}, {}, n)
  BY <1>7, <1>18
<1>20. Settled(R, Len(fr2))
  BY DEF Settled
<1>21. Between(c, r, fr2, gen)
  BY <1>1, <1>2, <1>4, <1>19, <1>20 DEF Between, R, n
<1> QED
  BY <1>21 DEF r

LEMMA OrZeroIs ==
  ASSUME NEW x
  PROVE  OrZero(x) # Null
<1>1. Constant # Null
  <2>1. Len(<<0, 0>>) = 2 /\ Len(<<>>) = 0
    OBVIOUS
  <2> QED
    BY <2>1 DEF Constant, Null
<1> QED
  BY <1>1 DEF OrZero

LEMMA EndFunctionWires ==
  ASSUME IInv, WiredInv, EndFunction
  PROVE  WiredInv'
<1> DEFINE x == Instr
           v == Ret(OrZero(Top))
           rest == Tail(todo)
           c == blocks'
           fr2 == frames'
<1>1. /\ Doing("end function") /\ c = With(With(blocks, ip, v), x.decls, Br(x.decls + 1))
      /\ fr2 = Front(frames) /\ state' = x.old /\ Go(<<>>)
      /\ UNCHANGED <<generated, errors>>
  BY DEF EndFunction, SameRest, SameNames
<1>2. /\ Runs /\ todo # <<>> /\ IsSeq(rest) /\ x.do = "end function"
      /\ \E i1 \in Nat \ {0}, n1, f1, m1 \in Nat :
           Moves(Instr, Len(frames), Len(values), i1, n1)
  BY <1>1, Running
<1>3. Len(frames) = x.old + 1
  <2>1. PICK i1 \in Nat \ {0}, n1 \in Nat : Moves(Instr, Len(frames), Len(values), i1, n1)
    BY <1>2
  <2>2. Len(frames) = i1 + 1 /\ x.old = i1
    BY <1>2, <2>1, MovesEndFunction
  <2> QED
    BY <2>2
<1> SUFFICES ASSUME errors = 0
             PROVE  WiredInv'
  BY <1>1 DEF WiredInv
<1>4. ~AtTop(x)
  <2> HIDE DEF x
  <2> QED
    BY <1>2, EndFunctionOwes
<1>5. InFunction(blocks, ip, todo, frames, generated)
  BY <1>2, <1>4, Inward
<1>6. Entries(todo) = {x} \union Entries(rest)
  <2>1. InFunction(blocks, ip, todo, frames, generated) /\ todo # <<>>
    BY <1>2, <1>5
  <2> QED
    BY ONLY <2>1, PopOwes DEF Instr
<1>7. x.old = 2
  <2>1. Framed(Entries(todo), frames)
    BY <1>5 DEF InFunction
  <2> HIDE DEF x
  <2> QED
    BY <1>2, <1>6, <2>1 DEF Framed
<1>8. Len(frames) = 3
  BY <1>3, <1>7
<1>9. Len(fr2) = 2
  <2>1. Len(frames) \in Nat \ {0} /\ Scoped(n_allocas, frames)
    BY Facts
  <2>2. fr2 = SubSeq(frames, 1, 2)
    <3>1. Len(frames) - 1 = 2
      BY ONLY <1>8
    <3>2. fr2 = SubSeq(frames, 1, Len(frames) - 1)
      BY <1>1 DEF Front
    <3> QED
      BY ONLY <3>1, <3>2
  <2>3. 2 \in 0..Len(frames)
    BY <1>8
  <2> QED
    BY <2>1, <2>2, <2>3, ScopedCut
<1>10. v.op = "ret" /\ v.to = <<>>
  BY OrZeroIs DEF Ret
<1>11. todo' = rest
  BY <1>1, <1>2, GoNone
<1>12. x = Head(todo)
  BY DEF Instr
<1> HIDE DEF v, c, fr2, x
<1>13. Between(c, rest, fr2, generated)
  BY ONLY <1>1, <1>2, <1>5, <1>9, <1>10, <1>12, Returns1
<1>14. Between(blocks', todo', frames', generated') /\ state' = Len(frames')
  BY <1>1, <1>7, <1>9, <1>11, <1>13 DEF c, fr2
<1> QED
  BY <1>14, StaysBetween

-----------------------------------------------------------------------------
(* What is to be done is put together while the basic blocks O are owed to *)
(* it, and D are due.                                                      *)
Within(bs, f, s, fr, gen, O, D) ==
  /\ Sound(bs, f, s) /\ Inside(Entries(s)) /\ Framed(Entries(s), fr) /\ IsFiniteSet(gen)
  /\ \A b \in O : b \notin OwedBy(Entries(s))
  /\ Graph(bs, OwedBy(Entries(s)) \union O, DueBy(Entries(s)) \union D, Cardinality(gen) - 1)

LEMMA WithinIs ==
  ASSUME NEW bs, NEW p, NEW s, NEW fr, NEW gen, Within(bs, bs[p].fn, s, fr, gen, {p}, {})
  PROVE  InFunction(bs, p, s, fr, gen)
BY DEF Within, InFunction

LEMMA Puts ==
  ASSUME NEW bs, NEW f, NEW s, NEW fr, NEW gen, NEW O, NEW D, Within(bs, f, s, fr, gen, O, D),
         NEW x, Fits(bs, f, x, Entries(s)), x.do # "end function",
         NEW P, O = P \union Owed(x), \A b \in P : b \notin Owed(x),
         NEW E, D \subseteq E \union Due(x)
  PROVE  Within(bs, f, Cons(x, s), fr, gen, P, E)
<1> DEFINE R == Entries(s)
           t == Cons(x, s)
           Q == Entries(t)
           n == Cardinality(gen) - 1
<1>1. /\ Sound(bs, f, s) /\ Inside(R) /\ Framed(R, fr) /\ IsFiniteSet(gen)
      /\ \A b \in O : b \notin OwedBy(R)
      /\ Graph(bs, OwedBy(R) \union O, DueBy(R) \union D, n)
  BY DEF Within
<1>2. IsSeq(s)
  BY <1>1 DEF Sound
<1>3. /\ Q = {x} \union R /\ OwedBy(Q) = Owed(x) \union OwedBy(R)
      /\ DueBy(Q) = Due(x) \union DueBy(R) /\ (Inside(R) => Inside(Q))
  BY <1>2, ConsEntries, ConsOwed
<1>4. Sound(bs, f, t)
  BY <1>1, <1>2, SoundCons
<1> HIDE DEF Q, R, t, n
<1>5. Framed(Q, fr)
  BY <1>1, <1>3 DEF Framed
<1>6. OwedBy(Q) \union P = OwedBy(R) \union O /\ \A b \in P : b \notin OwedBy(Q)
  BY <1>1, <1>3
<1>7. DueBy(R) \union D \subseteq DueBy(Q) \union E
  BY <1>3
<1> DEFINE o == OwedBy(R) \union O
           d == DueBy(R) \union D
           e == DueBy(Q) \union E
<1>8. Graph(bs, o, d, n) /\ d \subseteq e
  BY <1>1, <1>7
<1> HIDE DEF o, d, e
<1>9. Graph(bs, o, e, n)
  BY ONLY <1>8, MoreDue
<1>10. Graph(bs, OwedBy(Q) \union P, DueBy(Q) \union E, n)
  BY <1>6, <1>9 DEF o, e
<1> QED
  BY <1>1, <1>3, <1>4, <1>5, <1>6, <1>10 DEF Within, Q, R, t, n

LEMMA PutsPlain ==
  ASSUME NEW bs, NEW f, NEW s, NEW fr, NEW gen, NEW O, NEW D, Within(bs, f, s, fr, gen, O, D),
         NEW x, Plain(x), InBlock(x) => BlockIn(Entries(s))
  PROVE  /\ Within(bs, f, Cons(x, s), fr, gen, O, D) /\ IsSeq(Cons(x, s))
         /\ BlockIn(Entries(s)) => BlockIn(Entries(Cons(x, s)))
<1>1. Fits(bs, f, x, Entries(s))
  BY DEF Within, Fits, Plain
<1>2. x.do # "end function" /\ Owed(x) = {} /\ Due(x) = {}
  BY DEF Plain
<1>3. O = O \union Owed(x) /\ (\A b \in O : b \notin Owed(x)) /\ D \subseteq D \union Due(x)
  BY <1>2
<1>4. Within(bs, f, Cons(x, s), fr, gen, O, D)
  BY ONLY Within(bs, f, s, fr, gen, O, D), <1>1, <1>2, <1>3, Puts
<1>5. IsSeq(Cons(x, s))
  BY <1>4 DEF Within, Sound
<1>6. BlockIn(Entries(s)) => BlockIn(Entries(Cons(x, s)))
  <2>1. IsSeq(s)
    BY DEF Within, Sound
  <2> QED
    BY <2>1, ConsOwed
<1> QED
  BY <1>4, <1>5, <1>6

LEMMA NewBlock ==
  ASSUME NEW f, NEW i
  PROVE  /\ PlainBlock(BasicBlock(f, i))
         /\ BasicBlock(f, i).fn = f /\ BasicBlock(f, i).inserted = i
<1> DEFINE r == BasicBlock(f, i)
           none == <<>>
<1>1. r = [fn |-> f, inserted |-> i, insts |-> none]
  BY DEF BasicBlock
<1>2. IsSeq(none) /\ Len(none) = 0
  BY NoneIs, OneIs
<1> HIDE DEF r, none
<1>3. r.fn = f /\ r.inserted = i /\ r.insts = none
  BY <1>1
<1>4. \A k \in 1..Len(none) : FALSE
  BY <1>2
<1>5. Stops(none) = {} /\ RetsOf(none) = {}
  BY <1>4 DEF Stops, RetsOf
<1>6. Targets(none) = {}
  BY <1>5 DEF Targets
<1> QED
  BY <1>1, <1>2, <1>3, <1>5, <1>6 DEF PlainBlock, IsBlock, r

(* Three basic blocks are created, and the one that code was generated in  *)
(* is ended by j.                                                          *)
Creating(bs, p, j, i2, i3, c) ==
  c = With(bs, p, j)
        \o <<BasicBlock(bs[p].fn, TRUE), BasicBlock(bs[p].fn, i2), BasicBlock(bs[p].fn, i3)>>

Ends(bs, j, more) ==
  /\ IsTerminator(j) /\ j.op # "ret"
  /\ \A t \in ToSet(j.to) : t = Len(bs) + 1 \/ (t = Len(bs) + 2 /\ t \in more)

Created(bs, p, s, fr, gen, i2, more, c) ==
  /\ Within(c, bs[p].fn, s, fr, gen, {Len(bs) + 1, Len(bs) + 2, Len(bs) + 3}, more)
  /\ Len(bs) \in Nat /\ Len(c) = Len(bs) + 3
  /\ c[Len(bs) + 1].fn = bs[p].fn /\ c[Len(bs) + 2].fn = bs[p].fn /\ c[Len(bs) + 3].fn = bs[p].fn
  /\ c[Len(bs) + 1].inserted /\ c[Len(bs) + 2].inserted = i2

LEMMA Creates ==
  ASSUME NEW bs, NEW p, NEW s, NEW fr, NEW gen, InFunction(bs, p, s, fr, gen),
         NEW j, NEW i2, NEW i3, NEW c, Creating(bs, p, j, i2, i3, c),
         NEW more, Ends(bs, j, more)
  PROVE  Created(bs, p, s, fr, gen, i2, more, c)
<1> DEFINE f == bs[p].fn
           l == Len(bs)
<1>0. /\ IsTerminator(j) /\ j.op # "ret"
      /\ \A t \in ToSet(j.to) : t = l + 1 \/ (t = l + 2 /\ t \in more)
      /\ c = With(bs, p, j) \o <<BasicBlock(f, TRUE), BasicBlock(f, i2), BasicBlock(f, i3)>>
      /\ l = Len(bs) /\ f = bs[p].fn
  BY DEF Creating, Ends
<1> HIDE DEF f, l
<1> DEFINE R == Entries(s)
           open == OwedBy(R) \union {p}
           due == DueBy(R)
           n == Cardinality(gen) - 1
           a1 == BasicBlock(f, TRUE)
           a2 == BasicBlock(f, i2)
           a3 == BasicBlock(f, i3)
           u == <<a1, a2, a3>>
           e == bs \o u
           new == {l + 1, l + 2, l + 3}
<1>1. /\ Sound(bs, f, s) /\ Inside(R) /\ p \notin OwedBy(R)
      /\ Framed(R, fr) /\ IsFiniteSet(gen) /\ Graph(bs, open, due, n)
  BY DEF InFunction, f
<1>2. PlainBlock(a1) /\ PlainBlock(a2) /\ PlainBlock(a3)
        /\ a1.fn = f /\ a2.fn = f /\ a3.fn = f /\ a1.inserted = TRUE /\ a2.inserted = i2
  BY NewBlock
<1>3. p \in open
  OBVIOUS
<1> HIDE DEF a1, a2, a3, open, due, n, R
<1>4. IsSeq(u) /\ Len(u) = 3 /\ u[1] = a1 /\ u[2] = a2 /\ u[3] = a3
  <2>1. <<a1, a2, a3>> \in Seq({a1, a2, a3}) /\ Len(<<a1, a2, a3>>) = 3
    OBVIOUS
  <2>2. u[1] = a1 /\ u[2] = a2 /\ u[3] = a3
    OBVIOUS
  <2> HIDE DEF u
  <2> QED
    BY <1>0, <2>1, <2>2, SeqIs DEF u
<1> HIDE DEF u
<1>5. \A k \in 1..Len(u) : PlainBlock(u[k])
  <2>1. \A k \in 1..3 : k = 1 \/ k = 2 \/ k = 3
    OBVIOUS
  <2> QED
    BY <1>0, <1>2, <1>4, <2>1
<1>6. Shape(bs) /\ p \in 1..Len(bs)
  BY <1>0, <1>1, <1>3 DEF Graph, Joined
<1>7. IsSeq(bs) /\ l \in Nat
  BY <1>0, <1>6, ListIs DEF Shape
<1>8. /\ IsSeq(e) /\ Len(e) = l + 3
      /\ e[p].fn = f
      /\ e[l + 1] = a1 /\ e[l + 2] = a2 /\ e[l + 3] = a3
  <2>1. /\ IsSeq(e) /\ Len(e) = Len(bs) + Len(u)
        /\ \A k \in 1..Len(bs) : e[k] = bs[k]
        /\ \A k \in 1..Len(u) : e[Len(bs) + k] = u[k]
    <3>1. IsSeq(bs) /\ IsSeq(u)
      BY <1>0, <1>4, <1>7
    <3> QED
      BY ONLY <1>0, <3>1, JoinIs, SMTT(30)
  <2> HIDE DEF e
  <2>2. 1 \in 1..3 /\ 2 \in 1..3 /\ 3 \in 1..3
    OBVIOUS
  <2> QED
    BY <1>0, <1>4, <1>6, <2>1, <2>2
<1>9. /\ Graph(e, open \union ((Len(bs) + 1)..(Len(bs) + Len(u))), due \union more, n)
      /\ Grows(bs, e)
  BY ONLY <1>0, <1>1, <1>4, <1>5, Extends
<1>10. ((Len(bs) + 1)..(Len(bs) + Len(u))) = new
  <2>1. ((l + 1)..(l + 3)) = {l + 1, l + 2, l + 3}
    BY ONLY <1>0, <1>7
  <2> QED
    BY <1>0, <1>4, <2>1
<1>11. Graph(e, open \union new, due \union more, n)
  BY <1>0, <1>9, <1>10
<1>12. c = With(e, p, j)
  <2>1. c = With(bs, p, j) \o u
    BY <1>0 DEF u, a1, a2, a3
  <2>2. With(bs, p, j) \o u = With(bs \o u, p, j)
    BY <1>0, <1>4, <1>6, <1>7, WithJoin
  <2> QED
    BY <1>0, <2>1, <2>2
<1> HIDE DEF e
<1>13. Shape(e) /\ p \in 1..Len(e) /\ p \notin new /\ p \in open \union new
        /\ l + 1 \in 1..Len(e) /\ l + 2 \in 1..Len(e) /\ l + 3 \in 1..Len(e)
  <2>1. Shape(e)
    BY <1>0, <1>11 DEF Graph
  <2>2. p \in 1..l
    BY <1>0, <1>6
  <2> QED
    BY <1>0, <1>3, <1>7, <1>8, <2>1, <2>2
<1>14. AddsOne(e, c, p, j)
  BY ONLY <1>12, <1>13, WithAdds DEF AddsOne
<1>15. \A t \in ToSet(j.to) : /\ t \in 1..Len(e) /\ e[t].fn = e[p].fn
                              /\ e[t].inserted \/ t \in due \union more
  BY <1>0, <1>2, <1>8, <1>13
<1>16. Graph(c, (open \union new) \ {p}, due \union more, n)
  <2> DEFINE o == open \union new
             w == due \union more
  <2>1. Graph(e, o, w, n) /\ p \in o
          /\ \A t \in ToSet(j.to) : /\ t \in 1..Len(e) /\ e[t].fn = e[p].fn
                                    /\ e[t].inserted \/ t \in w
    BY <1>0, <1>11, <1>13, <1>15
  <2> HIDE DEF o, w
  <2>2. Graph(c, o \ {p}, w, n)
    BY ONLY <1>14, <2>1, <1>0, AddsJump
  <2> QED
    BY <1>0, <2>2 DEF o, w
<1>17. (open \union new) \ {p} = OwedBy(R) \union new
  BY <1>0, <1>1, <1>13 DEF open
<1>18. Sound(c, f, s) /\ Grows(e, c)
  <2>1. Sound(e, f, s)
    BY ONLY <1>0, <1>1, <1>9, SoundGrow
  <2>2. Grows(e, c)
    BY ONLY <1>0, <1>14, AddsGrows DEF AddsOne
  <2> QED
    BY ONLY <1>0, <2>1, <2>2, SoundGrow
<1>19. /\ Len(c) = l + 3 /\ c[l + 1].fn = f /\ c[l + 2].fn = f /\ c[l + 3].fn = f
       /\ c[l + 1].inserted /\ c[l + 2].inserted = i2
  <2>1. Len(c) = Len(e) /\ \A k \in 1..Len(e) : c[k].fn = e[k].fn /\ c[k].inserted = e[k].inserted
    BY <1>0, <1>14 DEF AddsOne, Adds
  <2> QED
    <3>1. c[l + 1].fn = e[l + 1].fn /\ c[l + 1].inserted = e[l + 1].inserted
      BY ONLY <1>13, <2>1
    <3>2. c[l + 2].fn = e[l + 2].fn /\ c[l + 2].inserted = e[l + 2].inserted
      BY ONLY <1>13, <2>1
    <3>3. c[l + 3].fn = e[l + 3].fn
      BY ONLY <1>13, <2>1
    <3>4. Len(c) = l + 3
      BY ONLY <1>8, <2>1
    <3> QED
      BY ONLY <1>2, <1>8, <3>1, <3>2, <3>3, <3>4
<1>20. \A b \in new : b \notin OwedBy(R)
  <2>1. \A b \in OwedBy(R) : b \in 1..Len(bs)
    BY <1>0, <1>1 DEF Graph, Joined, open
  <2>2. \A b \in 1..Len(bs) : b \notin new
    BY <1>0, <1>7
  <2> QED
    BY <1>0, <2>1, <2>2
<1>21. Within(c, f, s, fr, gen, new, more)
  BY <1>0, <1>1, <1>16, <1>17, <1>18, <1>20 DEF Within, R, due, n
<1> QED
  BY <1>0, <1>7, <1>19, <1>21 DEF Created

(* The basic blocks x owes are among O, those it aims at are created.      *)
Places(bs, f, s, x, O, D, P, E) ==
  /\ ~AtTop(x) /\ ~InBlock(x) /\ x.do # "end function"
  /\ x.do = "leave block" => x.begin # x.end /\ x.old \in Nat /\ x.old >= 3
  /\ \A b \in Owed(x) \union Aims(x) : b \in 1..Len(bs) /\ bs[b].fn = f
  /\ \A b \in Aims(x) : bs[b].inserted \/ b \in DueBy(Entries(s))
  /\ O = P \union Owed(x) /\ D \subseteq E \union Due(x)
  /\ \A b \in P : b \notin Owed(x)

LEMMA PutsOwing ==
  ASSUME NEW bs, NEW f, NEW s, NEW fr, NEW gen, NEW O, NEW D, Within(bs, f, s, fr, gen, O, D),
         NEW x, NEW P, NEW E, Places(bs, f, s, x, O, D, P, E)
  PROVE  Within(bs, f, Cons(x, s), fr, gen, P, E) /\ IsSeq(Cons(x, s))
<1>1. Inside(Entries(s)) /\ (\A b \in O : b \notin OwedBy(Entries(s))) /\ IsSeq(s)
  BY DEF Within, Sound
<1>2. /\ x.do # "end function" /\ O = P \union Owed(x) /\ D \subseteq E \union Due(x)
      /\ \A b \in P : b \notin Owed(x)
  BY DEF Places
<1>3. Fits(bs, f, x, Entries(s))
  BY <1>1 DEF Fits, Places
<1>4. Within(bs, f, Cons(x, s), fr, gen, P, E)
  BY ONLY Within(bs, f, s, fr, gen, O, D), <1>2, <1>3, Puts
<1>5. IsSeq(Cons(x, s))
  BY <1>4 DEF Within, Sound
<1> QED
  BY <1>4, <1>5

LEMMA PlainDue ==
  ASSUME NEW x, Plain(x), NEW s, IsSeq(s)
  PROVE  DueBy(Entries(Cons(x, s))) = DueBy(Entries(s))
<1>1. DueBy(Entries(Cons(x, s))) = Due(x) \union DueBy(Entries(s))
  BY ConsOwed
<1>2. Due(x) = {}
  BY DEF Plain
<1> QED
  BY <1>1, <1>2

(* An expression that creates three basic blocks goes on in the first; its *)
(* two parts y and z are done before x and w, which insert the others.     *)
Weave(bs, x, w) ==
  /\ Owed(x) = {Len(bs) + 2} /\ Due(x) = {Len(bs) + 2} /\ Aims(x) = {Len(bs) + 3}
  /\ Owed(w) = {Len(bs) + 3} /\ Due(w) = {Len(bs) + 3} /\ Aims(w) \subseteq {Len(bs) + 1}
  /\ ~AtTop(x) /\ ~InBlock(x) /\ x.do # "end function" /\ x.do # "leave block"
  /\ ~AtTop(w) /\ ~InBlock(w) /\ w.do # "end function" /\ w.do # "leave block"

LEMMA Weaves ==
  ASSUME NEW bs, NEW p, NEW s, NEW fr, NEW gen, InFunction(bs, p, s, fr, gen),
         NEW j, NEW i2, NEW i3, NEW c, Creating(bs, p, j, i2, i3, c),
         Ends(bs, j, {Len(bs) + 2, Len(bs) + 3}),
         NEW x, NEW w, Weave(bs, x, w),
         NEW y, Plain(y), ~InBlock(y), NEW z, Plain(z), ~InBlock(z)
  PROVE  InFunction(c, Len(bs) + 1, Cons(y, Cons(x, Cons(z, Cons(w, s)))), fr, gen)
<1> DEFINE b1 == Len(bs) + 1
           b2 == Len(bs) + 2
           b3 == Len(bs) + 3
           f == bs[p].fn
           l == Len(bs)
<1>1. IsSeq(s)
  BY DEF InFunction, Sound
<1>2. Ends(bs, j, {b2, b3})
  OBVIOUS
<1>3. /\ Owed(x) = {b2} /\ Due(x) = {b2} /\ Aims(x) = {b3}
      /\ Owed(w) = {b3} /\ Due(w) = {b3} /\ Aims(w) \subseteq {b1}
      /\ ~AtTop(x) /\ ~InBlock(x) /\ x.do # "end function" /\ x.do # "leave block"
      /\ ~AtTop(w) /\ ~InBlock(w) /\ w.do # "end function" /\ w.do # "leave block"
  BY DEF Weave
<1>4. l = Len(bs) /\ b1 = l + 1 /\ b2 = l + 2 /\ b3 = l + 3 /\ f = bs[p].fn
  OBVIOUS
<1> HIDE DEF b1, b2, b3, f, l
<1>5. /\ Within(c, f, s, fr, gen, {b1, b2, b3}, {b2, b3})
      /\ l \in Nat /\ Len(c) = l + 3 /\ c[b1].fn = f /\ c[b2].fn = f /\ c[b3].fn = f
      /\ c[b1].inserted
  <2> DEFINE more == {b2, b3}
  <2>1. Ends(bs, j, more)
    BY <1>2
  <2> HIDE DEF more
  <2>2. Created(bs, p, s, fr, gen, i2, more, c)
    BY ONLY InFunction(bs, p, s, fr, gen), Creating(bs, p, j, i2, i3, c), <2>1, Creates
  <2> QED
    BY <1>4, <2>2 DEF more, Created
<1>6. b1 \in 1..Len(c) /\ b2 \in 1..Len(c) /\ b3 \in 1..Len(c) /\ b1 # b2 /\ b1 # b3 /\ b2 # b3
  BY <1>4, <1>5
<1>7. /\ Within(c, f, Cons(w, s), fr, gen, {b1, b2}, {b2}) /\ IsSeq(Cons(w, s))
      /\ DueBy(Entries(Cons(w, s))) = {b3} \union DueBy(Entries(s))
  <2> DEFINE O == {b1, b2, b3}
             D == {b2, b3}
             P == {b1, b2}
             E == {b2}
  <2>1. Within(c, f, s, fr, gen, O, D)
    BY <1>5
  <2>2. Places(c, f, s, w, O, D, P, E)
    BY <1>3, <1>5, <1>6 DEF Places
  <2> HIDE DEF O, D, P, E
  <2>3. Within(c, f, Cons(w, s), fr, gen, P, E) /\ IsSeq(Cons(w, s))
    BY ONLY <2>1, <2>2, PutsOwing
  <2>4. DueBy(Entries(Cons(w, s))) = Due(w) \union DueBy(Entries(s))
    BY <1>1, ConsOwed
  <2> QED
    BY <1>3, <2>3, <2>4 DEF P, E
<1>8. /\ Within(c, f, Cons(z, Cons(w, s)), fr, gen, {b1, b2}, {b2})
      /\ DueBy(Entries(Cons(z, Cons(w, s)))) = {b3} \union DueBy(Entries(s))
  <2> DEFINE t == Cons(w, s)
             P == {b1, b2}
             E == {b2}
  <2>1. Within(c, f, t, fr, gen, P, E) /\ IsSeq(t)
    BY <1>7
  <2> HIDE DEF t, P, E
  <2>2. Within(c, f, Cons(z, t), fr, gen, P, E)
    BY ONLY Plain(z), ~InBlock(z), <2>1, PutsPlain
  <2>3. DueBy(Entries(Cons(z, t))) = DueBy(Entries(t))
    BY ONLY Plain(z), <2>1, PlainDue
  <2> QED
    BY <1>7, <2>2, <2>3 DEF t, P, E
<1>9. Within(c, f, Cons(x, Cons(z, Cons(w, s))), fr, gen, {b1}, {})
  <2> DEFINE t == Cons(z, Cons(w, s))
             O == {b1, b2}
             D == {b2}
             P == {b1}
             E == {}
  <2>1. Within(c, f, t, fr, gen, O, D)
    BY <1>8
  <2>2. Places(c, f, t, x, O, D, P, E)
    BY <1>3, <1>5, <1>6, <1>8 DEF Places
  <2> HIDE DEF t, O, D, P, E
  <2>3. Within(c, f, Cons(x, t), fr, gen, P, E)
    BY ONLY <2>1, <2>2, PutsOwing
  <2> QED
    BY <2>3 DEF t, P, E
<1>10. Within(c, c[b1].fn, Cons(y, Cons(x, Cons(z, Cons(w, s)))), fr, gen, {b1}, {})
  <2> DEFINE t == Cons(x, Cons(z, Cons(w, s)))
             P == {b1}
             E == {}
  <2>1. Within(c, f, t, fr, gen, P, E)
    BY <1>9
  <2> HIDE DEF t, P, E
  <2>2. Within(c, f, Cons(y, t), fr, gen, P, E)
    BY ONLY Plain(y), ~InBlock(y), <2>1, PutsPlain
  <2> QED
    BY <1>5, <2>2 DEF t, P, E
<1>11. InFunction(c, b1, Cons(y, Cons(x, Cons(z, Cons(w, s)))), fr, gen)
  <2> DEFINE t == Cons(y, Cons(x, Cons(z, Cons(w, s))))
  <2>1. Within(c, c[b1].fn, t, fr, gen, {b1}, {})
    BY <1>10
  <2> HIDE DEF t
  <2>2. InFunction(c, b1, t, fr, gen)
    BY ONLY <2>1, WithinIs
  <2> QED
    BY <2>2 DEF t
<1> QED
  BY <1>11 DEF b1

-----------------------------------------------------------------------------
(* The expressions that create basic blocks.                               *)
LEMMA GenWhileWires ==
  ASSUME IInv, WiredInv, GenWhile
  PROVE  WiredInv'
<1> DEFINE b1 == Len(blocks) + 1
           b2 == Len(blocks) + 2
           b3 == Len(blocks) + 3
           j == Br(b1)
           y == Gen(Kid(1))
           x == [do |-> "loop body", body |-> b2, post |-> b3]
           z == Gen(Kid(2))
           w == [do |-> "post while", cond |-> b1, post |-> b3]
           rest == Tail(todo)
           c == blocks'
           no == FALSE
<1>1. /\ Generating("While")
      /\ c = With(blocks, ip, j) \o <<BasicBlock(Fn, TRUE), BasicBlock(Fn, no), BasicBlock(Fn, no)>>
      /\ ip' = b1 /\ todo' = <<y, x, z, w>> \o rest
      /\ SameScope /\ UNCHANGED <<generated, errors>>
  BY DEF GenWhile, Go, SameRest, SameNames, New
<1>2. /\ Runs /\ todo # <<>> /\ IsSeq(rest) /\ Plain(Instr) /\ T \in Trees /\ T.node = "While"
  BY <1>1, GeneratingIs DEF ExprNode
<1>3. Plain(y) /\ ~InBlock(y) /\ Plain(z) /\ ~InBlock(z)
  <2>1. T.node \in {"Assign", "While"}
    BY <1>2
  <2>2. Kid(1) \in Exprs /\ Kid(2) \in Exprs
    BY <1>2, <2>1, TwoKids DEF Kid
  <2> QED
    BY <2>2, GenExpr
<1>4. x.do = "loop body" /\ x.body = b2 /\ x.post = b3 /\ w.do = "post while" /\ w.cond = b1 /\ w.post = b3
  OBVIOUS
<1> SUFFICES ASSUME errors = 0
             PROVE  WiredInv'
  BY <1>1 DEF WiredInv
<1>5. state = Len(frames) /\ InFunction(blocks, ip, todo, frames, generated)
  BY <1>2, Inward DEF Plain
<1>6. InFunction(blocks, ip, rest, frames, generated)
  BY <1>2, <1>5, PopPlain DEF Instr
<1>7. Ends(blocks, j, {b2, b3})
  BY OneTarget DEF Ends
<1>8. todo' = Cons(y, Cons(x, Cons(z, Cons(w, rest))))
  <2>1. IsSeq(rest) /\ todo' = <<y, x, z, w>> \o rest
    BY <1>1, <1>2
  <2> HIDE DEF y, x, z, w, rest
  <2>2. <<y, x, z, w>> \o rest = Cons(y, Cons(x, Cons(z, Cons(w, rest))))
    BY ONLY <2>1, Tuple4
  <2> QED
    BY ONLY <2>1, <2>2
<1>9. Weave(blocks, x, w)
  <2> HIDE DEF x, w
  <2> QED
    BY <1>4, LoopBodyOwes, PostWhileOwes DEF Weave
<1> HIDE DEF y, x, z, w, rest, j, c, no
<1>10. Creating(blocks, ip, j, no, no, c)
  BY <1>1 DEF Creating, Fn
<1>11. InFunction(c, b1, todo', frames, generated)
  BY ONLY <1>3, <1>6, <1>7, <1>8, <1>9, <1>10, Weaves
<1>12. InFunction(blocks', ip', todo', frames', generated') /\ state' = Len(frames')
  BY <1>1, <1>5, <1>11 DEF SameScope, c
<1> QED
  BY <1>12, StaysInside

LEMMA IfTrueWires ==
  ASSUME IInv, WiredInv, IfTrue
  PROVE  WiredInv'
<1> DEFINE v == n_allocas + 1
           b1 == Len(blocks) + 1
           b2 == Len(blocks) + 2
           b3 == Len(blocks) + 3
           j == CondBr(Top, b1, b2)
           y == Gen(Kid(2))
           x == [do |-> "if false", no |-> b2, post |-> b3, result |-> v]
           z == IF Len(T.kids) = 3 THEN Gen(Kid(3)) ELSE Then("no value")
           w == [do |-> "post if", post |-> b3, result |-> v]
           name == "if_result"
           bs == Allocated(blocks, DeclarationsBlock, v, name)
           rest == Tail(todo)
           c == blocks'
           no == FALSE
<1>1. Doing("if true") /\ "if true" \in PlainDos
  BY DEF IfTrue, PlainDos
<1>2. /\ Runs /\ todo # <<>> /\ IsSeq(rest) /\ Plain(Instr) /\ state = Len(frames)
      /\ Refers(Len(blocks), n_allocas, Instr) /\ Instr.do = "if true"
  BY <1>1, DoingPlain, AtLook
<1>3. CASE Top = Null
  <2>1. Crash("null operand")
    BY <1>3 DEF IfTrue
  <2> QED
    BY <2>1, CrashWires
<1>4. CASE Top # Null
  <2>1. /\ c = With(bs, ip, j) \o <<BasicBlock(Fn, TRUE), BasicBlock(Fn, no), BasicBlock(Fn, no)>>
        /\ ip' = b1 /\ SameScope /\ UNCHANGED <<generated, errors>>
        /\ todo' = ((<<y, x>> \o (IF Len(T.kids) = 3 THEN <<Gen(Kid(3))>> ELSE <<Then("no value")>>))
                     \o <<w>>) \o rest
    BY <1>4 DEF IfTrue, Go, SameRest, SameNames, New
  <2>2. todo' = ((<<y, x>> \o <<z>>) \o <<w>>) \o rest
    BY <2>1
  <2>3. T \in Exprs /\ T.node = "If"
    BY <1>2 DEF Refers, T
  <2>4. Plain(y) /\ ~InBlock(y) /\ Plain(z) /\ ~InBlock(z)
    <3>1. T \in Trees /\ T.node # "Block" /\ Len(T.kids) \in {2, 3}
      BY <2>3, KidsAre DEF Exprs
    <3> DEFINE l == Len(T.kids)
    <3>2. l \in {2, 3}
      BY <3>1
    <3> HIDE DEF l
    <3>3. 2 \in Nat /\ 3 \in Nat /\ 1 <= 2 /\ 1 <= 3 /\ 2 <= l /\ (l = 3 => 3 <= l)
      BY ONLY <3>2
    <3>4. Kid(2) \in Exprs /\ (l = 3 => Kid(3) \in Exprs)
      BY <3>1, <3>3, KidIs DEF Kid, l
    <3>5. Plain(y) /\ ~InBlock(y)
      BY <3>4, GenExpr
    <3>6. Plain(z) /\ ~InBlock(z)
      <4>1. CASE l = 3
        BY <3>4, <4>1, GenExpr DEF l
      <4>2. CASE l # 3
        <5>1. "no value" \in PlainDos /\ z.do = "no value"
          BY <4>2 DEF l, PlainDos, Then
        <5> HIDE DEF z
        <5> QED
          BY ONLY <5>1, PlainIs
      <4> QED
        BY <4>1, <4>2
    <3> QED
      BY <3>5, <3>6
  <2>5. x.do = "if false" /\ x.no = b2 /\ x.post = b3 /\ w.do = "post if" /\ w.post = b3
    OBVIOUS
  <2> SUFFICES ASSUME errors = 0
               PROVE  WiredInv'
    BY <2>1 DEF WiredInv
  <2>6. state = Len(frames) /\ InFunction(blocks, ip, todo, frames, generated)
    BY <1>2, Inward DEF Plain
  <2>7. InFunction(blocks, ip, rest, frames, generated)
    BY <1>2, <2>6, PopPlain DEF Instr
  <2>8. DeclarationsBlock \in OwedBy(Entries(rest))
    BY <2>6, <2>7, Facts, DeclsOwed DEF DeclarationsBlock
  <2>10. todo' = Cons(y, Cons(x, Cons(z, Cons(w, rest))))
    <3>1. IsSeq(rest)
      BY <1>2
    <3> HIDE DEF y, x, z, w, rest
    <3>2. ((<<y, x>> \o <<z>>) \o <<w>>) \o rest = Cons(y, Cons(x, Cons(z, Cons(w, rest))))
      BY ONLY <3>1, TwoOneOne
    <3> QED
      BY ONLY <2>2, <3>2
  <2> HIDE DEF y, x, z, w, rest, j, c, no, name
  <2>11. InFunction(bs, ip, rest, frames, generated) /\ Len(bs) = Len(blocks) /\ bs[ip].fn = Fn
    <3> HIDE DEF bs
    <3>1. bs = Allocated(blocks, DeclarationsBlock, v, name)
      BY DEF bs
    <3> QED
      BY <2>7, <2>8, <3>1, AllocatesInside DEF Fn
  <2> HIDE DEF bs
  <2>12. Weave(bs, x, w)
    BY <2>5, <2>11, IfFalseOwes, PostIfOwes DEF Weave
  <2>13. Ends(bs, j, {Len(bs) + 2, Len(bs) + 3})
    BY <2>11, TwoTargets DEF Ends, j
  <2>14. Creating(bs, ip, j, no, no, c)
    BY <2>1, <2>11 DEF Creating
  <2>15. InFunction(c, Len(bs) + 1, Cons(y, Cons(x, Cons(z, Cons(w, rest)))), frames, generated)
    BY ONLY <2>4, <2>11, <2>12, <2>13, <2>14, Weaves
  <2>16. InFunction(blocks', ip', todo', frames', generated') /\ state' = Len(frames')
    BY <2>1, <2>6, <2>10, <2>11, <2>15 DEF SameScope, c
  <2> QED
    BY <2>16, StaysInside
<1> QED
  BY <1>3, <1>4

(* A block is entered: its frame has the first basic block of the function.*)
LEMMA FramedMore ==
  ASSUME NEW R, NEW fr, Framed(R, fr), Len(fr) \in Nat, NEW fr2, Len(fr2) = Len(fr) + 1,
         \A k \in 1..Len(fr) : fr2[k] = fr[k],
         fr2[Len(fr) + 1].declarations_block = fr[Len(fr)].declarations_block
  PROVE  Framed(R, fr2)
<1> DEFINE l == Len(fr)
<1>1. l \in Nat /\ l >= 3
  BY DEF Framed
<1>2. Len(fr2) = l + 1 /\ (\A k \in 1..l : fr2[k] = fr[k])
        /\ fr2[l + 1].declarations_block = fr[l].declarations_block
  OBVIOUS
<1>3. \A x \in R : x.do = "end function" =>
        x.old = 2 /\ \A k \in 3..l : fr[k].declarations_block = x.decls
  BY DEF Framed
<1> HIDE DEF l
<1>4. l \in 3..l /\ l + 1 >= 3 /\ \A k \in 3..(l + 1) : k = l + 1 \/ (k \in 1..l /\ k \in 3..l)
  BY ONLY <1>1
<1>5. ASSUME NEW x \in R, x.do = "end function", NEW k \in 3..(l + 1)
      PROVE  fr2[k].declarations_block = x.decls
  <2>1. CASE k = l + 1
    BY <1>2, <1>3, <1>4, <1>5, <2>1
  <2>2. CASE k # l + 1
    BY <1>2, <1>3, <1>4, <1>5, <2>2
  <2> QED
    BY <2>1, <2>2
<1> QED
  BY <1>2, <1>3, <1>4, <1>5 DEF Framed

LEMMA Blocked ==
  ASSUME NEW bs, NEW p, NEW s, NEW fr, NEW gen, InFunction(bs, p, s, fr, gen),
         NEW j, NEW i2, NEW i3, NEW c, Creating(bs, p, j, i2, i3, c), i2,
         Ends(bs, j, {Len(bs) + 3}),
         NEW x, x.do = "leave block", x.begin = Len(bs) + 1, x.entry = Len(bs) + 2,
         x.end = Len(bs) + 3, x.old \in Nat, x.old >= 3
  PROVE  InFunction(c, Len(bs) + 2, Cons(x, s), fr, gen) /\ BlockIn(Entries(Cons(x, s)))
<1> DEFINE b1 == Len(bs) + 1
           b2 == Len(bs) + 2
           b3 == Len(bs) + 3
           f == bs[p].fn
           l == Len(bs)
<1>1. IsSeq(s)
  BY DEF InFunction, Sound
<1>2. Ends(bs, j, {b3})
  OBVIOUS
<1>3. Owed(x) = {b1, b3} /\ Due(x) = {b3} /\ Aims(x) = {b2} /\ ~AtTop(x) /\ ~InBlock(x)
        /\ x.do # "end function" /\ x.begin = b1 /\ x.end = b3
  BY LeaveBlockOwes
<1>4. l = Len(bs) /\ b1 = l + 1 /\ b2 = l + 2 /\ b3 = l + 3 /\ f = bs[p].fn
  OBVIOUS
<1> HIDE DEF b1, b2, b3, f, l
<1>5. /\ Within(c, f, s, fr, gen, {b1, b2, b3}, {b3})
      /\ l \in Nat /\ Len(c) = l + 3 /\ c[b1].fn = f /\ c[b2].fn = f /\ c[b3].fn = f
      /\ c[b2].inserted
  <2> DEFINE more == {b3}
  <2>1. Ends(bs, j, more)
    BY <1>2
  <2> HIDE DEF more
  <2>2. Created(bs, p, s, fr, gen, i2, more, c)
    BY ONLY InFunction(bs, p, s, fr, gen), Creating(bs, p, j, i2, i3, c), <2>1, Creates
  <2> QED
    BY <1>4, <2>2 DEF more, Created
<1>6. b1 \in 1..Len(c) /\ b2 \in 1..Len(c) /\ b3 \in 1..Len(c) /\ b1 # b2 /\ b1 # b3 /\ b2 # b3
  <2>1. l \in Nat /\ Len(c) = l + 3
    BY <1>5
  <2> QED
    BY ONLY <1>4, <2>1
<1>7. Within(c, c[b2].fn, Cons(x, s), fr, gen, {b2}, {})
  <2> DEFINE O == {b1, b2, b3}
             D == {b3}
             P == {b2}
             E == {}
  <2>1. Within(c, f, s, fr, gen, O, D)
    BY <1>5
  <2>2. Places(c, f, s, x, O, D, P, E)
    BY <1>3, <1>5, <1>6 DEF Places
  <2> HIDE DEF O, D, P, E
  <2>3. Within(c, f, Cons(x, s), fr, gen, P, E)
    BY ONLY <2>1, <2>2, PutsOwing
  <2> QED
    BY <1>5, <2>3 DEF P, E
<1>8. InFunction(c, b2, Cons(x, s), fr, gen)
  <2> DEFINE t == Cons(x, s)
  <2>1. Within(c, c[b2].fn, t, fr, gen, {b2}, {})
    BY <1>7
  <2> HIDE DEF t
  <2>2. InFunction(c, b2, t, fr, gen)
    BY ONLY <2>1, WithinIs
  <2> QED
    BY <2>2 DEF t
<1> QED
  BY <1>1, <1>8, ConsOwed DEF b2

LEMMA EnterBlockWires ==
  ASSUME IInv, WiredInv, EnterBlock
  PROVE  WiredInv'
<1> DEFINE l == Len(blocks)
           j == Br(l + 1)
           frame == Len(frames) + 1
           r == Frame(Named, DeclarationsBlock)
           result == IF T.result = <<>> THEN <<Then("no value")>>
                     ELSE <<Gen(T.result[1]), Catch("result", frame)>>
           t == TryEach(T.kids)
           x == [do |-> "leave block", begin |-> l + 1, entry |-> l + 2, end |-> l + 3,
                 old |-> state]
           rest == Tail(todo)
           c == blocks'
           fr == frames'
           yes == TRUE
           no == FALSE
<1>1. /\ Generating("Block")
      /\ c = With(blocks, ip, j) \o <<BasicBlock(Fn, yes), BasicBlock(Fn, yes), BasicBlock(Fn, no)>>
      /\ ip' = l + 2 /\ fr = Append(frames, r) /\ state' = frame
      /\ todo' = ((<<t>> \o result) \o <<x>>) \o rest
      /\ UNCHANGED <<generated, errors>>
  BY DEF EnterBlock, Go, SameRest, SameNames, New
<1>2. /\ Runs /\ todo # <<>> /\ IsSeq(rest) /\ Plain(Instr) /\ T \in Trees /\ T.node = "Block"
  BY <1>1, GeneratingIs DEF ExprNode
<1> SUFFICES ASSUME errors = 0
             PROVE  WiredInv'
  BY <1>1 DEF WiredInv
<1>3. state = Len(frames) /\ InFunction(blocks, ip, todo, frames, generated)
  BY <1>2, Inward DEF Plain
<1>4. InFunction(blocks, ip, rest, frames, generated)
  BY <1>2, <1>3, PopPlain DEF Instr
<1>5. Len(fr) = Len(frames) + 1 /\ (\A k \in 1..Len(frames) : fr[k] = frames[k])
        /\ fr[Len(frames) + 1] = r /\ Len(frames) \in Nat
  <2> DEFINE S == Scope(n_allocas)
  <2>1. frames \in Seq(S) /\ Len(frames) \in Nat
    BY Facts DEF Scoped
  <2> HIDE DEF S, r, fr
  <2>2. IsSeq(frames)
    BY <2>1, SeqIs
  <2>3. fr = Append(frames, r)
    BY <1>1
  <2> QED
    BY ONLY <2>1, <2>2, <2>3, AppendIs
<1>6. r.declarations_block = frames[Len(frames)].declarations_block
  BY <1>3 DEF Frame, DeclarationsBlock
<1>7. Framed(Entries(rest), frames)
  BY <1>4 DEF InFunction
<1>8. Framed(Entries(rest), fr) /\ Len(frames) >= 3
  <2> DEFINE R == Entries(rest)
  <2>1. /\ Framed(R, frames) /\ Len(frames) \in Nat /\ Len(fr) = Len(frames) + 1
        /\ (\A k \in 1..Len(frames) : fr[k] = frames[k])
        /\ fr[Len(frames) + 1].declarations_block = frames[Len(frames)].declarations_block
    BY <1>5, <1>6, <1>7
  <2> HIDE DEF R, fr
  <2>2. Framed(R, fr)
    BY ONLY <2>1, FramedMore
  <2> QED
    BY <2>1, <2>2 DEF Framed, R
<1>9. InFunction(blocks, ip, rest, fr, generated)
  BY <1>4, <1>8 DEF InFunction
<1>10. Ends(blocks, j, {l + 3})
  BY OneTarget DEF Ends
<1>11. x.do = "leave block" /\ x.begin = Len(blocks) + 1 /\ x.entry = Len(blocks) + 2
        /\ x.end = Len(blocks) + 3 /\ x.old \in Nat /\ x.old >= 3
  BY <1>3, <1>5, <1>8
<1>12. t.do = "try each" /\ "try each" \in PlainBlockDos
  BY DEF TryEach, PlainBlockDos
<1> DEFINE u == Cons(x, rest)
<1>13. InFunction(c, l + 2, u, fr, generated) /\ BlockIn(Entries(u))
  <2>1. Creating(blocks, ip, j, yes, no, c)
    BY <1>1 DEF Creating, Fn
  <2>2. yes
    OBVIOUS
  <2> HIDE DEF x, rest, j, c, yes, no, fr
  <2>3. InFunction(c, Len(blocks) + 2, Cons(x, rest), fr, generated) /\ BlockIn(Entries(Cons(x, rest)))
    BY ONLY <1>9, <1>10, <1>11, <2>1, <2>2, Blocked
  <2> QED
    BY <2>3
<1>14. IsSeq(u)
  BY <1>13 DEF InFunction, Sound
<1>15. /\ IsSeq(result) /\ IsSeq(result \o u)
       /\ InFunction(c, l + 2, result \o u, fr, generated) /\ BlockIn(Entries(result \o u))
  <2> DEFINE b == l + 2
  <2>1. InFunction(c, b, u, fr, generated) /\ BlockIn(Entries(u)) /\ IsSeq(u)
    BY <1>13, <1>14
  <2> HIDE DEF u, c, fr, b
  <2>2. CASE T.result = <<>>
    <3> DEFINE y == Then("no value")
    <3>1. "no value" \in PlainDos /\ y.do = "no value"
      BY DEF PlainDos, Then
    <3>2. result = <<y>>
      BY <2>2
    <3> HIDE DEF y
    <3>3. Plain(y) /\ ~InBlock(y)
      BY ONLY <3>1, PlainIs
    <3>4. /\ InFunction(c, b, Cons(y, u), fr, generated) /\ IsSeq(Cons(y, u))
          /\ BlockIn(Entries(Cons(y, u)))
      BY ONLY <2>1, <3>3, InPush
    <3>5. IsSeq(<<y>>) /\ <<y>> \o u = Cons(y, u)
      BY ONLY <2>1, Tuple1
    <3> QED
      BY <3>2, <3>4, <3>5 DEF b
  <2>3. CASE T.result # <<>>
    <3>1. PICK e \in Exprs : T.result = <<e>>
      BY <1>2, <2>3, KidsAre
    <3> DEFINE y == Gen(e)
               k == Catch("result", frame)
    <3>2. result = <<y, k>>
      <4>1. T.result[1] = e
        BY <3>1
      <4> QED
        BY <2>3, <4>1
    <3>3. k.do = "catch" /\ k.of # "function"
      BY DEF Catch
    <3>4. Plain(y) /\ ~InBlock(y)
      BY GenExpr
    <3> HIDE DEF y, k
    <3>5. Plain(k) /\ ~InBlock(k)
      BY ONLY <3>3, PlainCatch
    <3>6. InFunction(c, b, Cons(k, u), fr, generated) /\ BlockIn(Entries(Cons(k, u)))
      BY ONLY <2>1, <3>5, InPush
    <3>7. /\ InFunction(c, b, Cons(y, Cons(k, u)), fr, generated) /\ IsSeq(Cons(y, Cons(k, u)))
          /\ BlockIn(Entries(Cons(y, Cons(k, u))))
      BY ONLY <3>4, <3>6, InPush
    <3>8. IsSeq(<<y, k>>) /\ <<y, k>> \o u = Cons(y, Cons(k, u))
      BY ONLY <2>1, Tuple2
    <3> QED
      BY <3>2, <3>7, <3>8 DEF b
  <2> QED
    BY <2>2, <2>3
<1> DEFINE q == result \o u
<1>16. InFunction(c, l + 2, Cons(t, q), fr, generated)
  <2> DEFINE b == l + 2
  <2>1. InFunction(c, b, q, fr, generated) /\ BlockIn(Entries(q))
    BY <1>15
  <2> HIDE DEF q, c, fr, b, t
  <2>2. Plain(t)
    BY ONLY <1>12, PlainBlockIs
  <2>3. InFunction(c, b, Cons(t, q), fr, generated)
    BY ONLY <2>1, <2>2, InPush
  <2> QED
    BY <2>3 DEF b
<1>17. todo' = Cons(t, q)
  <2>1. IsSeq(rest) /\ IsSeq(result) /\ IsSeq(q)
    BY <1>2, <1>15
  <2>2. todo' = ((<<t>> \o result) \o <<x>>) \o rest /\ q = result \o Cons(x, rest)
    BY <1>1
  <2> HIDE DEF t, result, x, rest, q
  <2>3. IsSeq(<<t>>) /\ IsSeq(<<x>>) /\ <<x>> \o rest = Cons(x, rest) /\ <<t>> \o q = Cons(t, q)
    BY ONLY <2>1, Tuple1
  <2>4. IsSeq(<<t>> \o result) /\ IsSeq(<<x>> \o rest)
    BY ONLY <2>1, <2>3, JoinIs
  <2>5. ((<<t>> \o result) \o <<x>>) \o rest = (<<t>> \o result) \o (<<x>> \o rest)
    BY ONLY <2>1, <2>3, <2>4, JoinsIs
  <2>6. (<<t>> \o result) \o (<<x>> \o rest) = <<t>> \o (result \o (<<x>> \o rest))
    BY ONLY <2>1, <2>3, <2>4, JoinsIs
  <2> QED
    BY ONLY <2>2, <2>3, <2>5, <2>6
<1>18. InFunction(blocks', ip', todo', frames', generated') /\ state' = Len(frames')
  <2> HIDE DEF t, q, r, result, x, rest
  <2> QED
    BY <1>1, <1>5, <1>16, <1>17
<1> QED
  BY <1>18, StaysInside

-----------------------------------------------------------------------------
(* The steps between functions.                                            *)
LEMMA NewBlockOf ==
  ASSUME NEW f, NEW i, NEW n \in Nat, NEW u, u = [k \in 1..n |-> u[k]],
         \A k \in 1..n : ~IsTerminator(u[k])
  PROVE  LET r == [BasicBlock(f, i) EXCEPT !.insts = u]
         IN  PlainBlock(r) /\ r.fn = f /\ r.inserted = i
<1> DEFINE e == <<>>
           q == [fn |-> f, inserted |-> i, insts |-> e]
           r == [q EXCEPT !.insts = u]
<1>1. [BasicBlock(f, i) EXCEPT !.insts = u] = r
  BY DEF BasicBlock
<1>2. r = [fn |-> f, inserted |-> i, insts |-> u]
  <2> HIDE DEF e
  <2> QED
    BY SMTT(30)
<1> HIDE DEF r
<1>3. r.fn = f /\ r.inserted = i /\ r.insts = u
  BY <1>2
<1>4. IsSeq(u) /\ Len(u) = n
  BY MapIs
<1>5. IsBlock(r)
  BY <1>2, <1>3, <1>4 DEF IsBlock
<1>6. Stops(u) = {}
  BY <1>4 DEF Stops
<1>7. Targets(u) = {}
  BY <1>6 DEF Targets
<1>8. RetsOf(u) = {}
  BY <1>4 DEF RetsOf, IsTerminator, Terminators
<1>9. PlainBlock(r)
  BY <1>3, <1>5, <1>6, <1>7, <1>8 DEF PlainBlock
<1> QED
  BY <1>1, <1>3, <1>9

(* A function begins with two basic blocks; its end owes the first.        *)
Opens(bs, f, d1, d2, x, fr, c) ==
  /\ c = bs \o <<d1, d2>>
  /\ PlainBlock(d1) /\ d1.fn = f /\ d1.inserted
  /\ PlainBlock(d2) /\ d2.fn = f /\ d2.inserted
  /\ x.do = "end function" /\ x.decls = Len(bs) + 1 /\ x.old = 2
  /\ Len(fr) = 3 /\ fr[3].declarations_block = Len(bs) + 1

Ready(bs, s, gen) ==
  /\ IsSeq(s) /\ (\A r \in Entries(s) : AtTop(r)) /\ IsFiniteSet(gen)
  /\ Graph(bs, {}, {}, Cardinality(gen) - 1)

LEMMA Begins ==
  ASSUME NEW bs, NEW s, NEW gen, Ready(bs, s, gen),
         NEW f, NEW d1, NEW d2, NEW x, NEW fr, NEW c, Opens(bs, f, d1, d2, x, fr, c)
  PROVE  InFunction(c, Len(bs) + 2, Cons(x, s), fr, gen)
<1> DEFINE l == Len(bs)
           p == l + 2
           u == <<d1, d2>>
           none == {}
           more == {}
           O == {l + 1}
           n == Cardinality(gen) - 1
<1>0. IsSeq(s) /\ (\A r \in Entries(s) : AtTop(r)) /\ IsFiniteSet(gen) /\ Graph(bs, none, none, n)
  BY DEF Ready
<1>1. IsSeq(bs) /\ l \in Nat
  BY <1>0, ListIs DEF Graph, Shape
<1>2. IsSeq(u) /\ Len(u) = 2 /\ u[1] = d1 /\ u[2] = d2
  <2>1. u \in Seq({d1, d2})
    OBVIOUS
  <2> QED
    BY <2>1, SeqIs
<1>3. c = bs \o u
  BY DEF Opens
<1> HIDE DEF u
<1>4. \A k \in 1..Len(u) : PlainBlock(u[k])
  <2>1. \A k \in 1..Len(u) : k = 1 \/ k = 2
    BY <1>2
  <2> QED
    BY <1>2, <2>1 DEF Opens
<1>5. Graph(bs, none, none, n)
  BY <1>0
<1> HIDE DEF none, more, n
<1>6. Graph(c, none \union ((Len(bs) + 1)..(Len(bs) + Len(u))), none \union more, n)
        /\ Grows(bs, c)
  BY ONLY <1>2, <1>3, <1>4, <1>5, Extends
<1>7. (Len(bs) + 1)..(Len(bs) + Len(u)) = {l + 1, p}
  BY <1>1, <1>2
<1>8. Len(c) = p /\ c[l + 1] = d1 /\ c[p] = d2
  <2>0. IsSeq(bs) /\ IsSeq(u)
    BY <1>1, <1>2
  <2>1. /\ Len(c) = Len(bs) + Len(u)
        /\ \A k \in 1..Len(u) : c[Len(bs) + k] = u[k]
    BY ONLY <1>3, <2>0, JoinIs
  <2>2. 1 \in 1..Len(u) /\ 2 \in 1..Len(u)
    BY <1>2
  <2> QED
    BY <1>2, <2>1, <2>2
<1> HIDE DEF p
<1>19. x.do = "end function"
  BY DEF Opens
<1>20. x.decls = l + 1
  BY DEF Opens
<1>21. x.old = 2
  BY DEF Opens
<1>22. Len(fr) = 3
  BY DEF Opens
<1>23. fr[3].declarations_block = l + 1
  BY DEF Opens
<1>9. /\ Owed(x) = O /\ Due(x) = {} /\ Aims(x) = {p}
      /\ ~AtTop(x) /\ ~InBlock(x) /\ x.do = "end function" /\ x.do # "leave block"
  <2>1. (l + 1) + 1 = p
    BY ONLY <1>1 DEF p
  <2>2. x.decls + 1 = p
    BY ONLY <1>20, <2>1
  <2> HIDE DEF l
  <2>3. /\ Owed(x) = {x.decls} /\ Due(x) = {} /\ Aims(x) = {x.decls + 1}
        /\ ~AtTop(x) /\ ~InBlock(x) /\ x.do # "leave block"
    BY ONLY <1>19, EndFunctionOwes
  <2> QED
    BY ONLY <1>19, <1>20, <2>2, <2>3
<1>10. OwedBy(Entries(s)) = {} /\ DueBy(Entries(s)) = {}
  BY <1>0, AllTop
<1>11. l + 1 \in 1..Len(c) /\ p \in 1..Len(c) /\ l + 1 # p
  BY <1>1, <1>8 DEF p
<1>12. c[l + 1].fn = f /\ c[p].fn = f /\ c[p].inserted
  <2>1. d1.fn = f /\ d2.fn = f /\ d2.inserted
    BY DEF Opens
  <2> QED
    BY ONLY <1>8, <2>1
<1>13. Fits(c, f, x, Entries(s))
  BY <1>0, <1>9, <1>10, <1>11, <1>12 DEF Fits
<1>14. Sound(c, c[p].fn, Cons(x, s))
  <2>1. Sound(c, f, s)
    BY <1>0, SoundTop
  <2> QED
    BY <1>0, <1>12, <1>13, <2>1, SoundCons
<1>15. /\ OwedBy(Entries(Cons(x, s))) = O /\ DueBy(Entries(Cons(x, s))) = {}
       /\ Inside(Entries(Cons(x, s)))
  <2> HIDE DEF O
  <2>1. /\ OwedBy(Entries(Cons(x, s))) = Owed(x) \union OwedBy(Entries(s))
        /\ DueBy(Entries(Cons(x, s))) = Due(x) \union DueBy(Entries(s))
        /\ Inside(Entries(Cons(x, s))) <=> x.do = "end function" \/ Inside(Entries(s))
    BY ONLY <1>0, ConsOwed
  <2> QED
    BY ONLY <1>9, <1>10, <2>1
<1>16. Framed(Entries(Cons(x, s)), fr)
  <2>1. Entries(Cons(x, s)) = {x} \union Entries(s)
    BY ONLY <1>0, ConsEntries
  <2>2. \A r \in Entries(s) : r.do # "end function"
    BY <1>0, TopOwes
  <2>3. \A j \in 3..Len(fr) : j = 3
    BY ONLY <1>22
  <2>4. \A j \in 3..Len(fr) : fr[j].declarations_block = x.decls
    BY ONLY <1>20, <1>23, <2>3
  <2>5. Len(fr) >= 3
    BY ONLY <1>22
  <2> QED
    BY ONLY <1>21, <2>1, <2>2, <2>4, <2>5 DEF Framed
<1>17. p \notin O
  BY <1>11
<1>18. Graph(c, O \union {p}, {}, Cardinality(gen) - 1)
  <2>1. none \union ((Len(bs) + 1)..(Len(bs) + Len(u))) = O \union {p} /\ none \union more = {}
    BY <1>7 DEF none, more
  <2> QED
    BY <1>6, <2>1 DEF n
<1> HIDE DEF O
<1> QED
  BY <1>0, <1>14, <1>15, <1>16, <1>17, <1>18 DEF InFunction, p

LEMMA GenFunctionDefWires ==
  ASSUME IInv, WiredInv, GenFunctionDef
  PROVE  WiredInv'
<1> DEFINE bad == T.name \in generated
           n == Len(T.params)
           params == [k \in 1..n |-> [name |-> T.params[k], var |-> n_allocas + k]]
           latest(z) == {p \in 1..n : T.params[p] = z}
           named == [z \in Name |-> IF latest(z) = {} THEN Named[z]
                                    ELSE n_allocas + Max(latest(z))]
           r == [Frame(named, New(1)) EXCEPT !.own = params]
           m == 2 * n
           u1 == [k \in 1..m |->
                    IF k % 2 = 1 THEN Alloca(n_allocas + (k + 1) \div 2, T.params[(k + 1) \div 2])
                                 ELSE Poison(n_allocas + k \div 2)]
           u2 == [k \in 1..n |-> Store(named[T.params[k]], Constant)]
           yes == TRUE
           d1 == [BasicBlock(T.name, yes) EXCEPT !.insts = u1]
           d2 == [BasicBlock(T.name, yes) EXCEPT !.insts = u2]
           y == Gen(Kid(1))
           x == [do |-> "end function", decls |-> New(1), old |-> state]
           rest == Tail(todo)
           c == blocks'
           fr == frames'
           gen == generated'
<1>1. Generating("Fn")
  BY DEF GenFunctionDef
<1>2. Runs /\ todo # <<>> /\ T \in Trees /\ T.node = "Fn" /\ IsSeq(rest) /\ AtTop(Instr)
        /\ Instr.do = "gen"
  <2>1. T \in Trees /\ T.node = "Fn" /\ Runs /\ IsSeq(rest)
    BY <1>1, AtStmt
  <2>2. todo # <<>> /\ Instr.do = "gen" /\ Instr.tree.node = "Fn"
    BY <1>1 DEF Generating, Doing
  <2> QED
    BY <2>1, <2>2 DEF AtTop
<1>3. CASE bad
  <2>1. Throw
    BY <1>3 DEF GenFunctionDef
  <2> QED
    BY <2>1, ThrowWires
<1>4. CASE ~bad
  <2>1. /\ c = blocks \o <<d1, d2>>
        /\ ip' = New(2) /\ gen = generated \union {T.name}
        /\ fr = Append(frames, r) /\ state' = Len(frames) + 1
        /\ todo' = <<y, x>> \o rest
        /\ errors' = errors
    BY <1>4 DEF GenFunctionDef, Go
  <2> SUFFICES ASSUME errors = 0
               PROVE  WiredInv'
    BY <2>1 DEF WiredInv
  <2>2. /\ state = Len(frames) /\ IsFiniteSet(generated)
        /\ \A q \in Entries(rest) : AtTop(q)
        /\ Settled({Instr}, Len(frames))
        /\ Graph(blocks, {}, {}, Cardinality(generated))
    BY <1>2, Outward
  <2>3. Len(frames) = 2
    BY <1>2, <2>2 DEF Settled
  <2>4. T.params \in Seq(Name) /\ Kid(1) \in Exprs
    <3>1. T.node \in {"ExprStmt", "Return", "Fn"}
      BY <1>2
    <3> QED
      BY <1>2, <3>1, KidsAre, OneKid DEF Kid
  <2>5. n \in Nat /\ m \in Nat
    BY <2>4, LenProperties
  <2>6. Ready(blocks, rest, gen)
    <3>1. IsFiniteSet(gen) /\ Cardinality(gen) = Cardinality(generated) + 1
      BY <1>4, <2>1, <2>2, FS_AddElement
    <3>2. Cardinality(gen) - 1 = Cardinality(generated)
      BY <2>2, <3>1, FS_CardinalityType
    <3> HIDE DEF gen
    <3> QED
      BY <1>2, <2>2, <3>1, <3>2 DEF Ready
  <2>7. PlainBlock(d1) /\ d1.fn = T.name /\ d1.inserted = yes
    <3> HIDE DEF m
    <3>1. u1 = [k \in 1..m |-> u1[k]] /\ \A k \in 1..m : ~IsTerminator(u1[k])
      <4>1. \A v, z : ~IsTerminator(Alloca(v, z)) /\ ~IsTerminator(Poison(v))
        BY DEF Alloca, Poison, IsTerminator, Terminators
      <4> QED
        BY <4>1
    <3> HIDE DEF u1, n, yes
    <3> QED
      BY <2>5, <3>1, NewBlockOf
  <2>8. PlainBlock(d2) /\ d2.fn = T.name /\ d2.inserted = yes
    <3> HIDE DEF named
    <3>1. u2 = [k \in 1..n |-> u2[k]] /\ \A k \in 1..n : ~IsTerminator(u2[k])
      BY DEF Store, IsTerminator, Terminators
    <3> HIDE DEF u2, n, yes
    <3> QED
      BY <2>5, <3>1, NewBlockOf
  <2>9. yes
    OBVIOUS
  <2>10. Len(blocks) \in Nat /\ IsSeq(frames)
    <3> DEFINE S == Scope(n_allocas)
    <3>1. frames \in Seq(S) /\ Len(blocks) \in Nat
      BY Facts DEF Scoped
    <3> HIDE DEF S
    <3> QED
      BY <3>1, SeqIs
  <2>11. r.declarations_block = Len(blocks) + 1
    <3> DEFINE b == New(1)
               e == <<>>
    <3>1. b = Len(blocks) + 1
      BY DEF New
    <3>2. r = [[named |-> named, declarations_block |-> b, own |-> e] EXCEPT !.own = params]
      BY DEF Frame
    <3> HIDE DEF named, params, b, e
    <3>3. [[named |-> named, declarations_block |-> b, own |-> e] EXCEPT !.own = params]
            = [named |-> named, declarations_block |-> b, own |-> params]
      OBVIOUS
    <3> HIDE DEF r
    <3> QED
      BY <3>1, <3>2, <3>3
  <2>12. x.do = "end function" /\ x.decls = Len(blocks) + 1 /\ x.old = 2
    BY <2>2, <2>3 DEF New
  <2> HIDE DEF yes, d1, d2, r, x, y, bad, n, m, u1, u2, named, params, latest
  <2>13. Len(fr) = 3 /\ fr[3] = r
    <3>1. Len(fr) = Len(frames) + 1 /\ fr[Len(frames) + 1] = r
      BY <2>1, <2>10, AppendIs
    <3> QED
      BY ONLY <2>3, <3>1
  <2> DEFINE f == T.name
  <2>14. Opens(blocks, f, d1, d2, x, fr, c)
    <3>1. c = blocks \o <<d1, d2>>
      BY <2>1
    <3>2. fr[3].declarations_block = Len(blocks) + 1
      BY ONLY <2>11, <2>13
    <3> QED
      BY ONLY <2>7, <2>8, <2>9, <2>12, <2>13, <3>1, <3>2 DEF Opens
  <2>15. InFunction(c, Len(blocks) + 2, Cons(x, rest), fr, gen)
    <3> HIDE DEF f, c, fr, gen, rest
    <3> QED
      BY ONLY <2>6, <2>14, Begins
  <2>16. Plain(y) /\ ~InBlock(y)
    BY <2>4, GenExpr DEF y
  <2>17. InFunction(c, Len(blocks) + 2, Cons(y, Cons(x, rest)), fr, gen)
    <3> HIDE DEF f, c, fr, gen, rest
    <3> QED
      BY ONLY <2>15, <2>16, InPush
  <2>18. todo' = Cons(y, Cons(x, rest))
    <3>1. IsSeq(rest)
      BY <1>2
    <3> HIDE DEF rest
    <3>2. <<y, x>> \o rest = Cons(y, Cons(x, rest))
      BY ONLY <3>1, Tuple2
    <3> QED
      BY ONLY <2>1, <3>2
  <2>19. ip' = Len(blocks) + 2 /\ state' = Len(fr)
    <3>1. ip' = Len(blocks) + 2
      BY <2>1 DEF New
    <3>2. state' = Len(frames) + 1
      BY <2>1
    <3> QED
      BY ONLY <2>3, <2>13, <3>1, <3>2
  <2> QED
    BY <2>17, <2>18, <2>19, StaysInside
<1> QED
  BY <1>3, <1>4

LEMMA PrototypesWires ==
  ASSUME IInv, WiredInv, Prototypes
  PROVE  WiredInv'
<1> DEFINE x == DefineEach(program)
           y == Then("verify")
           rest == Tail(todo)
           fr == frames'
<1>1. /\ Doing("prototypes") /\ todo' = <<x, y>> \o rest
      /\ fr = Append(frames, frames[1]) /\ state' = 2
      /\ UNCHANGED <<generated, blocks, errors>>
  BY DEF Prototypes, Go
<1>2. /\ Runs /\ todo # <<>> /\ Instr.do = "prototypes" /\ IsSeq(rest)
      /\ Follows(Instr, IF rest = <<>> THEN {} ELSE {Head(rest).do})
      /\ \E i1 \in Nat \ {0}, n1, f1, m1 \in Nat :
           /\ Moves(Instr, Len(frames), Len(values), i1, n1)
           /\ Stack(Len(blocks), n_allocas, rest, i1, n1, f1, m1)
           /\ f1 <= Len(frames) /\ m1 <= Low(Instr, Len(values))
  BY <1>1, Running
<1> SUFFICES ASSUME errors = 0
             PROVE  WiredInv'
  BY <1>1 DEF WiredInv
<1>3. AtTop(Instr)
  BY <1>2 DEF AtTop
<1>4. /\ IsFiniteSet(generated) /\ Graph(blocks, {}, {}, Cardinality(generated))
      /\ \A q \in Entries(rest) : AtTop(q)
  BY <1>2, <1>3, Outward
<1>5. Len(frames) = 1
  <2>1. PICK i1, n1 : Moves(Instr, Len(frames), Len(values), i1, n1)
    BY <1>2
  <2>2. Instr.do = "prototypes"
    BY <1>2
  <2> QED
    BY ONLY <2>1, <2>2, MovesPrototypes
<1>6. Len(fr) = 2
  <2> DEFINE S == Scope(n_allocas)
  <2>1. frames \in Seq(S)
    BY Facts DEF Scoped
  <2> HIDE DEF S
  <2>2. IsSeq(frames)
    BY <2>1, SeqIs
  <2>3. fr = Append(frames, frames[1])
    BY <1>1
  <2> HIDE DEF fr
  <2>4. Len(fr) = Len(frames) + 1
    BY ONLY <2>2, <2>3, AppendIs
  <2> QED
    BY ONLY <1>5, <2>4
<1>7. x.do = "define each" /\ y.do = "verify"
  BY DEF DefineEach, Then
<1> HIDE DEF x, y
<1>8. AtTop(x) /\ AtTop(y)
  BY ONLY <1>7 DEF AtTop
<1> DEFINE u == Cons(x, Cons(y, rest))
<1>9. todo' = u
  <2>1. IsSeq(rest)
    BY <1>2
  <2> HIDE DEF rest
  <2>2. <<x, y>> \o rest = u
    BY ONLY <2>1, Tuple2
  <2> QED
    BY ONLY <1>1, <2>2
<1>10. IsSeq(u) /\ \A q \in Entries(u) : AtTop(q)
  <2> DEFINE w == Cons(y, rest)
  <2>1. IsSeq(rest)
    BY <1>2
  <2> HIDE DEF rest
  <2>2. Entries(w) = {y} \union Entries(rest) /\ IsSeq(w)
    BY <2>1, ConsEntries, ConsIs DEF Cons
  <2> HIDE DEF w
  <2>3. Entries(Cons(x, w)) = {x} \union Entries(w) /\ IsSeq(Cons(x, w))
    BY <2>2, ConsEntries, ConsIs DEF Cons
  <2>4. u = Cons(x, w)
    BY DEF w
  <2> HIDE DEF u
  <2> QED
    BY <1>4, <1>8, <2>2, <2>3, <2>4
<1>11. Settled(Entries(u), Len(fr))
  BY ONLY <1>6 DEF Settled
<1>12. Between(blocks', todo', frames', generated') /\ state' = Len(frames')
  <2> HIDE DEF u
  <2> QED
    BY <1>1, <1>4, <1>6, <1>9, <1>10, <1>11 DEF Between
<1> QED
  BY <1>12, StaysBetween

LEMMA TopPush ==
  ASSUME NEW bs, NEW s, NEW fr, NEW gen, Between(bs, s, fr, gen), Len(fr) = 2,
         NEW x, AtTop(x)
  PROVE  Between(bs, Cons(x, s), fr, gen) /\ IsSeq(Cons(x, s))
<1> DEFINE u == Cons(x, s)
<1>1. IsSeq(s) /\ \A r \in Entries(s) : AtTop(r)
  BY DEF Between
<1>2. Entries(u) = {x} \union Entries(s) /\ IsSeq(u)
  BY <1>1, ConsEntries, ConsIs DEF Cons
<1> HIDE DEF u
<1>3. \A r \in Entries(u) : AtTop(r)
  BY <1>1, <1>2
<1>4. Settled(Entries(u), Len(fr))
  BY DEF Settled
<1>5. IsFiniteSet(gen) /\ Graph(bs, {}, {}, Cardinality(gen))
  BY DEF Between
<1>6. Between(bs, u, fr, gen)
  BY <1>2, <1>3, <1>4, <1>5 DEF Between
<1> QED
  BY <1>2, <1>6 DEF u

(* What is left between functions.                                         *)
LEMMA TopRest ==
  ASSUME WiredInv, Runs, errors = 0, todo # <<>>, Instr.do \in {"define each", "global"}
  PROVE  Between(blocks, Tail(todo), frames, generated) /\ Len(frames) = 2
           /\ state = Len(frames) /\ IsSeq(Tail(todo))
<1>1. AtTop(Instr)
  BY DEF AtTop
<1>2. /\ state = Len(frames) /\ IsSeq(Tail(todo)) /\ IsFiniteSet(generated)
      /\ \A r \in Entries(Tail(todo)) : AtTop(r)
      /\ Settled(Entries(Tail(todo)), Len(frames)) /\ Settled({Instr}, Len(frames))
      /\ Graph(blocks, {}, {}, Cardinality(generated))
  BY <1>1, Outward
<1>3. Len(frames) = 2
  BY <1>2 DEF Settled
<1> QED
  BY <1>2, <1>3 DEF Between

LEMMA GlobalCodegenWires ==
  ASSUME IInv, WiredInv, GlobalCodegen
  PROVE  WiredInv'
<1>1. Doing("global")
  BY DEF GlobalCodegen
<1>2. Runs /\ Instr.do = "global" /\ todo # <<>> /\ IsSeq(Tail(todo))
  BY <1>1, DoingIs
<1>3. CASE Crash("uncaught")
  BY <1>3, CrashWires
<1>4. CASE ~Crash("uncaught")
  <2>1. Go(<<>>) /\ SameScope /\ UNCHANGED <<generated, blocks, errors>>
    BY <1>4 DEF GlobalCodegen
  <2> SUFFICES ASSUME errors = 0
               PROVE  WiredInv'
    BY <2>1 DEF WiredInv
  <2>2. Between(blocks, Tail(todo), frames, generated) /\ state = Len(frames)
    BY <1>2, TopRest
  <2>3. todo' = Tail(todo)
    BY <1>2, <2>1, GoNone
  <2>4. Between(blocks', todo', frames', generated') /\ state' = Len(frames')
    BY <2>1, <2>2, <2>3 DEF SameScope
  <2> QED
    BY <2>4, StaysBetween
<1> QED
  BY <1>3, <1>4

LEMMA NextDefinitionWires ==
  ASSUME IInv, WiredInv, NextDefinition
  PROVE  WiredInv'
<1> DEFINE left == Instr.trees
           first == Head(left)
           rest == Tail(todo)
           y == Gen(first)
           c == Catch("function", Len(frames))
           g == [do |-> "global", tree |-> first]
           x == DefineEach(Tail(left))
<1>1. /\ Doing("define each")
      /\ todo' = (IF left = <<>> THEN <<>>
                  ELSE (IF first.node = "Fn" THEN <<y, c>> ELSE <<g>>) \o <<x>>) \o rest
      /\ SameScope /\ UNCHANGED <<blocks, generated, errors>>
  BY DEF NextDefinition, Go, SameRest, SameNames
<1>2. Runs /\ Instr.do = "define each" /\ todo # <<>>
  BY <1>1, DoingIs
<1> SUFFICES ASSUME errors = 0
             PROVE  WiredInv'
  BY <1>1 DEF WiredInv
<1>3. Between(blocks, rest, frames, generated) /\ Len(frames) = 2 /\ state = Len(frames)
        /\ IsSeq(rest)
  BY <1>2, TopRest
<1> SUFFICES Between(blocks, todo', frames, generated)
  <2>1. Between(blocks', todo', frames', generated') /\ state' = Len(frames')
    BY <1>1, <1>3 DEF SameScope
  <2> QED
    BY <2>1, StaysBetween
<1>4. AtTop(x) /\ AtTop(c) /\ AtTop(g)
  <2>1. x.do = "define each" /\ c.do = "catch" /\ c.of = "function" /\ g.do = "global"
    BY DEF DefineEach, Catch
  <2> HIDE DEF x, c, g
  <2> QED
    BY <2>1 DEF AtTop
<1>5. first.node = "Fn" => AtTop(y)
  <2>1. y.do = "gen" /\ y.tree = first
    BY DEF Gen
  <2> HIDE DEF y
  <2> QED
    BY <2>1 DEF AtTop
<1> HIDE DEF rest, x, y, c, g
<1>6. Between(blocks, Cons(x, rest), frames, generated) /\ IsSeq(Cons(x, rest))
  BY ONLY <1>3, <1>4, TopPush
<1>7. CASE left = <<>>
  <2>1. todo' = <<>> \o rest
    BY <1>1, <1>7
  <2>2. todo' = rest
    BY ONLY <1>3, <2>1, NoneIs
  <2> QED
    BY <1>3, <2>2
<1>8. CASE left # <<>> /\ first.node = "Fn"
  <2>1. todo' = (<<y, c>> \o <<x>>) \o rest
    BY <1>1, <1>8
  <2>2. todo' = Cons(y, Cons(c, Cons(x, rest)))
    <3>1. IsSeq(<<x>>) /\ <<x>> \o rest = Cons(x, rest) /\ IsSeq(<<y, c>>)
      BY ONLY <1>3, Tuple1, Tuple2
    <3>2. (<<y, c>> \o <<x>>) \o rest = <<y, c>> \o (<<x>> \o rest)
      BY ONLY <1>3, <3>1, JoinsIs
    <3>3. <<y, c>> \o Cons(x, rest) = Cons(y, Cons(c, Cons(x, rest)))
      BY ONLY <1>6, Tuple2
    <3> QED
      BY ONLY <2>1, <3>1, <3>2, <3>3
  <2>3. Between(blocks, Cons(c, Cons(x, rest)), frames, generated)
    BY ONLY <1>3, <1>4, <1>6, TopPush
  <2>4. AtTop(y)
    BY <1>5, <1>8
  <2>5. Between(blocks, Cons(y, Cons(c, Cons(x, rest))), frames, generated)
    BY ONLY <1>3, <2>3, <2>4, TopPush
  <2> QED
    BY ONLY <2>2, <2>5
<1>9. CASE left # <<>> /\ first.node # "Fn"
  <2>1. todo' = (<<g>> \o <<x>>) \o rest
    BY <1>1, <1>9
  <2>2. todo' = Cons(g, Cons(x, rest))
    <3>1. IsSeq(<<x>>) /\ <<x>> \o rest = Cons(x, rest) /\ IsSeq(<<g>>)
      BY ONLY <1>3, Tuple1
    <3>2. (<<g>> \o <<x>>) \o rest = <<g>> \o (<<x>> \o rest)
      BY ONLY <1>3, <3>1, JoinsIs
    <3>3. <<g>> \o Cons(x, rest) = Cons(g, Cons(x, rest))
      BY ONLY <1>6, Tuple1
    <3> QED
      BY ONLY <2>1, <3>1, <3>2, <3>3
  <2>3. Between(blocks, Cons(g, Cons(x, rest)), frames, generated)
    BY ONLY <1>3, <1>4, <1>6, TopPush
  <2> QED
    BY ONLY <2>2, <2>3
<1> QED
  BY <1>7, <1>8, <1>9

LEMMA VerifyModuleWires ==
  ASSUME VerifyModule
  PROVE  WiredInv'
<1>1. outcome' # "running"
  BY DEF VerifyModule
<1> QED
  BY <1>1 DEF WiredInv, Runs

LEMMA StutterWires ==
  ASSUME WiredInv, UNCHANGED vars
  PROVE  WiredInv'
<1>1. UNCHANGED <<todo, frames, state, outcome, generated, blocks, ip, errors>>
  BY DEF vars, control, module
<1> QED
  BY <1>1 DEF WiredInv, Wired, Runs

LEMMA InitWires ==
  ASSUME Init
  PROVE  WiredInv
<1> DEFINE x == Then("prototypes")
           none == <<>>
<1>1. todo = <<x>> /\ state = 1 /\ generated = {} /\ blocks = none
  BY DEF Init
<1>2. Len(frames) = 1
  BY OneIs DEF Init
<1>3. AtTop(x) /\ x.do = "prototypes"
  BY DEF Then, AtTop
<1>4. Len(none) = 0 /\ IsSeq(none)
  BY DEF IsSeq
<1> HIDE DEF x, none
<1>5. IsSeq(todo) /\ \A r \in Entries(todo) : r = x
  <2>1. IsSeq(<<x>>) /\ Len(<<x>>) = 1 /\ <<x>>[1] = x
    BY OneIs
  <2>2. Entries(<<x>>) = {x}
    BY <2>1 DEF Entries
  <2> QED
    BY <1>1, <2>1, <2>2
<1>6. Settled(Entries(todo), Len(frames)) /\ \A r \in Entries(todo) : AtTop(r)
  BY <1>3, <1>5 DEF Settled
<1>7. IsFiniteSet(generated) /\ Cardinality(generated) = 0
  BY <1>1, FS_EmptySet
<1>8. Graph(none, {}, {}, 0)
  <2>1. Shape(none)
    BY <1>4 DEF Shape
  <2>2. Joined(none, {}, {})
    BY <1>4 DEF Joined
  <2>3. Early(none) = {} /\ Closed(none) = {}
    BY <1>4 DEF Early, Closed
  <2>4. Rets(none) = {}
    BY <1>4 DEF Rets
  <2>5. Returning(none, {}, 0)
    BY <2>3, <2>4, FS_EmptySet DEF Returning
  <2> QED
    BY <2>1, <2>2, <2>5 DEF Graph
<1>9. Between(blocks, todo, frames, generated)
  BY <1>1, <1>5, <1>6, <1>7, <1>8 DEF Between
<1> QED
  BY <1>1, <1>2, <1>9 DEF WiredInv, Wired

LEMMA StepWires ==
  ASSUME IInv, WiredInv, [Next]_vars
  PROVE  WiredInv'
<1>1. CASE EndOfTry
  BY <1>1, EndOfTryWires
<1>2. CASE GenConstant
  BY <1>2, GenConstantWires
<1>3. CASE GenOperator
  BY <1>3, GenOperatorWires
<1>4. CASE CreateOperator
  BY <1>4, CreateOperatorWires
<1>5. CASE NextOperand
  BY <1>5, NextOperandWires
<1>6. CASE GenVarRef
  BY <1>6, GenVarRefWires
<1>7. CASE GenFunctionCall
  BY <1>7, GenFunctionCallWires
<1>8. CASE CreateCall
  BY <1>8, CreateCallWires
<1>9. CASE EnterBlock
  BY <1>9, EnterBlockWires
<1>10. CASE NextStatement
  BY <1>10, NextStatementWires
<1>11. CASE NoValue
  BY <1>11, NoValueWires
<1>12. CASE LeaveBlock
  BY <1>12, LeaveBlockWires
<1>13. CASE GenIf
  BY <1>13, GenIfWires
<1>14. CASE IfTrue
  BY <1>14, IfTrueWires
<1>15. CASE IfFalse
  BY <1>15, IfFalseWires
<1>16. CASE PostIf
  BY <1>16, PostIfWires
<1>17. CASE GenWhile
  BY <1>17, GenWhileWires
<1>18. CASE LoopBody
  BY <1>18, LoopBodyWires
<1>19. CASE PostWhile
  BY <1>19, PostWhileWires
<1>20. CASE GenExprStmt
  BY <1>20, GenExprStmtWires
<1>21. CASE Drop
  BY <1>21, DropWires
<1>22. CASE GenReturn
  BY <1>22, GenReturnWires
<1>23. CASE CreateRet
  BY <1>23, CreateRetWires
<1>24. CASE GenAssignment
  BY <1>24, GenAssignmentWires
<1>25. CASE Assign
  BY <1>25, AssignWires
<1>26. CASE GenDeclAssignment
  BY <1>26, GenDeclAssignmentWires
<1>27. CASE Declare
  BY <1>27, DeclareWires
<1>28. CASE GenFunctionDef
  BY <1>28, GenFunctionDefWires
<1>29. CASE EndFunction
  BY <1>29, EndFunctionWires
<1>30. CASE Prototypes
  BY <1>30, PrototypesWires
<1>31. CASE NextDefinition
  BY <1>31, NextDefinitionWires
<1>32. CASE GlobalCodegen
  BY <1>32, GlobalCodegenWires
<1>33. CASE VerifyModule
  BY <1>33, VerifyModuleWires
<1>34. CASE UNCHANGED vars
  BY <1>34, StutterWires
<1> QED
  BY <1>1, <1>2, <1>3, <1>4, <1>5, <1>6, <1>7, <1>8, <1>9, <1>10, <1>11,
     <1>12, <1>13, <1>14, <1>15, <1>16, <1>17, <1>18, <1>19, <1>20, <1>21,
     <1>22, <1>23, <1>24, <1>25, <1>26, <1>27, <1>28, <1>29, <1>30, <1>31,
     <1>32, <1>33, <1>34
     DEF Next

LEMMA WiredAlways == Spec => [](IInv /\ WiredInv)
<1>1. Init => IInv /\ WiredInv
  BY InitInv, InitWires
<1>2. IInv /\ WiredInv /\ [Next]_vars => IInv' /\ WiredInv'
  BY StepInv, StepWires
<1> QED
  BY <1>1, <1>2, PTL DEF Spec

-----------------------------------------------------------------------------
(* What the verifier finds when all functions are generated.               *)
LEMMA CleanedIs ==
  ASSUME NEW u, IsSeq(u), Stops(u) # {}, Nulls(u) = {}, NEW body, Targets(u) \subseteq body
  PROVE  Terminated(Cleaned(u), body)
<1> DEFINE S == Stops(u)
           m == Min(S)
           v == SubSeq(u, 1, m)
<1>1. SelectInSeq(u, IsTerminator) = IF S # {} THEN Min(S) ELSE 0
  BY DEF SelectInSeq, Stops
<1>2. m \in S /\ \A k \in S : m <= k
  <2>1. S \in SUBSET Int /\ S # {} /\ 1 \in Int /\ \A k \in S : 1 <= k
    BY ListIs DEF Stops
  <2> HIDE DEF S
  <2> QED
    BY ONLY <2>1, LeastOf
<1>3. Len(u) \in Nat
  BY ListIs
<1>4. m \in 1..Len(u) /\ m \in Nat /\ m # 0 /\ IsTerminator(u[m])
  <2>1. m \in 1..Len(u) /\ IsTerminator(u[m])
    BY <1>2 DEF Stops
  <2> HIDE DEF m
  <2> QED
    BY <1>3, <2>1
<1>5. Cleaned(u) = v
  BY <1>1, <1>4 DEF Cleaned
<1>6. \A k \in 1..m : IsTerminator(u[k]) => k = m
  <2>1. \A k \in 1..Len(u) : IsTerminator(u[k]) => m <= k
    BY <1>2 DEF Stops
  <2> HIDE DEF m
  <2> QED
    BY <1>3, <1>4, <2>1
<1> HIDE DEF S, m
<1>7. IsSeq(v) /\ Len(v) = m /\ \A k \in 1..m : v[k] = u[k]
  <2>1. 1 \in Nat /\ 1 <= m /\ m <= Len(u) /\ m \in Nat /\ 1 <= 1 /\ 1 <= m + 1
    BY <1>3, <1>4
  <2>2. IsSeq(v) /\ Len(v) = m - 1 + 1 /\ \A k \in 1..(m - 1 + 1) : v[k] = u[1 + k - 1]
    BY <2>1, SubSeqIs
  <2> HIDE DEF v
  <2>3. m - 1 + 1 = m /\ \A k \in 1..m : 1 + k - 1 = k
    BY <2>1
  <2> QED
    BY <2>2, <2>3
<1> HIDE DEF v
<1>8. v # <<>>
  BY <1>4, <1>7, EmptySeq
<1>9. ASSUME NEW k \in 1..Len(v)
      PROVE  /\ IsTerminator(v[k]) <=> k = Len(v)
             /\ v[k].op \notin {"ret void", "null operand"}
  <2>1. k \in 1..m /\ v[k] = u[k] /\ k \in 1..Len(u)
    BY <1>3, <1>4, <1>7, <1>9
  <2>2. u[k].op \notin {"ret void", "null operand"}
    BY <2>1 DEF Nulls
  <2> QED
    BY <1>4, <1>6, <1>7, <2>1, <2>2
<1>10. Last(v) = u[m]
  <2>1. m \in 1..m
    BY <1>4
  <2> QED
    BY <1>7, <2>1 DEF Last
<1>11. ToSet(Last(v).to) \subseteq body
  <2>1. m \in Stops(u)
    BY <1>4 DEF Stops
  <2>2. ToSet(u[m].to) \subseteq Targets(u)
    BY <2>1 DEF Targets
  <2> QED
    BY <1>10, <2>2
<1>12. Terminated(v, body)
  BY <1>8, <1>9, <1>11 DEF Terminated
<1> QED
  BY <1>5, <1>12

(* Without instructions behind a terminator there is nothing to clean.     *)
LEMMA UncleanedIs ==
  ASSUME NEW u, IsSeq(u), Stops(u) # {}, ~Late(u), Nulls(u) = {},
         NEW body, Targets(u) \subseteq body
  PROVE  Terminated(u, body)
<1> DEFINE m == Len(u)
<1>1. m \in Nat
  BY ListIs
<1>2. \A k \in Stops(u) : k = m
  BY DEF Late
<1>3. m \in Stops(u) /\ m \in 1..Len(u)
  BY <1>2 DEF Stops
<1>4. u # <<>>
  BY <1>3
<1>5. ASSUME NEW k \in 1..Len(u)
      PROVE  /\ IsTerminator(u[k]) <=> k = Len(u)
             /\ u[k].op \notin {"ret void", "null operand"}
  <2>1. IsTerminator(u[k]) <=> k \in Stops(u)
    BY DEF Stops
  <2>2. u[k].op \notin {"ret void", "null operand"}
    BY DEF Nulls
  <2> QED
    BY <1>2, <1>3, <2>1, <2>2
<1>6. ToSet(Last(u).to) \subseteq body
  <2>1. ToSet(u[m].to) \subseteq Targets(u)
    BY <1>3 DEF Targets
  <2> QED
    BY <2>1 DEF Last
<1> QED
  BY <1>4, <1>5, <1>6 DEF Terminated

CleanModule == \A fn \in generated : \A b \in Body(fn) : Terminated(Code(b), Body(fn))
EndedModule == \A fn \in generated : \A b \in Body(fn) : Terminated(blocks[b].insts, Body(fn))
FewReturns  == Cardinality(Returns) <= Cardinality(generated)
Valued      == ~Has("ret void") /\ ~Has("null operand")

LEMMA ReturnsAre == Returns = Rets(blocks)
<1>1. ASSUME NEW p, p \in Returns
      PROVE  p \in Rets(blocks)
  <2>1. PICK b \in 1..Len(blocks) :
          p \in {<<b, k>> : k \in {j \in 1..Len(blocks[b].insts) : blocks[b].insts[j].op = "ret"}}
    BY <1>1 DEF Returns
  <2>2. PICK k \in 1..Len(blocks[b].insts) : p = <<b, k>> /\ blocks[b].insts[k].op = "ret"
    BY <2>1
  <2>3. p \in (1..Len(blocks)) \X Nat /\ p[1] = b /\ p[2] = k
    BY <2>2
  <2> QED
    BY <2>2, <2>3 DEF Rets, RetsOf, Code0
<1>2. ASSUME NEW p, p \in Rets(blocks)
      PROVE  p \in Returns
  <2> DEFINE b == p[1]
             k == p[2]
  <2>1. p \in (1..Len(blocks)) \X Nat /\ k \in RetsOf(Code0(blocks, b))
    BY <1>2 DEF Rets
  <2>2. b \in 1..Len(blocks) /\ p = <<b, k>>
    BY <2>1
  <2>3. k \in {j \in 1..Len(blocks[b].insts) : blocks[b].insts[j].op = "ret"}
    BY <2>1 DEF RetsOf, Code0
  <2> QED
    BY <2>2, <2>3 DEF Returns
<1> QED
  BY <1>1, <1>2

LEMMA ModuleIs ==
  ASSUME Graph(blocks, {}, {}, Cardinality(generated)), Valued
  PROVE  CleanModule /\ (FewReturns => EndedModule)
<1>1. NoNull(blocks)
  BY DEF NoNull, Nulls, Code0, Valued, Has
<1>2. Shape(blocks) /\ Joined(blocks, {}, {}) /\ Returning(blocks, {}, Cardinality(generated))
  BY DEF Graph
<1>3. ASSUME NEW fn, NEW b \in Body(fn)
      PROVE  /\ b \in 1..Len(blocks) /\ IsSeq(blocks[b].insts)
             /\ Stops(blocks[b].insts) # {} /\ Nulls(blocks[b].insts) = {}
             /\ Targets(blocks[b].insts) \subseteq Body(fn)
  <2>1. b \in 1..Len(blocks) /\ blocks[b].fn = fn /\ blocks[b].inserted
    BY DEF Body
  <2>2. IsSeq(blocks[b].insts)
    BY <1>2, <2>1 DEF Shape, IsBlock
  <2>3. Stops(blocks[b].insts) # {}
    BY <1>2, <2>1 DEF Joined, Closed, Code0
  <2>4. Nulls(blocks[b].insts) = {}
    BY <1>1, <2>1 DEF NoNull, Code0
  <2>5. Targets(blocks[b].insts) \subseteq Body(fn)
    <3>1. \A t \in Targets(blocks[b].insts) :
            t \in 1..Len(blocks) /\ blocks[t].fn = fn /\ blocks[t].inserted
      BY <1>2, <2>1 DEF Joined, Code0
    <3> QED
      BY <3>1 DEF Body
  <2> QED
    BY <2>1, <2>2, <2>3, <2>4, <2>5
<1>4. CleanModule
  <2> SUFFICES ASSUME NEW fn \in generated, NEW b \in Body(fn)
               PROVE  Terminated(Code(b), Body(fn))
    BY DEF CleanModule
  <2> DEFINE u == blocks[b].insts
             body == Body(fn)
  <2>1. IsSeq(u) /\ Stops(u) # {} /\ Nulls(u) = {} /\ Targets(u) \subseteq body
    BY <1>3
  <2>2. Code(b) = Cleaned(u)
    BY DEF Code
  <2> HIDE DEF u, body
  <2>3. Terminated(Cleaned(u), body)
    BY ONLY <2>1, CleanedIs
  <2> QED
    BY <2>2, <2>3 DEF body
<1>5. ASSUME FewReturns
      PROVE  EndedModule
  <2>1. Cardinality(Rets(blocks)) = Cardinality(generated)
    <3>1. /\ Cardinality(generated) \in Nat /\ IsFiniteSet(Rets(blocks))
          /\ Cardinality(Rets(blocks)) >= Cardinality(generated)
      BY <1>2 DEF Returning
    <3>2. Cardinality(Rets(blocks)) \in Nat
      BY <3>1, FS_CardinalityType
    <3>3. Cardinality(Rets(blocks)) <= Cardinality(generated)
      BY <1>5, ReturnsAre DEF FewReturns
    <3> QED
      BY <3>1, <3>2, <3>3
  <2>2. Early(blocks) = {}
    BY <1>1, <1>2, <2>1 DEF Returning
  <2> SUFFICES ASSUME NEW fn \in generated, NEW b \in Body(fn)
               PROVE  Terminated(blocks[b].insts, Body(fn))
    BY DEF EndedModule
  <2> DEFINE u == blocks[b].insts
             body == Body(fn)
  <2>3. IsSeq(u) /\ Stops(u) # {} /\ Nulls(u) = {} /\ Targets(u) \subseteq body
    BY <1>3
  <2>4. ~Late(u)
    BY <1>3, <2>2 DEF Early, Code0
  <2> HIDE DEF u, body
  <2>5. Terminated(u, body)
    BY ONLY <2>3, <2>4, UncleanedIs
  <2> QED
    BY <2>5 DEF u, body
<1> QED
  BY <1>4, <1>5

(* Only the verifier brings code generation to its end.                    *)
Finished == outcome \in {"done", "could not compile"}

LEMMA CrashEnds ==
  ASSUME NEW why, Crash(why), why \notin {"done", "could not compile"}
  PROVE  ~Finished'
BY DEF Crash, Finished

LEMMA GoesOnEnds ==
  ASSUME NEW what, Doing(what), UNCHANGED outcome
  PROVE  ~Finished'
BY DEF Doing, Finished

LEMMA ThrowEnds ==
  ASSUME NEW what, Doing(what), Throw
  PROVE  ~Finished'
<1>1. CASE UNCHANGED outcome
  BY <1>1, GoesOnEnds
<1>2. CASE Crash("uncaught")
  BY <1>2, CrashEnds
<1> QED
  BY <1>1, <1>2 DEF Throw

LEMMA OnlyVerifies ==
  ASSUME Next, ~VerifyModule
  PROVE  ~Finished'
<1> USE DEF SameRest
<1>1. CASE EndOfTry
  <2>1. Doing("catch") /\ UNCHANGED outcome
    BY <1>1 DEF EndOfTry
  <2> QED
    BY <2>1, GoesOnEnds
<1>2. CASE GenConstant
  <2>1. Doing("gen") /\ UNCHANGED outcome
    BY <1>2 DEF GenConstant, Generating
  <2> QED
    BY <2>1, GoesOnEnds
<1>3. CASE GenOperator
  <2>1. Doing("gen") /\ UNCHANGED outcome
    BY <1>3 DEF GenOperator, Generating
  <2> QED
    BY <2>1, GoesOnEnds
<1>4. CASE CreateOperator
  <2>1. Doing("operator") /\ (UNCHANGED outcome \/ Crash("non-null assertion"))
    BY <1>4 DEF CreateOperator
  <2> QED
    BY <2>1, GoesOnEnds, CrashEnds
<1>5. CASE NextOperand
  <2>1. Doing("each") /\ UNCHANGED outcome
    BY <1>5 DEF NextOperand
  <2> QED
    BY <2>1, GoesOnEnds
<1>6. CASE GenVarRef
  <2>1. Doing("gen") /\ (UNCHANGED outcome \/ Throw)
    BY <1>6 DEF GenVarRef, Generating
  <2> QED
    BY <2>1, GoesOnEnds, ThrowEnds
<1>7. CASE GenFunctionCall
  <2>1. Doing("gen") /\ (UNCHANGED outcome \/ Throw)
    BY <1>7 DEF GenFunctionCall, Generating
  <2> QED
    BY <2>1, GoesOnEnds, ThrowEnds
<1>8. CASE CreateCall
  <2>1. Doing("call") /\ (UNCHANGED outcome \/ Crash("null operand"))
    BY <1>8 DEF CreateCall
  <2> QED
    BY <2>1, GoesOnEnds, CrashEnds
<1>9. CASE EnterBlock
  <2>1. Doing("gen") /\ UNCHANGED outcome
    BY <1>9 DEF EnterBlock, Generating
  <2> QED
    BY <2>1, GoesOnEnds
<1>10. CASE NextStatement
  <2>1. Doing("try each") /\ UNCHANGED outcome
    BY <1>10 DEF NextStatement
  <2> QED
    BY <2>1, GoesOnEnds
<1>11. CASE NoValue
  <2>1. Doing("no value") /\ UNCHANGED outcome
    BY <1>11 DEF NoValue
  <2> QED
    BY <2>1, GoesOnEnds
<1>12. CASE LeaveBlock
  <2>1. Doing("leave block") /\ UNCHANGED outcome
    BY <1>12 DEF LeaveBlock
  <2> QED
    BY <2>1, GoesOnEnds
<1>13. CASE GenIf
  <2>1. Doing("gen") /\ UNCHANGED outcome
    BY <1>13 DEF GenIf, Generating
  <2> QED
    BY <2>1, GoesOnEnds
<1>14. CASE IfTrue
  <2>1. Doing("if true") /\ (UNCHANGED outcome \/ Crash("null operand"))
    BY <1>14 DEF IfTrue
  <2> QED
    BY <2>1, GoesOnEnds, CrashEnds
<1>15. CASE IfFalse
  <2>1. Doing("if false") /\ UNCHANGED outcome
    BY <1>15 DEF IfFalse
  <2> QED
    BY <2>1, GoesOnEnds
<1>16. CASE PostIf
  <2>1. Doing("post if") /\ UNCHANGED outcome
    BY <1>16 DEF PostIf
  <2> QED
    BY <2>1, GoesOnEnds
<1>17. CASE GenWhile
  <2>1. Doing("gen") /\ UNCHANGED outcome
    BY <1>17 DEF GenWhile, Generating
  <2> QED
    BY <2>1, GoesOnEnds
<1>18. CASE LoopBody
  <2>1. Doing("loop body") /\ (UNCHANGED outcome \/ Crash("null operand"))
    BY <1>18 DEF LoopBody
  <2> QED
    BY <2>1, GoesOnEnds, CrashEnds
<1>19. CASE PostWhile
  <2>1. Doing("post while") /\ (UNCHANGED outcome \/ Crash("return values from loops"))
    BY <1>19 DEF PostWhile
  <2> QED
    BY <2>1, GoesOnEnds, CrashEnds
<1>20. CASE GenExprStmt
  <2>1. Doing("gen") /\ UNCHANGED outcome
    BY <1>20 DEF GenExprStmt, Generating
  <2> QED
    BY <2>1, GoesOnEnds
<1>21. CASE Drop
  <2>1. Doing("drop") /\ UNCHANGED outcome
    BY <1>21 DEF Drop
  <2> QED
    BY <2>1, GoesOnEnds
<1>22. CASE GenReturn
  <2>1. Doing("gen") /\ UNCHANGED outcome
    BY <1>22 DEF GenReturn, Generating
  <2> QED
    BY <2>1, GoesOnEnds
<1>23. CASE CreateRet
  <2>1. Doing("ret") /\ UNCHANGED outcome
    BY <1>23 DEF CreateRet
  <2> QED
    BY <2>1, GoesOnEnds
<1>24. CASE GenAssignment
  <2>1. Doing("gen") /\ UNCHANGED outcome
    BY <1>24 DEF GenAssignment, Generating
  <2> QED
    BY <2>1, GoesOnEnds
<1>25. CASE Assign
  <2>1. Doing("assign") /\ (UNCHANGED outcome \/ Throw \/ Crash("null operand"))
    BY <1>25 DEF Assign
  <2> QED
    BY <2>1, GoesOnEnds, ThrowEnds, CrashEnds
<1>26. CASE GenDeclAssignment
  <2>1. Doing("gen") /\ UNCHANGED outcome
    BY <1>26 DEF GenDeclAssignment, Generating
  <2> QED
    BY <2>1, GoesOnEnds
<1>27. CASE Declare
  <2>1. Doing("declare") /\ (UNCHANGED outcome \/ Crash("null operand"))
    BY <1>27 DEF Declare
  <2> QED
    BY <2>1, GoesOnEnds, CrashEnds
<1>28. CASE GenFunctionDef
  <2>1. Doing("gen") /\ (UNCHANGED outcome \/ Throw)
    BY <1>28 DEF GenFunctionDef, Generating
  <2> QED
    BY <2>1, GoesOnEnds, ThrowEnds
<1>29. CASE EndFunction
  <2>1. Doing("end function") /\ UNCHANGED outcome
    BY <1>29 DEF EndFunction
  <2> QED
    BY <2>1, GoesOnEnds
<1>30. CASE Prototypes
  <2>1. Doing("prototypes") /\ UNCHANGED outcome
    BY <1>30 DEF Prototypes
  <2> QED
    BY <2>1, GoesOnEnds
<1>31. CASE NextDefinition
  <2>1. Doing("define each") /\ UNCHANGED outcome
    BY <1>31 DEF NextDefinition
  <2> QED
    BY <2>1, GoesOnEnds
<1>32. CASE GlobalCodegen
  <2>1. Doing("global") /\ (UNCHANGED outcome \/ Crash("uncaught"))
    BY <1>32 DEF GlobalCodegen
  <2> QED
    BY <2>1, GoesOnEnds, CrashEnds
<1> QED
  BY <1>1, <1>2, <1>3, <1>4, <1>5, <1>6, <1>7, <1>8, <1>9, <1>10, <1>11,
     <1>12, <1>13, <1>14, <1>15, <1>16, <1>17, <1>18, <1>19, <1>20, <1>21,
     <1>22, <1>23, <1>24, <1>25, <1>26, <1>27, <1>28, <1>29, <1>30, <1>31,
     <1>32 DEF Next

LEMMA OneError ==
  ASSUME NEW n \in 0..MaxErrors, OneMore(n) = 1
  PROVE  n = 0
<1>1. MaxErrors \in Nat /\ MaxErrors > 1
  BY MaxErrorsAssumption
<1>2. n \in Nat /\ n <= MaxErrors
  BY <1>1
<1>3. n < MaxErrors
  <2> SUFFICES ASSUME ~(n < MaxErrors)
               PROVE  FALSE
    OBVIOUS
  <2>1. n = 1
    BY DEF OneMore
  <2> QED
    BY <1>1, <1>2, <2>1
<1>4. n + 1 = 1
  BY <1>3 DEF OneMore
<1> QED
  BY <1>2, <1>4

LEMMA FirstError ==
  ASSUME errors \in 0..MaxErrors, GeneratedWithoutErrors',
         outcome' = "done" => errors' = errors,
         outcome' = "could not compile" => errors' = OneMore(errors)
  PROVE  errors = 0
<1>1. CASE outcome' = "done"
  BY <1>1 DEF GeneratedWithoutErrors
<1>2. CASE outcome' = "could not compile"
  <2>1. OneMore(errors) = 1
    BY <1>2 DEF GeneratedWithoutErrors
  <2> QED
    BY <2>1, OneError
<1> QED
  BY <1>1, <1>2 DEF GeneratedWithoutErrors

(* The verifier changes nothing of the module.                             *)
LEMMA SameModule ==
  ASSUME UNCHANGED <<blocks, generated>>
  PROVE  /\ CleanModule' = CleanModule /\ EndedModule' = EndedModule
         /\ FewReturns' = FewReturns /\ Valued' = Valued
<1>1. \A fn : Body(fn)' = Body(fn)
  BY DEF Body
<1>2. CleanModule' = CleanModule
  BY <1>1 DEF CleanModule, Code
<1>5. EndedModule' = EndedModule
  BY <1>1 DEF EndedModule
<1>3. Returns' = Returns
  BY DEF Returns
<1>4. Valued' = Valued
  BY DEF Valued, Has
<1> QED
  BY <1>2, <1>3, <1>4, <1>5 DEF FewReturns

LEMMA NotFinished ==
  ASSUME ~Finished
  PROVE  TerminatedOnceCleaned
BY DEF Finished, TerminatedOnceCleaned, GeneratedWithoutErrors

LEMMA VerifyModuleCleans ==
  ASSUME IInv, WiredInv, VerifyModule
  PROVE  TerminatedOnceCleaned'
<1>1. /\ Doing("verify") /\ UNCHANGED <<blocks, generated>>
      /\ outcome' = "done" => errors' = errors
      /\ outcome' = "could not compile" => errors' = OneMore(errors)
  BY DEF VerifyModule, SameNames
<1> SUFFICES ASSUME GeneratedWithoutErrors', Valued'
             PROVE  CleanModule' /\ (FewReturns' => EndedModule')
  BY DEF TerminatedOnceCleaned, Valued, CleanModule, EndedModule, FewReturns
<1>2. errors = 0
  <2>1. errors \in 0..MaxErrors
    BY DEF IInv, Counted
  <2> QED
    BY <1>1, <2>1, FirstError
<1>3. Graph(blocks, {}, {}, Cardinality(generated))
  <2>1. Runs /\ Instr.do = "verify" /\ todo # <<>>
    BY <1>1, DoingIs
  <2>2. AtTop(Instr)
    BY <2>1 DEF AtTop
  <2> QED
    BY <1>2, <2>1, <2>2, Outward
<1>4. Valued
  BY <1>1, SameModule
<1>5. CleanModule /\ (FewReturns => EndedModule)
  BY <1>3, <1>4, ModuleIs
<1>6. /\ CleanModule' = CleanModule /\ EndedModule' = EndedModule
      /\ FewReturns' = FewReturns
  BY <1>1, SameModule
<1> QED
  BY ONLY <1>5, <1>6

LEMMA StepCleans ==
  ASSUME IInv, WiredInv, TerminatedOnceCleaned, [Next]_vars
  PROVE  TerminatedOnceCleaned'
<1>1. CASE VerifyModule
  BY <1>1, VerifyModuleCleans
<1>2. CASE Next /\ ~VerifyModule
  <2>1. ~Finished'
    BY <1>2, OnlyVerifies
  <2> QED
    BY <2>1 DEF Finished, TerminatedOnceCleaned, GeneratedWithoutErrors
<1>3. CASE UNCHANGED vars
  <2>1. UNCHANGED <<blocks, generated, outcome, errors>>
    BY <1>3 DEF vars, control, module
  <2>2. GeneratedWithoutErrors' = GeneratedWithoutErrors
    BY <2>1 DEF GeneratedWithoutErrors
  <2>3. /\ CleanModule' = CleanModule /\ EndedModule' = EndedModule
        /\ FewReturns' = FewReturns /\ Valued' = Valued
    BY <2>1, SameModule
  <2> QED
    BY <2>1, <2>2, <2>3 DEF TerminatedOnceCleaned, Valued, CleanModule, EndedModule, FewReturns
<1> QED
  BY <1>1, <1>2, <1>3

(* Whatever a program generates, if nothing is reported and no operand is  *)
(* null, the cleanup pass leaves a module of which every basic block ends  *)
(* with its only terminator and branches within its function; and without  *)
(* return statements that is so before the pass.                           *)
THEOREM CodegenTerminatedOnceCleaned == Spec => []TerminatedOnceCleaned
<1>1. Init => IInv /\ WiredInv /\ TerminatedOnceCleaned
  <2>1. Init => ~Finished
    BY DEF Init, Finished
  <2> QED
    BY <2>1, InitInv, InitWires, NotFinished
<1>2. IInv /\ WiredInv /\ TerminatedOnceCleaned /\ [Next]_vars
        => IInv' /\ WiredInv' /\ TerminatedOnceCleaned'
  BY StepInv, StepWires, StepCleans
<1> QED
  BY <1>1, <1>2, PTL DEF Spec

=============================================================================
