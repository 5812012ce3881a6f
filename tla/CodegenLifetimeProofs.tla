---------------------- MODULE CodegenLifetimeProofs ----------------------
(***************************************************************************)
(* For every program: what is generated without errors accesses a variable *)
(* only while it is alive, on every path through the basic blocks.         *)
(*                                                                         *)
(* The argument is about regions. A block of the source makes three basic  *)
(* blocks: b, in which the lifetimes of its variables start, b + 1, where  *)
(* its code begins, and b + 2, in which the lifetimes end. Its code is in  *)
(* b + 1 and in what is created after b + 2 and before the block is left,  *)
(* and control enters this region from b alone (Walled). So a path from    *)
(* the beginning of a function, or from the end of a lifetime, to an       *)
(* access in the region has passed the start in b.                         *)
(*                                                                         *)
(* The invariant LiveInv says that of all blocks that are being generated  *)
(* (Opened) and of all that have been left (Left), and that nothing that   *)
(* is still to be done reaches into a region that has been left (Avoids).  *)
(* For that it needs to know that what is to be done is nested like the    *)
(* blocks of the source (Nested), and which variables have a lifetime      *)
(* already. EndInv is what is left of it when the module is verified.      *)
(***************************************************************************)
EXTENDS CodegenProofs

-----------------------------------------------------------------------------
(* The basic blocks and variables that an entry of the control stack       *)
(* refers to; a bare one refers to none and ends nothing.                  *)
Refs(x) == Owed(x) \union Aims(x)
Vars(x) == IF x.do = "declare" THEN {x.var}
           ELSE IF x.do \in {"if false", "post if"} THEN {x.result} ELSE {}
Bare(x) == Refs(x) = {} /\ Vars(x) = {} /\ x.do \notin {"leave block", "end function"}

(* What is pending above the end of a block refers to basic blocks that    *)
(* were created after it, what is pending below to earlier ones; and no    *)
(* other entry refers to a variable whose declaration is pending.          *)
Nests(x, R) ==
  /\ \A y \in R : y.do = "leave block" => \A b \in Refs(x) : b > y.end
  /\ x.do = "leave block" =>
       /\ x.begin \in Nat /\ x.entry = x.begin + 1 /\ x.end = x.begin + 2 /\ x.old \in Nat
       /\ \A y \in R : \A b \in Refs(y) : b < x.begin
       /\ \A y \in R : y.do = "leave block" => y.old < x.old
  /\ \A y \in R : x.do = "declare" \/ y.do = "declare" => \A v \in Vars(x) : v \notin Vars(y)
Nested(s) == IsSeq(s) /\ \A k \in 1..Len(s) : Nests(s[k], After(s, k))

(* The basic blocks in which the instruction op of the variable v is, and  *)
(* those that access v.                                                    *)
Marked(bs, op, v) ==
  {b \in 1..Len(bs) : \E k \in 1..Len(Code0(bs, b)) :
                        Code0(bs, b)[k].op = op /\ Code0(bs, b)[k].var = v}
Accessors(bs, v) == Marked(bs, "load", v) \union Marked(bs, "store", v)

(* No instruction knows a variable above na, the number of allocations.    *)
Ops == {"load", "store", "start", "end", "alloca", "poison"}
Fresh(bs, na) == \A op \in Ops : \A v \in Nat : v > na => Marked(bs, op, v) = {}

(* The code of a block of the source whose first basic block is b and      *)
(* whose last inner one is n: control enters it from b alone.              *)
Region(b, n) == {b + 1} \union ((b + 3)..n)
Walled(bs, b, n) ==
  /\ b \in Nat \ {0} /\ n \in Nat /\ b + 2 <= n /\ n <= Len(bs)
  /\ \A k \in Region(b, n) : bs[k].fn = bs[b].fn
  /\ \A k \in 1..Len(bs) : \A t \in Targets(Code0(bs, k)) :
       t \in Region(b, n) => k \in Region(b, n) \/ k = b

(* The lifetime of v starts in b only, and v is accessed only in the       *)
(* region of b; when the block has been left it ends in b + 2 only.        *)
Held(bs, v, b, n) ==
  (\A k \in Marked(bs, "start", v) : k = b) /\ (\A k \in Accessors(bs, v) : k \in Region(b, n))
Left(bs, v, b, n) ==
  /\ Walled(bs, b, n) /\ Held(bs, v, b, n) /\ bs[b + 2].inserted
  /\ \A k \in Marked(bs, "end", v) : k = b + 2

(* Neither the insertion point p nor what is to be done, P, is in a region.*)
Avoids(p, P, b, n) == p \notin Region(b, n) /\ \A x \in P : \A r \in Refs(x) : r \notin Region(b, n)

(* The variable v is allocated in d, and there alone set to poison.        *)
Makes(bs, d, v) == d \in Marked(bs, "alloca", v) /\ Marked(bs, "poison", v) = {d}
(* It is so in d, the first basic block of the one function that accesses  *)
(* it, and in front of a terminator.                                       *)
IsFirst(bs, d) == /\ d \in 1..Len(bs) /\ bs[d].inserted
                  /\ \A b \in 1..Len(bs) : bs[b].fn = bs[d].fn => d <= b
AllocatedAt(bs, v, d) ==
  /\ IsFirst(bs, d) /\ Makes(bs, d, v) /\ ~Late(Code0(bs, d))
  /\ \A b \in Accessors(bs, v) : bs[b].fn = bs[d].fn
HasAlloca(bs, v) == \E d : AllocatedAt(bs, v, d)

(* The variables whose lifetimes end with the frame r.                     *)
Owns(r) == {r.own[i].var : i \in 1..Len(r.own)}

(* The end of a block, y, is pending: the code is generated in its region, *)
(* which holds the variables of its frame, and their lifetimes go on.      *)
Opened(bs, p, y, fr) ==
  /\ y.old < Len(fr) /\ fr[3].declarations_block < y.begin
  /\ p \in Region(y.begin, Len(bs)) /\ Walled(bs, y.begin, Len(bs))
  /\ \A v \in Owns(fr[y.old + 1]) :
       Held(bs, v, y.begin, Len(bs)) /\ Marked(bs, "end", v) = {}

(* A variable has no lifetime of its own (parameters, results, and what is *)
(* declared outside of blocks), belongs to a block that is open, or to one *)
(* that has been left for good.                                            *)
Owned(P, fr, v) == \E y \in P : y.do = "leave block" /\ v \in Owns(fr[y.old + 1])
Gone(bs, p, P, v) == \E b, n : Left(bs, v, b, n) /\ Avoids(p, P, b, n)
Lives(bs, p, P, fr, v) ==
  Marked(bs, "start", v) = {} \/ Owned(P, fr, v) \/ Gone(bs, p, P, v)

(* The variable of a pending declaration is allocated, and nothing refers  *)
(* to it yet; so is that of a pending result, which has no lifetime.       *)
Awaits(bs, x, fr, na) ==
  \A v \in Vars(x) :
    /\ v \in 1..na /\ Marked(bs, "start", v) = {}
    /\ AllocatedAt(bs, v, fr[3].declarations_block)
    /\ x.do = "declare" =>
         Accessors(bs, v) = {} /\ Marked(bs, "end", v) = {} /\ \A j \in 1..Len(fr) : v \notin Owns(fr[j])

(* The outermost frames declare nothing.                                   *)
Outermost(fr) == \A j \in 1..Len(fr) : j <= 2 => Owns(fr[j]) = {}

(* Each variable belongs to one frame, the third one, of the function, has *)
(* no lifetimes to end, and each frame above it has a block to leave.      *)
Scopes(bs, P, fr, na) ==
  \A j \in 1..Len(fr) :
    /\ \A v \in Owns(fr[j]) : v \in 1..na /\ AllocatedAt(bs, v, fr[3].declarations_block)
    /\ j = 3 => \A v \in Owns(fr[j]) : Marked(bs, "start", v) = {}
    /\ j >= 4 => \E y \in P : y.do = "leave block" /\ y.old = j - 1
    /\ \A i \in 1..Len(fr) : i # j => \A v \in Owns(fr[j]) : v \notin Owns(fr[i])

(* The first basic block d of the function has no terminator until the     *)
(* function ends, and no code is generated at its end.                     *)
Prelude(bs, p, d) == IsFirst(bs, d) /\ Stops(Code0(bs, d)) = {} /\ bs[d].fn = bs[p].fn /\ d # p

(* Inside a function.                                                      *)
Penned(bs, p, P, fr, na) ==
  /\ Prelude(bs, p, fr[3].declarations_block)
  /\ \A y \in P : y.do = "leave block" => Opened(bs, p, y, fr)
  /\ \A x \in P : Awaits(bs, x, fr, na)
  /\ Scopes(bs, P, fr, na)
  /\ \A v \in 1..na : Lives(bs, p, P, fr, v)

(* Between two functions.                                                  *)
Stilled(bs, na) ==
  \A v \in 1..na : Marked(bs, "start", v) = {} \/ \E b, n : Left(bs, v, b, n)

(* Everywhere: what is allocated, and of which functions the code is.      *)
Sited(bs, na, gen) ==
  /\ Fresh(bs, na) /\ \A v \in 1..na : HasAlloca(bs, v)
  /\ \A b \in 1..Len(bs) : bs[b].fn \in gen

(* After an error nothing is claimed: catching it drops what was pending.  *)
LiveInv == Runs /\ errors = 0 =>
  /\ Nested(todo) /\ Outermost(frames) /\ Sited(blocks, n_allocas, generated)
  /\ IF Inside(Entries(todo)) THEN Penned(blocks, ip, Entries(todo), frames, n_allocas)
     ELSE Stilled(blocks, n_allocas)

-----------------------------------------------------------------------------
(* How an entry that is pushed, or taken, nests.                           *)
LEMMA NestedCons ==
  ASSUME NEW x, NEW s, IsSeq(s)
  PROVE  Nested(Cons(x, s)) <=> Nests(x, Entries(s)) /\ Nested(s)
<1> DEFINE t == Cons(x, s)
<1>1. /\ IsSeq(t) /\ Len(t) = Len(s) + 1 /\ Len(s) \in Nat /\ t[1] = x
      /\ \A k \in 1..Len(s) : t[k + 1] = s[k]
  BY ConsIs DEF Cons
<1>2. /\ After(t, 1) = Entries(s)
      /\ \A k \in 1..Len(s) : After(t, k + 1) = After(s, k)
  BY ConsEntries
<1> HIDE DEF t
<1>3. 1 \in 1..Len(t) /\ \A k \in 1..Len(s) : k + 1 \in 1..Len(t)
  BY <1>1
<1>4. ASSUME Nested(t)
      PROVE  Nests(x, Entries(s)) /\ Nested(s)
  <2>1. \A k \in 1..Len(t) : Nests(t[k], After(t, k))
    BY <1>4 DEF Nested
  <2>2. Nests(x, Entries(s))
    BY <1>1, <1>2, <1>3, <2>1
  <2>3. \A k \in 1..Len(s) : Nests(s[k], After(s, k))
    BY <1>1, <1>2, <1>3, <2>1
  <2> QED
    BY <2>2, <2>3 DEF Nested
<1>5. ASSUME Nests(x, Entries(s)), Nested(s)
      PROVE  Nested(t)
  <2>1. ASSUME NEW k \in 1..Len(t)
        PROVE  Nests(t[k], After(t, k))
    <3>1. CASE k = 1
      BY <1>1, <1>2, <1>5, <3>1
    <3>2. CASE k # 1
      <4>1. k - 1 \in 1..Len(s) /\ (k - 1) + 1 = k
        BY <1>1, <3>2
      <4>2. t[k] = s[k - 1] /\ After(t, k) = After(s, k - 1)
        BY <1>1, <1>2, <4>1
      <4> QED
        BY <1>5, <4>1, <4>2 DEF Nested
    <3> QED
      BY <3>1, <3>2
  <2> QED
    BY <1>1, <2>1 DEF Nested
<1> QED
  BY <1>4, <1>5 DEF t

LEMMA NestsBare ==
  ASSUME NEW x, NEW R, Bare(x)
  PROVE  Nests(x, R)
<1>1. Refs(x) = {} /\ Vars(x) = {} /\ x.do # "leave block"
  BY DEF Bare
<1> QED
  BY ONLY <1>1 DEF Nests

(* Bare instructions may be put in front.                                  *)
LEMMA NestedJoin ==
  ASSUME NEW b, NEW s, IsSeq(b), Nested(s), \A k \in 1..Len(b) : Bare(b[k])
  PROVE  Nested(b \o s) /\ Entries(b \o s) = Entries(b) \union Entries(s)
<1> DEFINE t == b \o s
           n == Len(b)
           m == Len(s)
<1>1. IsSeq(s) /\ \A k \in 1..m : Nests(s[k], After(s, k))
  BY DEF Nested
<1>2. /\ IsSeq(t) /\ Len(t) = n + m /\ n \in Nat /\ m \in Nat
      /\ \A k \in 1..n : t[k] = b[k]
      /\ \A k \in 1..m : t[n + k] = s[k]
  BY <1>1, JoinIs
<1> HIDE DEF t, n, m
<1>3. \A k \in 1..Len(t) : k \in 1..n \/ (k - n \in 1..m /\ n + (k - n) = k)
  BY <1>2
<1>4. \A k \in 1..m : n + k \in 1..Len(t)
  BY <1>2
<1>5. \A k \in 1..n : k \in 1..Len(t)
  BY <1>2
<1>6. ASSUME NEW k \in 1..m
      PROVE  After(t, n + k) = After(s, k)
  <2>1. ASSUME NEW e \in After(t, n + k)
        PROVE  e \in After(s, k)
    <3>1. PICK j \in ((n + k) + 1)..Len(t) : e = t[j]
      BY <2>1 DEF After
    <3>2. j - n \in (k + 1)..m /\ j - n \in 1..m /\ n + (j - n) = j
      BY <1>2, <3>1
    <3>3. e = s[j - n]
      BY <1>2, <3>1, <3>2
    <3> QED
      BY <3>2, <3>3 DEF After, m
  <2>2. ASSUME NEW e \in After(s, k)
        PROVE  e \in After(t, n + k)
    <3>1. PICK j \in (k + 1)..m : e = s[j]
      BY <2>2 DEF After, m
    <3>2. n + j \in ((n + k) + 1)..Len(t) /\ j \in 1..m
      BY <1>2, <3>1
    <3>3. e = t[n + j]
      BY <1>2, <3>1, <3>2
    <3> QED
      BY <3>2, <3>3 DEF After
  <2> QED
    BY <2>1, <2>2
<1>7. ASSUME NEW k \in 1..Len(t)
      PROVE  Nests(t[k], After(t, k))
  <2>1. CASE k \in 1..n
    BY <1>2, <2>1, NestsBare DEF n
  <2>2. CASE k \notin 1..n
    <3>1. k - n \in 1..m /\ n + (k - n) = k
      BY <1>3, <2>2
    <3>2. t[k] = s[k - n] /\ After(t, k) = After(s, k - n)
      BY <1>2, <1>6, <3>1
    <3> QED
      BY <1>1, <3>1, <3>2
  <2> QED
    BY <2>1, <2>2
<1>8. Nested(t)
  BY <1>2, <1>7 DEF Nested
<1>9. ASSUME NEW e \in Entries(t)
      PROVE  e \in Entries(b) \union Entries(s)
  <2>1. PICK k \in 1..Len(t) : e = t[k]
    BY <1>9 DEF Entries
  <2>2. CASE k \in 1..n
    BY <1>2, <2>1, <2>2 DEF Entries, n
  <2>3. CASE k \notin 1..n
    <3>1. k - n \in 1..m /\ e = s[k - n]
      BY <1>2, <1>3, <2>1, <2>3
    <3> QED
      BY <3>1 DEF Entries, m
  <2> QED
    BY <2>2, <2>3
<1>10. ASSUME NEW e \in Entries(b) \union Entries(s)
       PROVE  e \in Entries(t)
  <2>1. CASE e \in Entries(b)
    <3>1. PICK k \in 1..n : e = b[k]
      BY <2>1 DEF Entries, n
    <3> QED
      BY <1>2, <1>5, <3>1 DEF Entries
  <2>2. CASE e \notin Entries(b)
    <3>1. PICK k \in 1..m : e = s[k]
      BY <1>10, <2>2 DEF Entries, m
    <3> QED
      BY <1>2, <1>4, <3>1 DEF Entries
  <2> QED
    BY <2>1, <2>2
<1> QED
  BY <1>8, <1>9, <1>10 DEF t

LEMMA NestedPop ==
  ASSUME NEW s, Nested(s), s # <<>>
  PROVE  /\ Nests(Head(s), Entries(Tail(s))) /\ Nested(Tail(s)) /\ IsSeq(Tail(s))
         /\ Entries(s) = {Head(s)} \union Entries(Tail(s))
<1>1. IsSeq(s)
  BY DEF Nested
<1>2. s = Cons(Head(s), Tail(s)) /\ IsSeq(Tail(s))
  BY <1>1, HeadTail
<1> DEFINE x == Head(s)
           r == Tail(s)
<1> HIDE DEF x, r
<1>3. s = Cons(x, r) /\ IsSeq(r) /\ Nested(s)
  BY <1>2 DEF x, r
<1>4. Nests(x, Entries(r)) /\ Nested(r)
  BY ONLY <1>3, NestedCons
<1>5. Entries(s) = {x} \union Entries(r)
  BY ONLY <1>3, ConsEntries
<1> QED
  BY <1>3, <1>4, <1>5 DEF x, r

(* What happens to the basic blocks: c comes of bs by jumps from p to A    *)
(* and from q to B, by code in the basic blocks Q and by new basic blocks. *)
JumpsOnly(bs, c, p, A, q, B) ==
  \A k \in 1..Len(c) : \A t \in Targets(Code0(c, k)) :
    \/ k \in 1..Len(bs) /\ t \in Targets(Code0(bs, k))
    \/ k = p /\ t \in A
    \/ k = q /\ t \in B
Touched(bs, c, Q) == \A k \in 1..Len(bs) : k \in Q \/ Code0(c, k) = Code0(bs, k)
SameMarks(bs, c, op) == \A v : Marked(c, op, v) = Marked(bs, op, v)
Remade(bs, c) == SameMarks(bs, c, "alloca") /\ SameMarks(bs, c, "poison")
Accesses(bs, c, u, Q) ==
  \A v : \A k \in Accessors(c, v) : k \in Accessors(bs, v) \/ (v = u /\ k \in Q)

(* Code at p, which accesses no variable but u.                            *)
Effect(bs, c, p, A, Q, u) ==
  /\ Shape(bs) /\ Shape(c) /\ Grows(bs, c) /\ Touched(bs, c, Q)
  /\ JumpsOnly(bs, c, p, A, p, A)
  /\ SameMarks(bs, c, "start") /\ SameMarks(bs, c, "end") /\ Remade(bs, c)
  /\ Accesses(bs, c, u, Q)

LEMMA MarksAdd ==
  ASSUME NEW bs, NEW c, NEW b, NEW s, Adds(bs, c, b, s), NEW op, NEW v
  PROVE  /\ \A k \in Marked(bs, op, v) : k \in Marked(c, op, v)
         /\ \A k \in Marked(c, op, v) :
              k \in Marked(bs, op, v) \/ (k = b /\ \E j \in 1..Len(s) : s[j].op = op /\ s[j].var = v)
         /\ \A j \in 1..Len(s) : s[j].op = op /\ s[j].var = v => b \in Marked(c, op, v)
<1> DEFINE w == Code0(bs, b)
           z == Code0(c, b)
<1>1. /\ Len(c) = Len(bs) /\ b \in 1..Len(bs)
      /\ \A k \in 1..Len(bs) : k # b => Code0(c, k) = Code0(bs, k)
      /\ Longer(w, z, s)
  BY DEF Adds
<1>2. /\ Len(w) \in Nat /\ Len(s) \in Nat /\ Len(z) \in Nat
      /\ \A k \in 1..Len(w) : k \in 1..Len(z) /\ z[k] = w[k]
      /\ \A k \in 1..Len(z) : k \notin 1..Len(w) =>
           k - Len(w) \in 1..Len(s) /\ z[k] = s[k - Len(w)]
  BY ONLY <1>1, LongerAt
<1>3. /\ Len(z) = Len(w) + Len(s)
      /\ \A k \in 1..Len(s) : z[Len(w) + k] = s[k]
  BY ONLY <1>1 DEF Longer
<1>4. ASSUME NEW k \in Marked(bs, op, v)
      PROVE  k \in Marked(c, op, v)
  <2>1. k \in 1..Len(c)
    BY <1>1 DEF Marked
  <2>2. CASE k # b
    BY <1>1, <2>1, <2>2 DEF Marked
  <2>3. CASE k = b
    <3>1. PICK i \in 1..Len(w) : w[i].op = op /\ w[i].var = v
      BY <2>3 DEF Marked
    <3>2. i \in 1..Len(z) /\ z[i].op = op /\ z[i].var = v
      BY <1>2, <3>1
    <3> QED
      BY <2>1, <2>3, <3>2 DEF Marked
  <2> QED
    BY <2>2, <2>3
<1>5. ASSUME NEW k \in Marked(c, op, v)
      PROVE  k \in Marked(bs, op, v) \/ (k = b /\ \E j \in 1..Len(s) : s[j].op = op /\ s[j].var = v)
  <2>1. k \in 1..Len(bs)
    BY <1>1 DEF Marked
  <2>2. CASE k # b
    BY <1>1, <2>1, <2>2 DEF Marked
  <2>3. CASE k = b
    <3>1. PICK i \in 1..Len(z) : z[i].op = op /\ z[i].var = v
      BY <2>3 DEF Marked
    <3>2. CASE i \in 1..Len(w)
      <4>1. w[i].op = op /\ w[i].var = v
        BY <1>2, <3>1, <3>2
      <4> QED
        BY <2>1, <2>3, <3>2, <4>1 DEF Marked
    <3>3. CASE i \notin 1..Len(w)
      BY <1>2, <2>3, <3>1, <3>3
    <3> QED
      BY <3>2, <3>3
  <2> QED
    BY <2>2, <2>3
<1>6. ASSUME NEW j \in 1..Len(s), s[j].op = op, s[j].var = v
      PROVE  b \in Marked(c, op, v)
  <2>1. Len(w) + j \in 1..Len(z)
    BY <1>2, <1>3
  <2>2. z[Len(w) + j].op = op /\ z[Len(w) + j].var = v
    BY <1>3, <1>6
  <2> QED
    BY <1>1, <2>1, <2>2 DEF Marked
<1> QED
  BY <1>4, <1>5, <1>6

(* One instruction.                                                        *)
LEMMA MarksOne ==
  ASSUME NEW bs, NEW c, NEW b, NEW x, AddsOne(bs, c, b, x), NEW op, NEW v
  PROVE  /\ \A k \in Marked(bs, op, v) : k \in Marked(c, op, v)
         /\ \A k \in Marked(c, op, v) :
              k \in Marked(bs, op, v) \/ (k = b /\ x.op = op /\ x.var = v)
         /\ x.op = op /\ x.var = v => b \in Marked(c, op, v)
<1> DEFINE s == <<x>>
<1>1. Len(s) = 1 /\ s[1] = x
  BY OneIs
<1>2. Adds(bs, c, b, s)
  BY DEF AddsOne
<1> HIDE DEF s
<1>3. 1 \in 1..Len(s) /\ \A j \in 1..Len(s) : s[j] = x
  BY <1>1
<1>4. /\ \A k \in Marked(bs, op, v) : k \in Marked(c, op, v)
      /\ \A k \in Marked(c, op, v) :
           k \in Marked(bs, op, v) \/ (k = b /\ \E j \in 1..Len(s) : s[j].op = op /\ s[j].var = v)
      /\ \A j \in 1..Len(s) : s[j].op = op /\ s[j].var = v => b \in Marked(c, op, v)
  BY ONLY <1>2, MarksAdd
<1> QED
  BY ONLY <1>1, <1>3, <1>4

LEMMA MarksOther ==
  ASSUME NEW bs, NEW c, NEW b, NEW x, AddsOne(bs, c, b, x), NEW op, x.op # op
  PROVE  SameMarks(bs, c, op)
<1>1. ASSUME NEW v
      PROVE  Marked(c, op, v) = Marked(bs, op, v)
  <2>1. \A k \in Marked(bs, op, v) : k \in Marked(c, op, v)
    BY MarksOne
  <2>2. \A k \in Marked(c, op, v) : k \in Marked(bs, op, v)
    BY MarksOne
  <2> QED
    BY ONLY <2>1, <2>2
<1> QED
  BY <1>1 DEF SameMarks

(* An instruction that is no mark at p.                                    *)
LEMMA EffectOne ==
  ASSUME NEW bs, NEW c, NEW p, NEW x, AddsOne(bs, c, p, x), NEW u, NEW A, NEW Q, p \in Q,
         x.op \notin {"start", "end", "alloca", "poison"},
         x.op \in {"load", "store"} => x.var = u,
         IsTerminator(x) => \A t \in ToSet(x.to) : t \in A
  PROVE  Effect(bs, c, p, A, Q, u)
<1>1. /\ Shape(bs) /\ Shape(c) /\ Len(c) = Len(bs) /\ p \in 1..Len(bs)
      /\ \A k \in 1..Len(bs) : k # p => Code0(c, k) = Code0(bs, k)
      /\ Longer(Code0(bs, p), Code0(c, p), <<x>>)
  BY DEF AddsOne, Adds
<1>2. Grows(bs, c)
  BY AddsGrows DEF AddsOne
<1>3. Touched(bs, c, Q)
  BY <1>1 DEF Touched
<1>4. JumpsOnly(bs, c, p, A, p, A)
  <2>1. CASE IsTerminator(x)
    <3>1. Targets(Code0(c, p)) \subseteq Targets(Code0(bs, p)) \union ToSet(x.to)
      BY ONLY <1>1, <2>1, LongerEnd
    <3> QED
      BY <1>1, <2>1, <3>1 DEF JumpsOnly
  <2>2. CASE ~IsTerminator(x)
    <3> DEFINE s == <<x>>
    <3>1. Len(s) = 1 /\ s[1] = x
      BY OneIs
    <3> HIDE DEF s
    <3>2. \A k \in 1..Len(s) : ~IsTerminator(s[k])
      BY ONLY <2>2, <3>1
    <3>3. Longer(Code0(bs, p), Code0(c, p), s)
      BY <1>1 DEF s
    <3>4. Targets(Code0(c, p)) = Targets(Code0(bs, p))
      BY ONLY <3>2, <3>3, LongerPlain
    <3> QED
      BY <1>1, <3>4 DEF JumpsOnly
  <2> QED
    BY <2>1, <2>2
<1>5. SameMarks(bs, c, "start") /\ SameMarks(bs, c, "end") /\ Remade(bs, c)
  <2>1. x.op # "start" /\ x.op # "end" /\ x.op # "alloca" /\ x.op # "poison"
    OBVIOUS
  <2> QED
    BY ONLY AddsOne(bs, c, p, x), <2>1, MarksOther DEF Remade
<1>6. Accesses(bs, c, u, Q)
  <2> SUFFICES ASSUME NEW v, NEW k \in Accessors(c, v), k \notin Accessors(bs, v)
               PROVE  v = u /\ k \in Q
    BY DEF Accesses
  <2>1. CASE k \in Marked(c, "load", v)
    <3>1. k = p /\ x.op = "load" /\ x.var = v
      BY <2>1, MarksOne DEF Accessors
    <3> QED
      BY <3>1
  <2>2. CASE k \in Marked(c, "store", v)
    <3>1. k = p /\ x.op = "store" /\ x.var = v
      BY <2>2, MarksOne DEF Accessors
    <3> QED
      BY <3>1
  <2> QED
    BY <2>1, <2>2 DEF Accessors
<1> QED
  BY <1>1, <1>2, <1>3, <1>4, <1>5, <1>6 DEF Effect

LEMMA EffectTrans ==
  ASSUME NEW bs, NEW c, NEW d, NEW p, NEW A, NEW Q, NEW u,
         Effect(bs, c, p, A, Q, u), Effect(c, d, p, A, Q, u), Len(c) = Len(bs)
  PROVE  Effect(bs, d, p, A, Q, u)
<1>1. Shape(bs) /\ Shape(d)
  BY DEF Effect
<1>2. Grows(bs, d)
  BY DEF Effect, Grows
<1>3. Touched(bs, d, Q)
  BY DEF Effect, Touched
<1>4. JumpsOnly(bs, d, p, A, p, A)
  BY DEF Effect, JumpsOnly
<1>5. SameMarks(bs, d, "start") /\ SameMarks(bs, d, "end") /\ Remade(bs, d)
  BY DEF Effect, SameMarks, Remade
<1>6. Accesses(bs, d, u, Q)
  BY DEF Effect, Accesses
<1> QED
  BY <1>1, <1>2, <1>3, <1>4, <1>5, <1>6 DEF Effect

(* Nothing, or a basic block is inserted.                                  *)
LEMMA EffectSame ==
  ASSUME NEW bs, NEW c, Shape(bs), Shape(c), Len(c) = Len(bs),
         \A k \in 1..Len(bs) : /\ c[k].fn = bs[k].fn /\ Code0(c, k) = Code0(bs, k)
                               /\ bs[k].inserted => c[k].inserted,
         NEW p, NEW A, NEW Q, NEW u
  PROVE  Effect(bs, c, p, A, Q, u)
<1>1. Len(bs) \in Nat
  BY ListIs DEF Shape
<1>2. Grows(bs, c)
  BY <1>1 DEF Grows
<1>3. \A op : SameMarks(bs, c, op)
  BY DEF SameMarks, Marked
<1>4. Accesses(bs, c, u, Q)
  BY <1>3 DEF Accesses, Accessors, SameMarks
<1> QED
  BY <1>2, <1>3, <1>4 DEF Effect, Touched, JumpsOnly, Remade

LEMMA EffectInserted ==
  ASSUME NEW bs, Shape(bs), NEW b \in 1..Len(bs), NEW p, NEW A, NEW Q, NEW u
  PROVE  Effect(bs, Inserted(bs, b), p, A, Q, u) /\ Len(Inserted(bs, b)) = Len(bs)
<1> DEFINE c == Inserted(bs, b)
<1>1. /\ Shape(c) /\ Len(c) = Len(bs) /\ c[b].inserted
      /\ \A k \in 1..Len(bs) : c[k].fn = bs[k].fn /\ Code0(c, k) = Code0(bs, k)
      /\ \A k \in 1..Len(bs) : k # b => c[k].inserted = bs[k].inserted
  BY InsertedIs
<1> HIDE DEF c
<1>2. \A k \in 1..Len(bs) : /\ c[k].fn = bs[k].fn /\ Code0(c, k) = Code0(bs, k)
                            /\ bs[k].inserted => c[k].inserted
  BY <1>1
<1>3. Effect(bs, c, p, A, Q, u)
  BY <1>1, <1>2, EffectSame
<1> QED
  BY <1>1, <1>3 DEF c

(* New basic blocks are those of the function f.                           *)
Beyond(bs, c, f) == \A k \in (Len(bs) + 1)..Len(c) : c[k].fn = f
(* Jumps go to basic blocks that are there.                                *)
Ranged(bs) == \A k \in 1..Len(bs) : \A t \in Targets(Code0(bs, k)) : t \in 1..Len(bs)

LEMMA EffectIs ==
  ASSUME NEW bs, NEW c, NEW p, NEW A, NEW Q, NEW u, Effect(bs, c, p, A, Q, u)
  PROVE  /\ Len(bs) \in Nat /\ Len(c) \in Nat /\ Len(bs) <= Len(c)
         /\ \A k \in 1..Len(bs) : /\ k \in 1..Len(c) /\ c[k].fn = bs[k].fn
                                  /\ bs[k].inserted => c[k].inserted
<1>1. Grows(bs, c)
  BY DEF Effect
<1> QED
  BY <1>1 DEF Grows

(* Control still enters what is left.                                      *)
LEMMA WalledOn ==
  ASSUME NEW bs, NEW c, NEW p, NEW A, NEW Q, NEW u, Effect(bs, c, p, A, Q, u),
         NEW b, NEW n, Walled(bs, b, n), \A t \in A : t \notin Region(b, n)
  PROVE  Walled(c, b, n)
<1>1. /\ b \in Nat \ {0} /\ n \in Nat /\ b + 2 <= n /\ n <= Len(bs)
      /\ \A k \in Region(b, n) : bs[k].fn = bs[b].fn
      /\ \A k \in 1..Len(bs) : \A t \in Targets(Code0(bs, k)) :
           t \in Region(b, n) => k \in Region(b, n) \/ k = b
  BY DEF Walled
<1>2. /\ Len(bs) \in Nat /\ Len(c) \in Nat /\ Len(bs) <= Len(c)
      /\ \A k \in 1..Len(bs) : c[k].fn = bs[k].fn
  BY EffectIs
<1>3. b \in 1..Len(bs) /\ n <= Len(c) /\ \A k \in Region(b, n) : k \in 1..Len(bs)
  BY <1>1, <1>2 DEF Region
<1>4. \A k \in Region(b, n) : c[k].fn = c[b].fn
  BY <1>1, <1>2, <1>3
<1>5. JumpsOnly(bs, c, p, A, p, A)
  BY DEF Effect
<1>6. ASSUME NEW k \in 1..Len(c), NEW t \in Targets(Code0(c, k)), t \in Region(b, n)
      PROVE  k \in Region(b, n) \/ k = b
  <2>1. t \notin A
    BY <1>6
  <2>2. k \in 1..Len(bs) /\ t \in Targets(Code0(bs, k))
    BY <1>5, <2>1 DEF JumpsOnly
  <2> QED
    BY <1>1, <1>6, <2>2
<1> QED
  BY <1>1, <1>3, <1>4, <1>6 DEF Walled

LEMMA LeftOn ==
  ASSUME NEW bs, NEW c, NEW p, NEW A, NEW Q, NEW u, Effect(bs, c, p, A, Q, u),
         NEW b, NEW n, NEW v, Left(bs, v, b, n), \A t \in A : t \notin Region(b, n), v # u
  PROVE  Left(c, v, b, n)
<1>1. Walled(bs, b, n) /\ Held(bs, v, b, n) /\ bs[b + 2].inserted
  BY DEF Left
<1>2. \A k \in Marked(bs, "end", v) : k = b + 2
  BY DEF Left
<1>3. Walled(c, b, n)
  BY <1>1, WalledOn
<1>4. b + 2 \in 1..Len(bs)
  BY <1>1, EffectIs DEF Walled
<1>5. c[b + 2].inserted
  BY <1>1, <1>4, EffectIs
<1>6. SameMarks(bs, c, "start") /\ SameMarks(bs, c, "end") /\ Accesses(bs, c, u, Q)
  BY DEF Effect
<1>7. Marked(c, "start", v) = Marked(bs, "start", v) /\ Marked(c, "end", v) = Marked(bs, "end", v)
  BY <1>6 DEF SameMarks
<1>8. \A k \in Accessors(c, v) : k \in Accessors(bs, v)
  BY <1>6 DEF Accesses
<1>9. Held(c, v, b, n)
  BY <1>1, <1>7, <1>8 DEF Held
<1> QED
  BY <1>2, <1>3, <1>5, <1>7, <1>9 DEF Left

(* What is not left yet has the new basic blocks, too.                     *)
LEMMA RegionWide ==
  ASSUME NEW b \in Nat, NEW n \in Nat, NEW m \in Nat, n <= m, b + 2 <= n
  PROVE  /\ \A k \in Region(b, n) : k \in Region(b, m) /\ k \in 1..n
         /\ \A k \in (n + 1)..m : k \in Region(b, m)
         /\ \A k \in Region(b, m) : k \in Region(b, n) \/ k \in (n + 1)..m
BY DEF Region

LEMMA WalledWide ==
  ASSUME NEW bs, NEW c, NEW p, NEW A, NEW Q, NEW u, Effect(bs, c, p, A, Q, u), Ranged(bs),
         NEW b, Walled(bs, b, Len(bs)), Beyond(bs, c, bs[b].fn),
         p \in Region(b, Len(c)) \/ p = b
  PROVE  Walled(c, b, Len(c))
<1> DEFINE n == Len(bs)
           m == Len(c)
<1>1. /\ b \in Nat \ {0} /\ n \in Nat /\ b + 2 <= n
      /\ \A k \in Region(b, n) : bs[k].fn = bs[b].fn
      /\ \A k \in 1..n : \A t \in Targets(Code0(bs, k)) :
           t \in Region(b, n) => k \in Region(b, n) \/ k = b
  BY DEF Walled
<1>2. /\ n \in Nat /\ m \in Nat /\ n <= m
      /\ \A k \in 1..n : c[k].fn = bs[k].fn
  BY EffectIs
<1>3. b \in 1..n /\ b + 2 <= m
  BY <1>1, <1>2
<1>4. /\ \A k \in Region(b, n) : k \in Region(b, m) /\ k \in 1..n
      /\ \A k \in Region(b, m) : k \in Region(b, n) \/ k \in (n + 1)..m
  BY <1>1, <1>2, RegionWide
<1>5. \A k \in (n + 1)..m : c[k].fn = bs[b].fn
  BY DEF Beyond
<1>6. \A k \in Region(b, m) : c[k].fn = c[b].fn
  BY <1>1, <1>2, <1>3, <1>4, <1>5
<1>7. JumpsOnly(bs, c, p, A, p, A) /\ \A k \in 1..n : \A t \in Targets(Code0(bs, k)) : t \in 1..n
  BY DEF Effect, Ranged
<1>8. ASSUME NEW k \in 1..m, NEW t \in Targets(Code0(c, k)), t \in Region(b, m)
      PROVE  k \in Region(b, m) \/ k = b
  <2>1. CASE k \in 1..n /\ t \in Targets(Code0(bs, k))
    <3>1. t \in 1..n
      BY <1>7, <2>1
    <3>2. t \in Region(b, n)
      BY <1>2, <1>4, <1>8, <3>1
    <3> QED
      BY <1>1, <1>4, <2>1, <3>2
  <2>2. CASE k = p
    BY <2>2
  <2> QED
    BY <1>7, <2>1, <2>2 DEF JumpsOnly
<1> QED
  BY <1>1, <1>2, <1>3, <1>6, <1>8 DEF Walled

LEMMA HeldWide ==
  ASSUME NEW bs, NEW c, NEW p, NEW A, NEW Q, NEW u, Effect(bs, c, p, A, Q, u),
         NEW b \in Nat, NEW v, Held(bs, v, b, Len(bs)), b + 2 <= Len(bs),
         \A k \in Q : k \in Region(b, Len(c))
  PROVE  Held(c, v, b, Len(c))
<1>1. Len(bs) \in Nat /\ Len(c) \in Nat /\ Len(bs) <= Len(c)
  BY EffectIs
<1>2. \A k \in Region(b, Len(bs)) : k \in Region(b, Len(c))
  BY <1>1, RegionWide
<1>3. SameMarks(bs, c, "start") /\ Accesses(bs, c, u, Q)
  BY DEF Effect
<1>4. \A k \in Marked(c, "start", v) : k = b
  BY <1>3 DEF Held, SameMarks
<1>5. \A k \in Accessors(c, v) : k \in Accessors(bs, v) \/ k \in Q
  BY <1>3 DEF Accesses
<1> QED
  BY <1>2, <1>4, <1>5 DEF Held

LEMMA OpenedOn ==
  ASSUME NEW bs, NEW c, NEW p, NEW A, NEW Q, NEW u, Effect(bs, c, p, A, Q, u), Ranged(bs),
         NEW p1, NEW y, NEW fr, Opened(bs, p1, y, fr),
         Beyond(bs, c, bs[y.begin].fn),
         p \in Region(y.begin, Len(c)) \/ p = y.begin,
         \A k \in Q : k \in Region(y.begin, Len(c)),
         NEW p2, p2 \in Region(y.begin, Len(c))
  PROVE  Opened(c, p2, y, fr)
<1>1. /\ y.old < Len(fr) /\ fr[3].declarations_block < y.begin
      /\ Walled(bs, y.begin, Len(bs))
      /\ \A v \in Owns(fr[y.old + 1]) :
           Held(bs, v, y.begin, Len(bs)) /\ Marked(bs, "end", v) = {}
  BY DEF Opened
<1>2. Walled(c, y.begin, Len(c))
  BY <1>1, WalledWide
<1>3. y.begin \in Nat /\ y.begin + 2 <= Len(bs)
  BY <1>1 DEF Walled
<1>4. \A v \in Owns(fr[y.old + 1]) : Held(c, v, y.begin, Len(c))
  BY <1>1, <1>3, HeldWide
<1>5. SameMarks(bs, c, "end")
  BY DEF Effect
<1>6. \A v \in Owns(fr[y.old + 1]) : Marked(c, "end", v) = {}
  BY <1>1, <1>5 DEF SameMarks
<1> QED
  BY <1>1, <1>2, <1>4, <1>6 DEF Opened

LEMMA FirstOn ==
  ASSUME NEW bs, NEW c, NEW p, NEW A, NEW Q, NEW u, Effect(bs, c, p, A, Q, u),
         NEW d, IsFirst(bs, d)
  PROVE  IsFirst(c, d) /\ c[d].fn = bs[d].fn /\ d \in 1..Len(bs) /\ d \in Nat
<1>1. /\ d \in 1..Len(bs) /\ bs[d].inserted
      /\ \A b \in 1..Len(bs) : bs[b].fn = bs[d].fn => d <= b
  BY DEF IsFirst
<1>2. /\ Len(bs) \in Nat /\ Len(c) \in Nat /\ Len(bs) <= Len(c)
      /\ \A k \in 1..Len(bs) : /\ k \in 1..Len(c) /\ c[k].fn = bs[k].fn
                               /\ bs[k].inserted => c[k].inserted
  BY EffectIs
<1>3. ASSUME NEW b \in 1..Len(c), c[b].fn = c[d].fn
      PROVE  d <= b
  <2>1. CASE b \in 1..Len(bs)
    BY <1>1, <1>2, <1>3, <2>1
  <2>2. CASE b \notin 1..Len(bs)
    BY <1>1, <1>2, <2>2
  <2> QED
    BY <2>1, <2>2
<1>4. d \in 1..Len(c) /\ c[d].inserted /\ c[d].fn = bs[d].fn
  BY <1>1, <1>2
<1> QED
  BY <1>1, <1>2, <1>3, <1>4 DEF IsFirst

(* The first basic block of the function that is generated gets no code.   *)
Spared(bs, c, Q, d) ==
  IsFirst(bs, d) /\ \A k \in Q : k \in 1..Len(c) /\ c[k].fn = bs[d].fn /\ k # d

LEMMA FirstSpared ==
  ASSUME NEW bs, NEW c, NEW p, NEW A, NEW Q, NEW u, Effect(bs, c, p, A, Q, u),
         NEW d1, Spared(bs, c, Q, d1), NEW d, IsFirst(bs, d)
  PROVE  d \notin Q /\ Code0(c, d) = Code0(bs, d)
<1>1. IsFirst(bs, d1) /\ \A k \in Q : k \in 1..Len(c) /\ c[k].fn = bs[d1].fn /\ k # d1
  BY DEF Spared
<1>2. /\ d \in 1..Len(bs) /\ \A b \in 1..Len(bs) : bs[b].fn = bs[d].fn => d <= b
      /\ d1 \in 1..Len(bs) /\ \A b \in 1..Len(bs) : bs[b].fn = bs[d1].fn => d1 <= b
  BY <1>1 DEF IsFirst
<1>3. Len(bs) \in Nat /\ \A k \in 1..Len(bs) : c[k].fn = bs[k].fn
  BY EffectIs
<1>4. d \notin Q
  <2> SUFFICES ASSUME d \in Q
               PROVE  FALSE
    OBVIOUS
  <2>1. bs[d].fn = bs[d1].fn /\ d # d1
    BY <1>1, <1>2, <1>3
  <2>2. d <= d1 /\ d1 <= d
    BY <1>2, <2>1
  <2> QED
    BY <1>2, <1>3, <2>1, <2>2
<1>5. Touched(bs, c, Q)
  BY DEF Effect
<1> QED
  BY <1>2, <1>4, <1>5 DEF Touched

LEMMA AllocatedOn ==
  ASSUME NEW bs, NEW c, NEW p, NEW A, NEW Q, NEW u, Effect(bs, c, p, A, Q, u),
         NEW d1, Spared(bs, c, Q, d1), NEW d, NEW v, AllocatedAt(bs, v, d),
         v = u => d = d1
  PROVE  AllocatedAt(c, v, d)
<1>1. /\ IsFirst(bs, d) /\ Makes(bs, d, v) /\ ~Late(Code0(bs, d))
      /\ \A b \in Accessors(bs, v) : bs[b].fn = bs[d].fn
  BY DEF AllocatedAt
<1>2. IsFirst(c, d) /\ c[d].fn = bs[d].fn
  BY <1>1, FirstOn
<1>3. ~Late(Code0(c, d))
  BY <1>1, FirstSpared
<1>4. Remade(bs, c) /\ Accesses(bs, c, u, Q)
  BY DEF Effect
<1>5. Makes(c, d, v)
  BY <1>1, <1>4 DEF Remade, SameMarks, Makes
<1>6. ASSUME NEW b \in Accessors(c, v)
      PROVE  c[b].fn = c[d].fn
  <2>1. CASE b \in Accessors(bs, v)
    <3>1. b \in 1..Len(bs)
      BY <2>1 DEF Accessors, Marked
    <3> QED
      BY <1>1, <1>2, <2>1, <3>1, EffectIs
  <2>2. CASE v = u /\ b \in Q
    BY <1>2, <2>2 DEF Spared
  <2> QED
    BY <1>4, <2>1, <2>2 DEF Accesses
<1> QED
  BY <1>2, <1>3, <1>5, <1>6 DEF AllocatedAt

LEMMA AwaitsOn ==
  ASSUME NEW bs, NEW c, NEW p, NEW A, NEW Q, NEW u, Effect(bs, c, p, A, Q, u),
         NEW fr, Spared(bs, c, Q, fr[3].declarations_block),
         NEW x, NEW na, Awaits(bs, x, fr, na), x.do = "declare" => x.var # u
  PROVE  Awaits(c, x, fr, na)
<1> DEFINE d == fr[3].declarations_block
<1>1. Spared(bs, c, Q, d)
  OBVIOUS
<1>2. \A v \in Vars(x) :
        /\ v \in 1..na /\ Marked(bs, "start", v) = {} /\ AllocatedAt(bs, v, d)
        /\ x.do = "declare" =>
             Accessors(bs, v) = {} /\ Marked(bs, "end", v) = {} /\ \A j \in 1..Len(fr) : v \notin Owns(fr[j])
  BY DEF Awaits
<1>3. \A v \in Vars(x) : AllocatedAt(c, v, d)
  <2> HIDE DEF d
  <2> QED
    BY <1>1, <1>2, AllocatedOn
<1>4. SameMarks(bs, c, "start") /\ SameMarks(bs, c, "end") /\ Accesses(bs, c, u, Q)
  BY DEF Effect
<1>5. \A v \in Vars(x) : Marked(c, "start", v) = {}
  BY <1>2, <1>4 DEF SameMarks
<1>6. ASSUME x.do = "declare", NEW v \in Vars(x)
      PROVE  Accessors(c, v) = {} /\ Marked(c, "end", v) = {} /\ \A j \in 1..Len(fr) : v \notin Owns(fr[j])
  <2>1. v # u
    BY <1>6 DEF Vars
  <2>2. Accessors(c, v) = {}
    BY <1>2, <1>4, <1>6, <2>1 DEF Accesses
  <2>3. Marked(c, "end", v) = {}
    BY <1>2, <1>4, <1>6 DEF SameMarks
  <2> QED
    BY <1>2, <1>6, <2>2, <2>3
<1> QED
  BY <1>2, <1>3, <1>5, <1>6 DEF Awaits

LEMMA ScopesOn ==
  ASSUME NEW bs, NEW c, NEW p, NEW A, NEW Q, NEW u, Effect(bs, c, p, A, Q, u),
         NEW fr, Spared(bs, c, Q, fr[3].declarations_block),
         NEW P, NEW P2, \A y \in P : y.do = "leave block" => y \in P2,
         NEW na, Scopes(bs, P, fr, na)
  PROVE  Scopes(c, P2, fr, na)
<1> DEFINE d == fr[3].declarations_block
<1>1. Spared(bs, c, Q, d)
  OBVIOUS
<1> SUFFICES ASSUME NEW j \in 1..Len(fr)
             PROVE
    /\ \A v \in Owns(fr[j]) : v \in 1..na /\ AllocatedAt(c, v, d)
    /\ j = 3 => \A v \in Owns(fr[j]) : Marked(c, "start", v) = {}
    /\ j >= 4 => \E y \in P2 : y.do = "leave block" /\ y.old = j - 1
    /\ \A i \in 1..Len(fr) : i # j => \A v \in Owns(fr[j]) : v \notin Owns(fr[i])
  BY DEF Scopes
<1>2. /\ \A v \in Owns(fr[j]) : v \in 1..na /\ AllocatedAt(bs, v, d)
      /\ j = 3 => \A v \in Owns(fr[j]) : Marked(bs, "start", v) = {}
      /\ j >= 4 => \E y \in P : y.do = "leave block" /\ y.old = j - 1
      /\ \A i \in 1..Len(fr) : i # j => \A v \in Owns(fr[j]) : v \notin Owns(fr[i])
  BY DEF Scopes
<1> HIDE DEF d
<1>3. \A v \in Owns(fr[j]) : AllocatedAt(c, v, d)
  BY <1>1, <1>2, AllocatedOn
<1>4. SameMarks(bs, c, "start")
  BY DEF Effect
<1>5. j = 3 => \A v \in Owns(fr[j]) : Marked(c, "start", v) = {}
  BY <1>2, <1>4 DEF SameMarks
<1>6. j >= 4 => \E y \in P2 : y.do = "leave block" /\ y.old = j - 1
  BY <1>2
<1> QED
  BY <1>2, <1>3, <1>5, <1>6

(* What is referred to after a step was referred to before, or is new.     *)
From(bs, p, P, r) == r > Len(bs) \/ r = p \/ \E x \in P : r \in Refs(x)

LEMMA FromAvoids ==
  ASSUME NEW bs, NEW p, NEW P, NEW r, From(bs, p, P, r),
         NEW b, NEW n, Walled(bs, b, n), Avoids(p, P, b, n), Len(bs) \in Nat
  PROVE  r \notin Region(b, n)
<1>1. b \in Nat /\ n \in Nat /\ b + 2 <= n /\ n <= Len(bs)
  BY DEF Walled
<1>2. CASE r > Len(bs)
  BY <1>1, <1>2 DEF Region
<1>3. CASE r = p
  BY <1>3 DEF Avoids
<1>4. CASE \E x \in P : r \in Refs(x)
  BY <1>4 DEF Avoids
<1> QED
  BY <1>2, <1>3, <1>4 DEF From

LEMMA GoneOn ==
  ASSUME NEW bs, NEW c, NEW src, NEW A, NEW Q, NEW u, Effect(bs, c, src, A, Q, u),
         NEW p, NEW P, NEW v, Gone(bs, p, P, v), v # u,
         NEW p2, NEW P2, From(bs, p, P, p2),
         \A t \in A : From(bs, p, P, t),
         \A x \in P2 : \A r \in Refs(x) : From(bs, p, P, r)
  PROVE  Gone(c, p2, P2, v)
<1>1. PICK b, n : Left(bs, v, b, n) /\ Avoids(p, P, b, n)
  BY DEF Gone
<1>2. Walled(bs, b, n) /\ Len(bs) \in Nat
  BY <1>1, EffectIs DEF Left
<1>3. \A r : From(bs, p, P, r) => r \notin Region(b, n)
  BY <1>1, <1>2, FromAvoids
<1>4. Left(c, v, b, n)
  BY <1>1, <1>3, LeftOn
<1>5. Avoids(p2, P2, b, n)
  BY <1>3 DEF Avoids
<1> QED
  BY <1>4, <1>5 DEF Gone

(* Where a step of an open block may be.                                   *)
Inner(c, y, src, Q, p2) ==
  /\ p2 \in Region(y.begin, Len(c))
  /\ src \in Region(y.begin, Len(c)) \/ src = y.begin
  /\ \A k \in Q : k \in Region(y.begin, Len(c))

(* The variable that is accessed.                                          *)
Accessible(bs, P, fr, na, u) ==
  /\ u \in 0..na
  /\ u # 0 => AllocatedAt(bs, u, fr[3].declarations_block)
  /\ u # 0 => Marked(bs, "start", u) = {} \/ Owned(P, fr, u)
  /\ \A x \in P : x.do = "declare" => x.var # u

(* A step inside a function from p, where P is to be done, to p2 and P2.   *)
Steps(bs, c, src, A, Q, u, p, P, p2, P2, fr, na) ==
  /\ Effect(bs, c, src, A, Q, u) /\ Ranged(bs) /\ Beyond(bs, c, bs[p].fn)
  /\ Spared(bs, c, Q, fr[3].declarations_block) /\ Accessible(bs, P2, fr, na, u)
  /\ c[p2].fn = bs[p].fn /\ p2 # fr[3].declarations_block
  /\ From(bs, p, P, p2) /\ \A t \in A : From(bs, p, P, t)
  /\ \A x \in P2 : \A r \in Refs(x) : From(bs, p, P, r)
  /\ \A y \in P : y.do = "leave block" => y \in P2
  /\ \A y \in P2 : y.do = "leave block" => y \in P /\ Inner(c, y, src, Q, p2)
  /\ \A x \in P2 : x \in P \/ Awaits(bs, x, fr, na)

LEMMA PennedStep ==
  ASSUME NEW bs, NEW c, NEW src, NEW A, NEW Q, NEW u, NEW p, NEW P, NEW p2, NEW P2, NEW fr, NEW na,
         Steps(bs, c, src, A, Q, u, p, P, p2, P2, fr, na), Penned(bs, p, P, fr, na)
  PROVE  Penned(c, p2, P2, fr, na)
<1> DEFINE d == fr[3].declarations_block
<1>1. /\ Effect(bs, c, src, A, Q, u) /\ Ranged(bs) /\ Beyond(bs, c, bs[p].fn)
      /\ Spared(bs, c, Q, d) /\ Accessible(bs, P2, fr, na, u)
      /\ c[p2].fn = bs[p].fn /\ p2 # d
      /\ From(bs, p, P, p2) /\ \A t \in A : From(bs, p, P, t)
      /\ \A x \in P2 : \A r \in Refs(x) : From(bs, p, P, r)
      /\ \A y \in P : y.do = "leave block" => y \in P2
      /\ \A y \in P2 : y.do = "leave block" => y \in P /\ Inner(c, y, src, Q, p2)
      /\ \A x \in P2 : x \in P \/ Awaits(bs, x, fr, na)
  BY DEF Steps
<1>2. /\ Prelude(bs, p, d) /\ Scopes(bs, P, fr, na)
      /\ \A y \in P : y.do = "leave block" => Opened(bs, p, y, fr)
      /\ \A x \in P : Awaits(bs, x, fr, na)
      /\ \A v \in 1..na : Lives(bs, p, P, fr, v)
  BY DEF Penned
<1> HIDE DEF d
<1>8. Effect(bs, c, src, A, Q, u) /\ Spared(bs, c, Q, d)
  BY <1>1
<1>9. /\ From(bs, p, P, p2) /\ \A t \in A : From(bs, p, P, t)
      /\ \A x \in P2 : \A r \in Refs(x) : From(bs, p, P, r)
  BY <1>1
<1>3. Prelude(c, p2, d)
  <2>1. IsFirst(bs, d) /\ Stops(Code0(bs, d)) = {} /\ bs[d].fn = bs[p].fn
    BY <1>2 DEF Prelude
  <2>2. IsFirst(c, d) /\ c[d].fn = bs[d].fn
    BY ONLY <1>8, <2>1, FirstOn
  <2>3. Code0(c, d) = Code0(bs, d)
    BY ONLY <1>8, <2>1, FirstSpared
  <2> QED
    BY <1>1, <2>1, <2>2, <2>3 DEF Prelude
<1>4. ASSUME NEW y \in P2, y.do = "leave block"
      PROVE  Opened(c, p2, y, fr)
  <2>1. y \in P /\ Inner(c, y, src, Q, p2)
    BY <1>1, <1>4
  <2>2. Opened(bs, p, y, fr)
    BY <1>2, <1>4, <2>1
  <2>3. /\ p2 \in Region(y.begin, Len(c))
        /\ src \in Region(y.begin, Len(c)) \/ src = y.begin
        /\ \A k \in Q : k \in Region(y.begin, Len(c))
    BY <2>1 DEF Inner
  <2>4. bs[p].fn = bs[y.begin].fn
    BY <2>2 DEF Opened, Walled
  <2>5. Beyond(bs, c, bs[y.begin].fn)
    BY <1>1, <2>4
  <2> QED
    BY <1>1, <2>2, <2>3, <2>5, OpenedOn
<1>5. ASSUME NEW x \in P2
      PROVE  Awaits(c, x, fr, na)
  <2>1. Awaits(bs, x, fr, na)
    BY <1>1, <1>2
  <2>2. x.do = "declare" => x.var # u
    BY <1>1 DEF Accessible
  <2> QED
    BY <1>1, <2>1, <2>2, AwaitsOn DEF d
<1>6. Scopes(c, P2, fr, na)
  BY <1>1, <1>2, ScopesOn DEF d
<1>7. ASSUME NEW v \in 1..na
      PROVE  Lives(c, p2, P2, fr, v)
  <2>1. Lives(bs, p, P, fr, v) /\ SameMarks(bs, c, "start")
    BY <1>1, <1>2 DEF Effect
  <2>2. CASE Marked(bs, "start", v) = {}
    BY <2>1, <2>2 DEF Lives, SameMarks
  <2>3. CASE Owned(P, fr, v) \/ Owned(P2, fr, v)
    BY <1>1, <2>3 DEF Lives, Owned
  <2>4. CASE Gone(bs, p, P, v) /\ Marked(bs, "start", v) # {} /\ ~Owned(P2, fr, v)
    <3>1. v # u
      <4>1. u # 0 => Marked(bs, "start", u) = {} \/ Owned(P2, fr, u)
        BY <1>1 DEF Accessible
      <4>2. v # 0
        BY <1>7
      <4> QED
        BY <2>4, <4>1, <4>2
    <3>2. Gone(c, p2, P2, v)
      <4>1. Gone(bs, p, P, v)
        BY <2>4
      <4> QED
        BY ONLY <1>8, <1>9, <3>1, <4>1, GoneOn
    <3> QED
      BY <3>2 DEF Lives
  <2> QED
    BY <2>1, <2>2, <2>3, <2>4 DEF Lives
<1> QED
  BY <1>3, <1>4, <1>5, <1>6, <1>7 DEF Penned, d

LEMMA AccessorsOf ==
  ASSUME NEW bs, NEW v
  PROVE  Accessors(bs, v) = {} <=> Marked(bs, "load", v) = {} /\ Marked(bs, "store", v) = {}
BY DEF Accessors

LEMMA FreshOn ==
  ASSUME NEW bs, NEW c, NEW p, NEW A, NEW Q, NEW u, Effect(bs, c, p, A, Q, u),
         NEW na \in Nat, u \in 0..na, Fresh(bs, na)
  PROVE  Fresh(c, na)
<1>1. /\ SameMarks(bs, c, "start") /\ SameMarks(bs, c, "end") /\ Remade(bs, c)
      /\ Accesses(bs, c, u, Q)
  BY DEF Effect
<1> SUFFICES ASSUME NEW op \in Ops, NEW v \in Nat, v > na
             PROVE  Marked(c, op, v) = {}
  BY DEF Fresh
<1>2. \A o \in Ops : Marked(bs, o, v) = {}
  BY DEF Fresh
<1>3. CASE op \in {"load", "store"}
  <2>1. Accessors(bs, v) = {}
    BY <1>2, AccessorsOf DEF Ops
  <2>2. v # u
    OBVIOUS
  <2>3. Accessors(c, v) = {}
    BY <1>1, <2>1, <2>2 DEF Accesses
  <2> QED
    BY <1>3, <2>3, AccessorsOf
<1>4. CASE op \notin {"load", "store"}
  <2>1. op \in {"start", "end", "alloca", "poison"}
    BY <1>4 DEF Ops
  <2>2. Marked(c, op, v) = Marked(bs, op, v)
    BY <1>1, <2>1 DEF SameMarks, Remade
  <2> QED
    BY <1>2, <2>2
<1> QED
  BY <1>3, <1>4

LEMMA SitedStep ==
  ASSUME NEW bs, NEW c, NEW src, NEW A, NEW Q, NEW u, NEW p, NEW P, NEW p2, NEW P2, NEW fr,
         NEW na \in Nat, Steps(bs, c, src, A, Q, u, p, P, p2, P2, fr, na),
         NEW gen, Sited(bs, na, gen), p \in 1..Len(bs)
  PROVE  Sited(c, na, gen)
<1> DEFINE d == fr[3].declarations_block
<1>1. /\ Effect(bs, c, src, A, Q, u) /\ Beyond(bs, c, bs[p].fn)
      /\ Spared(bs, c, Q, d) /\ Accessible(bs, P2, fr, na, u)
  BY DEF Steps
<1>2. u \in 0..na /\ (u # 0 => AllocatedAt(bs, u, d))
  BY <1>1 DEF Accessible
<1>3. /\ Fresh(bs, na) /\ \A v \in 1..na : HasAlloca(bs, v)
      /\ \A b \in 1..Len(bs) : bs[b].fn \in gen
  BY DEF Sited
<1> HIDE DEF d
<1>4. Fresh(c, na)
  BY <1>1, <1>2, <1>3, FreshOn
<1>5. ASSUME NEW v \in 1..na
      PROVE  HasAlloca(c, v)
  <2>1. CASE v = u
    <3>1. AllocatedAt(bs, v, d)
      BY <1>2, <2>1
    <3>2. AllocatedAt(c, v, d)
      BY <1>1, <3>1, AllocatedOn
    <3> QED
      BY <3>2 DEF HasAlloca
  <2>2. CASE v # u
    <3>1. PICK e : AllocatedAt(bs, v, e)
      BY <1>3 DEF HasAlloca
    <3>2. AllocatedAt(c, v, e)
      BY <1>1, <2>2, <3>1, AllocatedOn
    <3> QED
      BY <3>2 DEF HasAlloca
  <2> QED
    BY <2>1, <2>2
<1>6. ASSUME NEW b \in 1..Len(c)
      PROVE  c[b].fn \in gen
  <2>1. CASE b \in 1..Len(bs)
    BY <1>1, <1>3, <2>1, EffectIs
  <2>2. CASE b \notin 1..Len(bs)
    <3>1. b \in (Len(bs) + 1)..Len(c)
      BY <1>1, <2>2, EffectIs
    <3>2. c[b].fn = bs[p].fn
      BY <1>1, <3>1 DEF Beyond
    <3> QED
      BY <1>3, <3>2
  <2> QED
    BY <2>1, <2>2
<1> QED
  BY <1>4, <1>5, <1>6 DEF Sited

(* Basic blocks that differ only in their instructions o; the poison of a  *)
(* variable goes with its alloca.                                          *)
Marks == {"alloca", "start", "end"}
Kin(o) == IF o = "alloca" THEN {"alloca", "poison"} ELSE {o}
Alike(bs, c, o) ==
  /\ Len(bs) \in Nat /\ Len(c) = Len(bs) /\ o \in Marks
  /\ \A k \in 1..Len(bs) : c[k].fn = bs[k].fn /\ c[k].inserted = bs[k].inserted
  /\ \A k \in 1..Len(bs) : Targets(Code0(c, k)) = Targets(Code0(bs, k))
  /\ \A op \in Ops \ Kin(o) : SameMarks(bs, c, op)

LEMMA AlikeWalled ==
  ASSUME NEW bs, NEW c, NEW o, Alike(bs, c, o), NEW b, NEW n, Walled(bs, b, n)
  PROVE  Walled(c, b, n)
<1>1. /\ Len(bs) \in Nat /\ Len(c) = Len(bs)
      /\ \A k \in 1..Len(bs) : c[k].fn = bs[k].fn
      /\ \A k \in 1..Len(bs) : Targets(Code0(c, k)) = Targets(Code0(bs, k))
  BY DEF Alike
<1>2. /\ b \in Nat \ {0} /\ n \in Nat /\ b + 2 <= n /\ n <= Len(bs)
      /\ \A k \in Region(b, n) : bs[k].fn = bs[b].fn
      /\ \A k \in 1..Len(bs) : \A t \in Targets(Code0(bs, k)) :
           t \in Region(b, n) => k \in Region(b, n) \/ k = b
  BY DEF Walled
<1>3. b \in 1..Len(bs) /\ \A k \in Region(b, n) : k \in 1..Len(bs)
  BY <1>1, <1>2 DEF Region
<1>4. \A k \in Region(b, n) : c[k].fn = c[b].fn
  BY <1>1, <1>2, <1>3
<1>5. \A k \in 1..Len(c) : \A t \in Targets(Code0(c, k)) :
        t \in Region(b, n) => k \in Region(b, n) \/ k = b
  BY <1>1, <1>2
<1> QED
  BY <1>1, <1>2, <1>4, <1>5 DEF Walled

LEMMA AlikeMarks ==
  ASSUME NEW bs, NEW c, NEW o, Alike(bs, c, o), NEW v
  PROVE  /\ o # "start" => Marked(c, "start", v) = Marked(bs, "start", v)
         /\ o # "end" => Marked(c, "end", v) = Marked(bs, "end", v)
         /\ o # "alloca" => \A d : Makes(bs, d, v) => Makes(c, d, v)
         /\ Accessors(c, v) = Accessors(bs, v)
<1>1. o \in Marks /\ \A op \in Ops \ Kin(o) : Marked(c, op, v) = Marked(bs, op, v)
  BY DEF Alike, SameMarks
<1>2. Marked(c, "load", v) = Marked(bs, "load", v) /\ Marked(c, "store", v) = Marked(bs, "store", v)
  BY <1>1 DEF Ops, Marks, Kin
<1>3. /\ o # "start" => Marked(c, "start", v) = Marked(bs, "start", v)
      /\ o # "end" => Marked(c, "end", v) = Marked(bs, "end", v)
      /\ o # "alloca" => /\ Marked(c, "alloca", v) = Marked(bs, "alloca", v)
                         /\ Marked(c, "poison", v) = Marked(bs, "poison", v)
  BY <1>1 DEF Ops, Marks, Kin
<1> QED
  BY <1>2, <1>3 DEF Accessors, Makes

LEMMA AlikeHeld ==
  ASSUME NEW bs, NEW c, NEW o, Alike(bs, c, o), NEW v, NEW b, NEW n, Held(bs, v, b, n), o # "start"
  PROVE  Held(c, v, b, n)
BY AlikeMarks DEF Held

LEMMA AlikeOpened ==
  ASSUME NEW bs, NEW c, NEW o, Alike(bs, c, o), NEW p, NEW y, NEW fr, Opened(bs, p, y, fr),
         o = "alloca"
  PROVE  Opened(c, p, y, fr)
<1>1. /\ y.old < Len(fr) /\ fr[3].declarations_block < y.begin
      /\ p \in Region(y.begin, Len(bs)) /\ Walled(bs, y.begin, Len(bs))
      /\ \A v \in Owns(fr[y.old + 1]) :
           Held(bs, v, y.begin, Len(bs)) /\ Marked(bs, "end", v) = {}
  BY DEF Opened
<1>2. Len(c) = Len(bs)
  BY DEF Alike
<1>3. Walled(c, y.begin, Len(bs))
  BY <1>1, AlikeWalled
<1>4. \A v \in Owns(fr[y.old + 1]) :
        Held(c, v, y.begin, Len(bs)) /\ Marked(c, "end", v) = {}
  BY <1>1, AlikeHeld, AlikeMarks
<1> QED
  BY <1>1, <1>2, <1>3, <1>4 DEF Opened

LEMMA AlikeLeft ==
  ASSUME NEW bs, NEW c, NEW o, Alike(bs, c, o), NEW v, NEW b, NEW n, Left(bs, v, b, n), o = "alloca"
  PROVE  Left(c, v, b, n)
<1>1. /\ Walled(bs, b, n) /\ Held(bs, v, b, n) /\ bs[b + 2].inserted
      /\ \A k \in Marked(bs, "end", v) : k = b + 2
  BY DEF Left
<1>2. b + 2 \in 1..Len(bs)
  BY <1>1 DEF Walled, Alike
<1>3. c[b + 2].inserted
  BY <1>1, <1>2 DEF Alike
<1>4. Walled(c, b, n) /\ Held(c, v, b, n)
  BY <1>1, AlikeWalled, AlikeHeld
<1>5. \A k \in Marked(c, "end", v) : k = b + 2
  BY <1>1, AlikeMarks
<1> QED
  BY <1>3, <1>4, <1>5 DEF Left

LEMMA AlikeFirst ==
  ASSUME NEW bs, NEW c, NEW o, Alike(bs, c, o), NEW d, IsFirst(bs, d)
  PROVE  IsFirst(c, d) /\ c[d].fn = bs[d].fn
BY DEF IsFirst, Alike

(* A variable that nothing refers to yet.                                  *)
Unused(bs, v, d, fr) ==
  /\ AllocatedAt(bs, v, d) /\ Marked(bs, "start", v) = {} /\ Accessors(bs, v) = {}
  /\ Marked(bs, "end", v) = {} /\ \A j \in 1..Len(fr) : v \notin Owns(fr[j])

LEMMA MarksAlike ==
  ASSUME NEW bs, NEW c, NEW b, NEW s, Adds(bs, c, b, s), NEW o \in Marks,
         \A k \in 1..Len(s) : s[k].op \in Kin(o)
  PROVE  /\ Alike(bs, c, o) /\ Stops(Code0(c, b)) = Stops(Code0(bs, b))
         /\ \A k \in 1..Len(bs) : k # b => Code0(c, k) = Code0(bs, k)
<1>1. /\ Shape(bs) /\ Len(c) = Len(bs) /\ b \in 1..Len(bs)
      /\ \A k \in 1..Len(bs) : c[k].fn = bs[k].fn /\ c[k].inserted = bs[k].inserted
      /\ \A k \in 1..Len(bs) : k # b => Code0(c, k) = Code0(bs, k)
      /\ Longer(Code0(bs, b), Code0(c, b), s)
  BY DEF Adds
<1>2. \A k \in 1..Len(s) : ~IsTerminator(s[k])
  BY DEF IsTerminator, Terminators, Marks, Kin
<1>3. Stops(Code0(c, b)) = Stops(Code0(bs, b)) /\ Targets(Code0(c, b)) = Targets(Code0(bs, b))
  BY <1>1, <1>2, LongerPlain
<1>4. \A k \in 1..Len(bs) : Targets(Code0(c, k)) = Targets(Code0(bs, k))
  BY <1>1, <1>3
<1>5. ASSUME NEW op \in Ops \ Kin(o)
      PROVE  SameMarks(bs, c, op)
  <2>1. ASSUME NEW v
        PROVE  Marked(c, op, v) = Marked(bs, op, v)
    <3>1. \A k \in Marked(bs, op, v) : k \in Marked(c, op, v)
      BY MarksAdd
    <3>2. \A k \in Marked(c, op, v) : k \in Marked(bs, op, v)
      BY <1>5, MarksAdd
    <3> QED
      BY ONLY <3>1, <3>2
  <2> QED
    BY <2>1 DEF SameMarks
<1>6. Len(bs) \in Nat
  BY <1>1, ListIs DEF Shape
<1> QED
  BY <1>1, <1>3, <1>4, <1>5, <1>6 DEF Alike

LEMMA MarkAlike ==
  ASSUME NEW bs, NEW c, NEW b, NEW i, AddsOne(bs, c, b, i), NEW o \in Marks, i.op = o
  PROVE  /\ Alike(bs, c, o) /\ Stops(Code0(c, b)) = Stops(Code0(bs, b))
         /\ \A k \in 1..Len(bs) : k # b => Code0(c, k) = Code0(bs, k)
<1> DEFINE s == <<i>>
<1>1. Len(s) = 1 /\ s[1] = i
  BY OneIs
<1>2. Adds(bs, c, b, s)
  BY DEF AddsOne
<1> HIDE DEF s
<1>3. \A k \in 1..Len(s) : s[k].op \in Kin(o)
  BY ONLY <1>1, i.op = o DEF Kin
<1> QED
  BY <1>2, <1>3, MarksAlike

(* Code behind which there is no terminator does not come late.            *)
LEMMA AllocatedAlike ==
  ASSUME NEW bs, NEW c, NEW o, Alike(bs, c, o), NEW v, NEW e, AllocatedAt(bs, v, e),
         Makes(c, e, v),
         Code0(c, e) = Code0(bs, e) \/ Stops(Code0(c, e)) = {}
  PROVE  AllocatedAt(c, v, e)
<1>1. /\ IsFirst(bs, e) /\ ~Late(Code0(bs, e))
      /\ \A b \in Accessors(bs, v) : bs[b].fn = bs[e].fn
  BY DEF AllocatedAt
<1>2. IsFirst(c, e) /\ c[e].fn = bs[e].fn
  BY <1>1, AlikeFirst
<1>3. ~Late(Code0(c, e))
  BY <1>1 DEF Late
<1>4. Makes(c, e, v)
  OBVIOUS
<1>5. ASSUME NEW b \in Accessors(c, v)
      PROVE  c[b].fn = c[e].fn
  <2>1. b \in Accessors(bs, v)
    BY <1>5, AlikeMarks
  <2>2. b \in 1..Len(bs)
    BY <2>1 DEF Accessors, Marked
  <2>3. c[b].fn = bs[b].fn
    BY <2>2 DEF Alike
  <2> QED
    BY <1>1, <1>2, <2>1, <2>3
<1> QED
  BY <1>2, <1>3, <1>4, <1>5 DEF AllocatedAt

(* The variable v is allocated in d.                                       *)
Allocates(bs, c, d, v) ==
  \E i, j : /\ Adds(bs, c, d, <<i, j>>) /\ i.op = "alloca" /\ i.var = v
            /\ j.op = "poison" /\ j.var = v

LEMMA AllocaMarks ==
  ASSUME NEW bs, NEW c, NEW d, NEW v, Allocates(bs, c, d, v)
  PROVE  /\ Alike(bs, c, "alloca") /\ Stops(Code0(c, d)) = Stops(Code0(bs, d))
         /\ \A k \in 1..Len(bs) : k # d => Code0(c, k) = Code0(bs, k)
         /\ \A op \in {"alloca", "poison"} :
              d \in Marked(c, op, v) /\ \A k \in Marked(c, op, v) : k \in Marked(bs, op, v) \/ k = d
         /\ \A op, w : w # v => Marked(c, op, w) = Marked(bs, op, w)
<1>1. PICK i, j : /\ Adds(bs, c, d, <<i, j>>) /\ i.op = "alloca" /\ i.var = v
                  /\ j.op = "poison" /\ j.var = v
  BY DEF Allocates
<1> DEFINE s == <<i, j>>
<1>2. Len(s) = 2 /\ s[1] = i /\ s[2] = j
  OBVIOUS
<1> HIDE DEF s
<1>3. 1 \in 1..Len(s) /\ 2 \in 1..Len(s) /\ \A k \in 1..Len(s) : s[k] = i \/ s[k] = j
  BY <1>2
<1>4. Adds(bs, c, d, s)
  BY <1>1 DEF s
<1>5. "alloca" \in Marks /\ \A k \in 1..Len(s) : s[k].op \in Kin("alloca")
  BY <1>1, <1>3 DEF Marks, Kin
<1>6. /\ Alike(bs, c, "alloca") /\ Stops(Code0(c, d)) = Stops(Code0(bs, d))
      /\ \A k \in 1..Len(bs) : k # d => Code0(c, k) = Code0(bs, k)
  BY ONLY <1>4, <1>5, MarksAlike
<1>7. \A op, w :
        /\ \A k \in Marked(bs, op, w) : k \in Marked(c, op, w)
        /\ \A k \in Marked(c, op, w) :
             k \in Marked(bs, op, w) \/ (k = d /\ \E l \in 1..Len(s) : s[l].op = op /\ s[l].var = w)
        /\ \A l \in 1..Len(s) : s[l].op = op /\ s[l].var = w => d \in Marked(c, op, w)
  BY ONLY <1>4, MarksAdd
<1>8. \A k \in 1..Len(s) : s[k].var = v
  BY <1>1, <1>3
<1>9. ASSUME NEW op, NEW w, w # v
      PROVE  Marked(c, op, w) = Marked(bs, op, w)
  <2>1. \A k \in Marked(c, op, w) : k \in Marked(bs, op, w)
    BY <1>7, <1>8, <1>9
  <2>2. \A k \in Marked(bs, op, w) : k \in Marked(c, op, w)
    BY <1>7
  <2> QED
    BY ONLY <2>1, <2>2
<1>10. ASSUME NEW op \in {"alloca", "poison"}
       PROVE  d \in Marked(c, op, v) /\ \A k \in Marked(c, op, v) : k \in Marked(bs, op, v) \/ k = d
  <2>1. \E l \in 1..Len(s) : s[l].op = op /\ s[l].var = v
    BY <1>1, <1>2, <1>3
  <2> QED
    BY <1>7, <2>1
<1> QED
  BY <1>6, <1>9, <1>10

LEMMA AllocaAlike ==
  ASSUME NEW bs, NEW c, NEW d, NEW v, Allocates(bs, c, d, v), Marked(bs, "poison", v) = {}
  PROVE  /\ Alike(bs, c, "alloca") /\ Stops(Code0(c, d)) = Stops(Code0(bs, d))
         /\ Makes(c, d, v)
         /\ \A op, w : w # v => Marked(c, op, w) = Marked(bs, op, w)
         /\ Stops(Code0(bs, d)) = {} =>
              \A w, e : AllocatedAt(bs, w, e) => AllocatedAt(c, w, e)
<1>1. /\ Alike(bs, c, "alloca") /\ Stops(Code0(c, d)) = Stops(Code0(bs, d))
      /\ \A k \in 1..Len(bs) : k # d => Code0(c, k) = Code0(bs, k)
      /\ \A op \in {"alloca", "poison"} :
           d \in Marked(c, op, v) /\ \A k \in Marked(c, op, v) : k \in Marked(bs, op, v) \/ k = d
      /\ \A op, w : w # v => Marked(c, op, w) = Marked(bs, op, w)
  BY AllocaMarks
<1>2. /\ d \in Marked(c, "alloca", v) /\ d \in Marked(c, "poison", v)
      /\ \A k \in Marked(c, "poison", v) : k = d
  BY <1>1
<1>3. Makes(c, d, v)
  BY <1>2 DEF Makes
<1>4. ASSUME Stops(Code0(bs, d)) = {}, NEW w, NEW e, AllocatedAt(bs, w, e)
      PROVE  AllocatedAt(c, w, e)
  <2>1. e \in 1..Len(bs) /\ Makes(bs, e, w)
    BY <1>4 DEF AllocatedAt, IsFirst
  <2>2. Code0(c, e) = Code0(bs, e) \/ Stops(Code0(c, e)) = {}
    BY <1>1, <1>4, <2>1
  <2>3. w # v
    BY <2>1 DEF Makes
  <2>4. Makes(c, e, w)
    BY <1>1, <2>1, <2>3 DEF Makes
  <2>5. Alike(bs, c, "alloca") /\ AllocatedAt(bs, w, e)
    BY <1>1, <1>4
  <2> QED
    BY ONLY <2>2, <2>4, <2>5, AllocatedAlike
<1> QED
  BY <1>1, <1>3, <1>4

LEMMA NewUnused ==
  ASSUME NEW bs, NEW p, NEW P, NEW fr, NEW na \in Nat, Penned(bs, p, P, fr, na), Fresh(bs, na),
         NEW c, Allocates(bs, c, fr[3].declarations_block, na + 1)
  PROVE  Unused(c, na + 1, fr[3].declarations_block, fr)
<1> DEFINE d == fr[3].declarations_block
           v == na + 1
<1>1. IsFirst(bs, d) /\ Stops(Code0(bs, d)) = {} /\ Scopes(bs, P, fr, na)
  BY DEF Penned, Prelude
<1>2. Allocates(bs, c, d, v) /\ v \in Nat /\ v > na /\ v \notin 1..na
  OBVIOUS
<1>3. \A op \in Ops : Marked(bs, op, v) = {}
  BY <1>2 DEF Fresh
<1> HIDE DEF d, v
<1>4. Marked(bs, "start", v) = {} /\ Marked(bs, "end", v) = {} /\ Accessors(bs, v) = {}
  BY <1>3, AccessorsOf DEF Ops
<1>5. Alike(bs, c, "alloca") /\ Makes(c, d, v) /\ Stops(Code0(c, d)) = Stops(Code0(bs, d))
  BY <1>2, <1>3, AllocaAlike DEF Ops
<1>6. Marked(c, "start", v) = {} /\ Marked(c, "end", v) = {} /\ Accessors(c, v) = {}
  BY <1>4, <1>5, AlikeMarks
<1>7. IsFirst(c, d)
  BY <1>1, <1>5, AlikeFirst
<1>8. ~Late(Code0(c, d))
  BY <1>1, <1>5 DEF Late
<1>9. AllocatedAt(c, v, d)
  BY <1>5, <1>6, <1>7, <1>8 DEF AllocatedAt
<1>10. \A j \in 1..Len(fr) : v \notin Owns(fr[j])
  BY <1>1, <1>2 DEF Scopes
<1> QED
  BY <1>6, <1>9, <1>10 DEF Unused, d, v

LEMMA PennedAlloca ==
  ASSUME NEW bs, NEW p, NEW P, NEW fr, NEW na \in Nat, Penned(bs, p, P, fr, na), Fresh(bs, na),
         NEW c, Allocates(bs, c, fr[3].declarations_block, na + 1), p \in 1..Len(bs)
  PROVE  Penned(c, p, P, fr, na + 1)
<1> DEFINE d == fr[3].declarations_block
           m == na + 1
<1>1. /\ Prelude(bs, p, d) /\ Scopes(bs, P, fr, na)
      /\ \A y \in P : y.do = "leave block" => Opened(bs, p, y, fr)
      /\ \A x \in P : Awaits(bs, x, fr, na)
      /\ \A v \in 1..na : Lives(bs, p, P, fr, v)
  BY DEF Penned
<1>2. Allocates(bs, c, d, m) /\ m \in Nat /\ 1..na \subseteq 1..m
      /\ \A v \in 1..m : v \in 1..na \/ v = m
  OBVIOUS
<1>3. Unused(c, m, d, fr) /\ Marked(bs, "poison", m) = {}
  BY NewUnused DEF Fresh, Ops
<1> HIDE DEF d, m
<1>4. Alike(bs, c, "alloca") /\ Stops(Code0(c, d)) = Stops(Code0(bs, d))
  BY <1>2, <1>3, AllocaAlike
<1>5. IsFirst(bs, d) /\ Stops(Code0(bs, d)) = {} /\ bs[d].fn = bs[p].fn /\ d # p
  BY <1>1 DEF Prelude
<1>6. \A w, e : AllocatedAt(bs, w, e) => AllocatedAt(c, w, e)
  BY <1>2, <1>3, <1>5, AllocaAlike
<1>7. Prelude(c, p, d)
  <2>1. IsFirst(c, d) /\ c[d].fn = bs[d].fn
    BY <1>4, <1>5, AlikeFirst
  <2>2. c[p].fn = bs[p].fn
    BY <1>4 DEF Alike
  <2> QED
    BY <1>4, <1>5, <2>1, <2>2 DEF Prelude
<1>8. \A y \in P : y.do = "leave block" => Opened(c, p, y, fr)
  BY <1>1, <1>4, AlikeOpened
<1>9. ASSUME NEW x \in P
      PROVE  Awaits(c, x, fr, m)
  <2>1. \A v \in Vars(x) :
          /\ v \in 1..na /\ Marked(bs, "start", v) = {} /\ AllocatedAt(bs, v, d)
          /\ x.do = "declare" =>
               Accessors(bs, v) = {} /\ Marked(bs, "end", v) = {} /\ \A j \in 1..Len(fr) : v \notin Owns(fr[j])
    BY <1>1 DEF Awaits, d
  <2>2. \A v : /\ Marked(c, "start", v) = Marked(bs, "start", v)
               /\ Marked(c, "end", v) = Marked(bs, "end", v) /\ Accessors(c, v) = Accessors(bs, v)
    BY <1>4, AlikeMarks
  <2>3. \A v \in Vars(x) :
          /\ v \in 1..m /\ Marked(c, "start", v) = {} /\ AllocatedAt(c, v, d)
          /\ x.do = "declare" =>
               Accessors(c, v) = {} /\ Marked(c, "end", v) = {} /\ \A j \in 1..Len(fr) : v \notin Owns(fr[j])
    BY ONLY <1>2, <1>6, <2>1, <2>2
  <2> QED
    BY ONLY <2>3 DEF Awaits, d
<1>10. Scopes(c, P, fr, m)
  <2> SUFFICES ASSUME NEW j \in 1..Len(fr)
               PROVE
      /\ \A v \in Owns(fr[j]) : v \in 1..m /\ AllocatedAt(c, v, d)
      /\ j = 3 => \A v \in Owns(fr[j]) : Marked(c, "start", v) = {}
      /\ j >= 4 => \E y \in P : y.do = "leave block" /\ y.old = j - 1
      /\ \A i \in 1..Len(fr) : i # j => \A v \in Owns(fr[j]) : v \notin Owns(fr[i])
    BY DEF Scopes, d
  <2>1. /\ \A v \in Owns(fr[j]) : v \in 1..na /\ AllocatedAt(bs, v, d)
        /\ j = 3 => \A v \in Owns(fr[j]) : Marked(bs, "start", v) = {}
        /\ j >= 4 => \E y \in P : y.do = "leave block" /\ y.old = j - 1
        /\ \A i \in 1..Len(fr) : i # j => \A v \in Owns(fr[j]) : v \notin Owns(fr[i])
    BY <1>1 DEF Scopes, d
  <2>2. \A v \in Owns(fr[j]) : v \in 1..m /\ AllocatedAt(c, v, d)
    BY <1>2, <1>6, <2>1
  <2>3. \A v : Marked(c, "start", v) = Marked(bs, "start", v)
    BY <1>4, AlikeMarks
  <2> QED
    BY <2>1, <2>2, <2>3
<1>11. ASSUME NEW v \in 1..m
       PROVE  Lives(c, p, P, fr, v)
  <2>1. CASE v = m
    BY <1>3, <2>1 DEF Unused, Lives
  <2>2. CASE v # m
    <3>1. Lives(bs, p, P, fr, v)
      BY <1>1, <1>2, <2>2
    <3>2. Marked(c, "start", v) = Marked(bs, "start", v)
      BY <1>4, AlikeMarks
    <3>3. Gone(bs, p, P, v) => Gone(c, p, P, v)
      <4> SUFFICES ASSUME NEW b, NEW n, Left(bs, v, b, n), Avoids(p, P, b, n)
                   PROVE  Gone(c, p, P, v)
        BY DEF Gone
      <4>1. Left(c, v, b, n)
        BY <1>4, AlikeLeft
      <4> QED
        BY <4>1 DEF Gone
    <3> QED
      BY <3>1, <3>2, <3>3 DEF Lives
  <2> QED
    BY <2>1, <2>2
<1> QED
  BY <1>7, <1>8, <1>9, <1>10, <1>11 DEF Penned, d, m

LEMMA SitedAlloca ==
  ASSUME NEW bs, NEW na \in Nat, NEW gen, Sited(bs, na, gen),
         NEW c, NEW d, Allocates(bs, c, d, na + 1), Stops(Code0(bs, d)) = {},
         AllocatedAt(c, na + 1, d)
  PROVE  Sited(c, na + 1, gen)
<1> DEFINE m == na + 1
<1>1. /\ Fresh(bs, na) /\ \A v \in 1..na : HasAlloca(bs, v)
      /\ \A b \in 1..Len(bs) : bs[b].fn \in gen
  BY DEF Sited
<1>2. Allocates(bs, c, d, m) /\ AllocatedAt(c, m, d) /\ m > na /\ m \in Nat
      /\ \A v \in 1..m : v \in 1..na \/ v = m
  OBVIOUS
<1>3. \A v \in Nat : v > m => v > na /\ v # m
  OBVIOUS
<1> HIDE DEF m
<1>4. /\ Alike(bs, c, "alloca") /\ Marked(bs, "poison", m) = {}
      /\ \A op, w : w # m => Marked(c, op, w) = Marked(bs, op, w)
  BY <1>1, <1>2, AllocaMarks DEF Fresh, Ops
<1>5. ASSUME NEW op \in Ops, NEW v \in Nat, v > m
      PROVE  Marked(c, op, v) = {}
  <2>1. Marked(bs, op, v) = {} /\ v # m
    BY <1>1, <1>3, <1>5 DEF Fresh
  <2> QED
    BY <1>4, <2>1
<1>6. ASSUME NEW v \in 1..m
      PROVE  HasAlloca(c, v)
  <2>1. CASE v = m
    BY <1>2, <2>1 DEF HasAlloca
  <2>2. CASE v \in 1..na
    <3>1. PICK e : AllocatedAt(bs, v, e)
      BY <1>1, <2>2 DEF HasAlloca
    <3>2. AllocatedAt(c, v, e)
      BY <1>2, <1>4, <3>1, AllocaAlike
    <3> QED
      BY <3>2 DEF HasAlloca
  <2> QED
    BY <1>2, <2>1, <2>2
<1>7. \A b \in 1..Len(c) : c[b].fn \in gen
  BY <1>1, <1>4 DEF Alike
<1> QED
  BY <1>5, <1>6, <1>7 DEF Sited, Fresh, m

(* Bare instructions matter to none of this.                               *)
Bared(P, P2) == (\A x \in P : x \in P2 \/ Bare(x)) /\ (\A x \in P2 : x \in P \/ Bare(x))

LEMMA BaredLeaves ==
  ASSUME NEW P, NEW P2, Bared(P, P2), NEW y, y.do = "leave block"
  PROVE  y \in P <=> y \in P2
BY DEF Bared, Bare

LEMMA PennedBare ==
  ASSUME NEW bs, NEW p, NEW P, NEW P2, Bared(P, P2), NEW fr, NEW na, Penned(bs, p, P, fr, na)
  PROVE  Penned(bs, p, P2, fr, na)
<1>1. /\ Prelude(bs, p, fr[3].declarations_block) /\ Scopes(bs, P, fr, na)
      /\ \A y \in P : y.do = "leave block" => Opened(bs, p, y, fr)
      /\ \A x \in P : Awaits(bs, x, fr, na)
      /\ \A v \in 1..na : Lives(bs, p, P, fr, v)
  BY DEF Penned
<1>2. \A y : y.do = "leave block" => (y \in P <=> y \in P2)
  BY BaredLeaves
<1>3. \A x \in P2 : x \in P \/ (Refs(x) = {} /\ Vars(x) = {})
  BY DEF Bared, Bare
<1>4. \A x \in P2 : Awaits(bs, x, fr, na)
  BY <1>1, <1>3 DEF Awaits
<1>5. Scopes(bs, P2, fr, na)
  BY <1>1, <1>2 DEF Scopes
<1>6. ASSUME NEW v \in 1..na
      PROVE  Lives(bs, p, P2, fr, v)
  <2>1. Lives(bs, p, P, fr, v)
    BY <1>1
  <2>2. Owned(P, fr, v) => Owned(P2, fr, v)
    BY <1>2 DEF Owned
  <2>3. Gone(bs, p, P, v) => Gone(bs, p, P2, v)
    BY <1>3 DEF Gone, Avoids
  <2> QED
    BY <2>1, <2>2, <2>3 DEF Lives
<1> QED
  BY <1>1, <1>2, <1>4, <1>5, <1>6 DEF Penned

(* A block is entered: y is its end, and its frame is the last.            *)
Entered(c, p, y, fr, fr2) ==
  /\ y.do = "leave block" /\ y.begin \in Nat \ {0} /\ y.old = Len(fr) /\ p = y.begin + 1
  /\ Len(c) = y.begin + 2 /\ c[y.begin].fn = c[p].fn /\ fr[3].declarations_block < y.begin
  /\ \A k \in 1..Len(c) : p \in Targets(Code0(c, k)) => k = y.begin
  /\ Len(fr) \in Nat /\ Len(fr) >= 3 /\ Len(fr2) = Len(fr) + 1
  /\ \A j \in 1..Len(fr) : fr2[j] = fr[j]
  /\ Owns(fr2[Len(fr) + 1]) = {}

LEMMA EnteredOpened ==
  ASSUME NEW c, NEW p, NEW y, NEW fr, NEW fr2, Entered(c, p, y, fr, fr2)
  PROVE  Opened(c, p, y, fr2)
<1>1. /\ y.begin \in Nat \ {0} /\ y.old = Len(fr) /\ p = y.begin + 1
      /\ Len(c) = y.begin + 2 /\ c[y.begin].fn = c[p].fn /\ fr[3].declarations_block < y.begin
      /\ \A k \in 1..Len(c) : p \in Targets(Code0(c, k)) => k = y.begin
      /\ Len(fr) \in Nat /\ Len(fr) >= 3 /\ Len(fr2) = Len(fr) + 1
      /\ \A j \in 1..Len(fr) : fr2[j] = fr[j]
      /\ Owns(fr2[Len(fr) + 1]) = {}
  BY DEF Entered
<1>2. Region(y.begin, Len(c)) = {p}
  BY <1>1 DEF Region
<1>3. Walled(c, y.begin, Len(c))
  BY <1>1, <1>2 DEF Walled
<1>4. fr2[3] = fr[3] /\ Owns(fr2[y.old + 1]) = {} /\ y.old < Len(fr2)
  BY <1>1
<1> QED
  BY <1>1, <1>2, <1>3, <1>4 DEF Opened

(* What the end of a block refers to.                                      *)
Shaped(P) ==
  \A y \in P : y.do = "leave block" =>
    y.begin \in Nat /\ y.entry = y.begin + 1 /\ y.end = y.begin + 2 /\ y.old \in Nat

LEMMA NestedShaped ==
  ASSUME NEW s, Nested(s)
  PROVE  Shaped(Entries(s)) /\ IsSeq(s)
BY DEF Nested, Nests, Shaped, Entries

LEMMA PennedEnter ==
  ASSUME NEW c, NEW p, NEW P, NEW fr, NEW na, Penned(c, p, P, fr, na), Shaped(P),
         NEW y, NEW fr2, Entered(c, p, y, fr, fr2),
         NEW P2, P2 = {y} \union P,
         \A v \in 1..na : Marked(c, "start", v) = {} \/ Owned(P, fr, v) \/ Gone(c, p, P2, v)
  PROVE  Penned(c, p, P2, fr2, na)
<1> DEFINE d == fr[3].declarations_block
           m == Len(fr)
<1>1. /\ Prelude(c, p, d) /\ Scopes(c, P, fr, na)
      /\ \A x \in P : x.do = "leave block" => Opened(c, p, x, fr)
      /\ \A x \in P : Awaits(c, x, fr, na)
  BY DEF Penned
<1>2. /\ m \in Nat /\ m >= 3 /\ Len(fr2) = m + 1
      /\ \A j \in 1..m : fr2[j] = fr[j]
      /\ Owns(fr2[m + 1]) = {} /\ y.do = "leave block" /\ y.old = m
  BY DEF Entered
<1>11. m \in Nat /\ m >= 3
  BY <1>2
<1>13. \A j \in 1..m : fr2[j] = fr[j]
  BY <1>2
<1>14. 3 \in 1..m
  BY ONLY <1>11
<1>3. fr2[3] = fr[3]
  BY ONLY <1>13, <1>14
<1>4. \A x \in P : x.do = "leave block" => x.old \in Nat /\ x.old < m
  BY <1>1 DEF Shaped, Opened
<1> HIDE DEF m
<1>12. \A j \in 1..(m + 1) : j \in 1..m \/ (j = m + 1 /\ m = j - 1)
  BY ONLY <1>11
<1>5. \A x \in P : x.do = "leave block" => fr2[x.old + 1] = fr[x.old + 1]
  <2> SUFFICES ASSUME NEW x \in P, x.do = "leave block"
               PROVE  fr2[x.old + 1] = fr[x.old + 1]
    OBVIOUS
  <2>1. x.old \in Nat /\ x.old < m
    BY <1>4
  <2>2. x.old + 1 \in 1..m
    BY ONLY <1>11, <2>1
  <2> QED
    BY ONLY <1>13, <2>2
<1>6. ASSUME NEW x \in P2, x.do = "leave block"
      PROVE  Opened(c, p, x, fr2)
  <2>1. CASE x = y
    BY <2>1, EnteredOpened
  <2>2. CASE x \in P
    <3>1. Opened(c, p, x, fr)
      BY <1>1, <1>6, <2>2
    <3>2. x.old < Len(fr2) /\ fr2[x.old + 1] = fr[x.old + 1]
      <4>1. x.old \in Nat /\ x.old < m /\ Len(fr2) = m + 1
        BY <1>2, <1>4, <1>6, <2>2
      <4>2. x.old < Len(fr2)
        BY ONLY <1>11, <4>1
      <4> QED
        BY <1>5, <1>6, <2>2, <4>2
    <3> QED
      BY <1>3, <3>1, <3>2 DEF Opened
  <2> QED
    BY <2>1, <2>2
<1>7. Vars(y) = {}
  BY <1>2 DEF Vars
<1>8. ASSUME NEW x \in P2
      PROVE  Awaits(c, x, fr2, na)
  <2>1. CASE x = y
    BY <1>7, <2>1 DEF Awaits
  <2>2. CASE x \in P
    <3>1. \A v \in Vars(x) :
            /\ v \in 1..na /\ Marked(c, "start", v) = {} /\ AllocatedAt(c, v, d)
            /\ x.do = "declare" =>
                 Accessors(c, v) = {} /\ Marked(c, "end", v) = {} /\ \A j \in 1..m : v \notin Owns(fr[j])
      BY <1>1, <2>2 DEF Awaits, m
    <3>3. \A v : (\A j \in 1..m : v \notin Owns(fr[j])) => \A j \in 1..(m + 1) : v \notin Owns(fr2[j])
      BY <1>2, <1>12
    <3>4. Len(fr2) = m + 1
      BY <1>2
    <3> QED
      BY <1>3, <3>1, <3>3, <3>4 DEF Awaits
  <2> QED
    BY <2>1, <2>2
<1>9. Scopes(c, P2, fr2, na)
  <2> SUFFICES ASSUME NEW j \in 1..(m + 1)
               PROVE
      /\ \A v \in Owns(fr2[j]) : v \in 1..na /\ AllocatedAt(c, v, d)
      /\ j = 3 => \A v \in Owns(fr2[j]) : Marked(c, "start", v) = {}
      /\ j >= 4 => \E x \in P2 : x.do = "leave block" /\ x.old = j - 1
      /\ \A i \in 1..(m + 1) : i # j => \A v \in Owns(fr2[j]) : v \notin Owns(fr2[i])
    BY <1>2, <1>3 DEF Scopes
  <2>1. CASE j = m + 1
    <3>1. Owns(fr2[j]) = {} /\ y.old = m /\ y \in P2 /\ y.do = "leave block"
      BY <1>2, <2>1
    <3>2. m = j - 1
      BY ONLY <1>11, <2>1
    <3> QED
      BY <1>2, <3>1, <3>2, <2>1, <1>11
  <2>2. CASE j \in 1..m
    <3>1. /\ \A v \in Owns(fr[j]) : v \in 1..na /\ AllocatedAt(c, v, d)
          /\ j = 3 => \A v \in Owns(fr[j]) : Marked(c, "start", v) = {}
          /\ j >= 4 => \E x \in P : x.do = "leave block" /\ x.old = j - 1
          /\ \A i \in 1..m : i # j => \A v \in Owns(fr[j]) : v \notin Owns(fr[i])
      BY <1>1, <2>2 DEF Scopes, m
    <3>2. fr2[j] = fr[j]
      BY <1>2, <2>2
    <3>4. \A i \in 1..(m + 1) : i # j => \A v \in Owns(fr[j]) : v \notin Owns(fr2[i])
      BY <1>2, <1>12, <3>1
    <3>5. j >= 4 => \E x \in P2 : x.do = "leave block" /\ x.old = j - 1
      BY <3>1
    <3> QED
      BY <3>1, <3>2, <3>4, <3>5
  <2> QED
    BY <1>12, <2>1, <2>2
<1>10. ASSUME NEW v \in 1..na
       PROVE  Lives(c, p, P2, fr2, v)
  <2>1. Marked(c, "start", v) = {} \/ Owned(P, fr, v) \/ Gone(c, p, P2, v)
    OBVIOUS
  <2>2. Owned(P, fr, v) => Owned(P2, fr2, v)
    BY <1>5 DEF Owned
  <2> QED
    BY <2>1, <2>2 DEF Lives
<1> QED
  BY <1>1, <1>3, <1>6, <1>8, <1>9, <1>10 DEF Penned

(* Marks in a basic block behind the first one of its function.            *)
LEMMA MarksBehind ==
  ASSUME NEW bs, NEW c, NEW b, NEW s, Adds(bs, c, b, s), NEW o \in {"start", "end"},
         \A k \in 1..Len(s) : s[k].op = o,
         NEW d, IsFirst(bs, d), d < b, bs[b].fn = bs[d].fn
  PROVE  /\ Alike(bs, c, o) /\ Code0(c, d) = Code0(bs, d)
         /\ \A w, e : AllocatedAt(bs, w, e) => AllocatedAt(c, w, e)
<1>1. o \in Marks /\ o # "alloca" /\ \A k \in 1..Len(s) : s[k].op \in Kin(o)
  BY DEF Marks, Kin
<1>2. Alike(bs, c, o) /\ \A k \in 1..Len(bs) : k # b => Code0(c, k) = Code0(bs, k)
  BY <1>1, MarksAlike
<1>3. b \in 1..Len(bs) /\ d \in 1..Len(bs) /\ Len(bs) \in Nat
  BY <1>2 DEF Adds, IsFirst, Alike
<1>4. d # b
  BY <1>3
<1>5. ASSUME NEW w, NEW e, AllocatedAt(bs, w, e)
      PROVE  AllocatedAt(c, w, e)
  <2>1. IsFirst(bs, e)
    BY <1>5 DEF AllocatedAt
  <2>2. e # b
    <3> SUFFICES ASSUME e = b
                 PROVE  FALSE
      OBVIOUS
    <3>1. b <= d
      BY <1>3, <2>1 DEF IsFirst
    <3> QED
      BY <1>3, <3>1
  <2>3. e \in 1..Len(bs)
    BY <2>1 DEF IsFirst
  <2>4. Code0(c, e) = Code0(bs, e)
    BY <1>2, <2>2, <2>3
  <2>5. Makes(c, e, w)
    BY <1>1, <1>2, <1>5, AlikeMarks DEF AllocatedAt
  <2> QED
    BY <1>2, <1>5, <2>4, <2>5, AllocatedAlike
<1> QED
  BY <1>2, <1>3, <1>4, <1>5

LEMMA SitedMarks ==
  ASSUME NEW bs, NEW c, NEW b, NEW s, Adds(bs, c, b, s), NEW o \in {"start", "end"},
         \A k \in 1..Len(s) : s[k].op = o,
         NEW d, IsFirst(bs, d), d < b, bs[b].fn = bs[d].fn,
         NEW na \in Nat, NEW gen, Sited(bs, na, gen),
         \A k \in 1..Len(s) : s[k].var \in 1..na
  PROVE  Sited(c, na, gen)
<1>1. Alike(bs, c, o) /\ \A w, e : AllocatedAt(bs, w, e) => AllocatedAt(c, w, e)
  BY MarksBehind
<1>2. /\ Fresh(bs, na) /\ \A v \in 1..na : HasAlloca(bs, v)
      /\ \A k \in 1..Len(bs) : bs[k].fn \in gen
  BY DEF Sited
<1>3. ASSUME NEW op \in Ops, NEW v \in Nat, v > na
      PROVE  Marked(c, op, v) = {}
  <2>1. Marked(bs, op, v) = {}
    BY <1>2, <1>3 DEF Fresh
  <2>2. CASE op # o
    BY <1>1, <1>3, <2>1, <2>2 DEF Alike, SameMarks, Kin
  <2>3. CASE op = o
    <3>1. \A k \in 1..Len(s) : s[k].var # v
      BY <1>3
    <3>2. \A k \in Marked(c, op, v) : k \in Marked(bs, op, v)
      BY <3>1, MarksAdd
    <3> QED
      BY <2>1, <3>2
  <2> QED
    BY <2>2, <2>3
<1>4. \A v \in 1..na : HasAlloca(c, v)
  BY <1>1, <1>2 DEF HasAlloca
<1>5. \A k \in 1..Len(c) : c[k].fn \in gen
  BY <1>1, <1>2 DEF Alike
<1> QED
  BY <1>3, <1>4, <1>5 DEF Sited, Fresh

(* The last frame gets a variable whose lifetime starts at b.              *)
Starts(bs, c, b, v) == \E i : AddsOne(bs, c, b, i) /\ i.op = "start" /\ i.var = v
Gets(fr, fr2, v) ==
  /\ Len(fr) \in Nat /\ Len(fr) >= 4 /\ Len(fr2) = Len(fr)
  /\ \A j \in 1..Len(fr) : fr2[j].declarations_block = fr[j].declarations_block
  /\ \A j \in 1..Len(fr) : j # Len(fr) => Owns(fr2[j]) = Owns(fr[j])
  /\ Owns(fr2[Len(fr)]) = Owns(fr[Len(fr)]) \union {v}
(* The variable v has no lifetime yet, and at most its initial value, at p.*)
Free(bs, p, P, fr, na, v) ==
  /\ v \in 1..na /\ AllocatedAt(bs, v, fr[3].declarations_block)
  /\ Marked(bs, "start", v) = {} /\ Marked(bs, "end", v) = {} /\ \A k \in Accessors(bs, v) : k = p
  /\ \A j \in 1..Len(fr) : v \notin Owns(fr[j])
  /\ \A x \in P : v \notin Vars(x)
(* The block y, and no other, is the one of the frame n.                   *)
InnermostIs(P, y, n) ==
  /\ y \in P /\ y.do = "leave block" /\ y.old \in Nat /\ y.old + 1 = n
  /\ \A x \in P : x.do = "leave block" /\ x # y => x.old \in Nat /\ x.old + 1 # n

LEMMA StartsAlike ==
  ASSUME NEW bs, NEW c, NEW b, NEW v, Starts(bs, c, b, v),
         NEW d, IsFirst(bs, d), d < b, bs[b].fn = bs[d].fn
  PROVE  /\ Alike(bs, c, "start") /\ Code0(c, d) = Code0(bs, d)
         /\ \A w, e : AllocatedAt(bs, w, e) => AllocatedAt(c, w, e)
         /\ \A k \in Marked(c, "start", v) : k \in Marked(bs, "start", v) \/ k = b
         /\ \A w : w # v => Marked(c, "start", w) = Marked(bs, "start", w)
<1>1. PICK i : AddsOne(bs, c, b, i) /\ i.op = "start" /\ i.var = v
  BY DEF Starts
<1> DEFINE s == <<i>>
<1>2. Len(s) = 1 /\ s[1] = i
  BY OneIs
<1>3. Adds(bs, c, b, s)
  BY <1>1 DEF AddsOne
<1> HIDE DEF s
<1>4. \A k \in 1..Len(s) : s[k].op = "start"
  BY ONLY <1>1, <1>2
<1>5. /\ Alike(bs, c, "start") /\ Code0(c, d) = Code0(bs, d)
      /\ \A w, e : AllocatedAt(bs, w, e) => AllocatedAt(c, w, e)
  BY <1>3, <1>4, MarksBehind
<1>6. \A k \in Marked(c, "start", v) : k \in Marked(bs, "start", v) \/ k = b
  BY <1>1, MarksOne
<1>7. ASSUME NEW w, w # v
      PROVE  Marked(c, "start", w) = Marked(bs, "start", w)
  <2>1. \A k \in Marked(bs, "start", w) : k \in Marked(c, "start", w)
    BY <1>1, MarksOne
  <2>2. \A k \in Marked(c, "start", w) : k \in Marked(bs, "start", w)
    BY <1>1, <1>7, MarksOne
  <2> QED
    BY ONLY <2>1, <2>2
<1> QED
  BY <1>5, <1>6, <1>7

LEMMA GetsOwns ==
  ASSUME NEW fr, NEW fr2, NEW v, Gets(fr, fr2, v)
  PROVE  /\ \A j \in 1..Len(fr) : \A w \in Owns(fr2[j]) : w \in Owns(fr[j]) \/ (w = v /\ j = Len(fr))
         /\ \A j \in 1..Len(fr) : \A w \in Owns(fr[j]) : w \in Owns(fr2[j])
         /\ v \in Owns(fr2[Len(fr)]) /\ fr2[3].declarations_block = fr[3].declarations_block
         /\ Len(fr2) = Len(fr)
<1>1. /\ Len(fr) \in Nat /\ Len(fr) >= 4 /\ Len(fr2) = Len(fr)
      /\ \A j \in 1..Len(fr) : fr2[j].declarations_block = fr[j].declarations_block
  BY DEF Gets
<1>2. \A j \in 1..Len(fr) : j # Len(fr) => Owns(fr2[j]) = Owns(fr[j])
  BY DEF Gets
<1>3. Owns(fr2[Len(fr)]) = Owns(fr[Len(fr)]) \union {v}
  BY DEF Gets
<1>4. 3 \in 1..Len(fr)
  BY <1>1
<1> QED
  BY <1>1, <1>2, <1>3, <1>4

LEMMA StartedOpened ==
  ASSUME NEW bs, NEW c, NEW p, NEW y, NEW v, NEW fr, NEW fr2, Opened(bs, p, y, fr),
         Alike(bs, c, "start"),
         \A w : w # v => Marked(c, "start", w) = Marked(bs, "start", w),
         v \in Owns(fr2[y.old + 1]) =>
           /\ \A k \in Marked(c, "start", v) : k = y.begin
           /\ \A k \in Accessors(bs, v) : k = p
           /\ Marked(bs, "end", v) = {},
         \A w \in Owns(fr2[y.old + 1]) : w \in Owns(fr[y.old + 1]) \/ w = v,
         Len(fr2) = Len(fr), fr2[3].declarations_block = fr[3].declarations_block
  PROVE  Opened(c, p, y, fr2)
<1>1. /\ y.old < Len(fr) /\ fr[3].declarations_block < y.begin
      /\ p \in Region(y.begin, Len(bs)) /\ Walled(bs, y.begin, Len(bs))
      /\ \A w \in Owns(fr[y.old + 1]) :
           Held(bs, w, y.begin, Len(bs)) /\ Marked(bs, "end", w) = {}
  BY DEF Opened
<1>2. Walled(c, y.begin, Len(bs)) /\ Len(c) = Len(bs)
  BY <1>1, AlikeWalled DEF Alike
<1>3. \A w : Accessors(c, w) = Accessors(bs, w) /\ Marked(c, "end", w) = Marked(bs, "end", w)
  BY AlikeMarks
<1>4. ASSUME NEW w \in Owns(fr2[y.old + 1])
      PROVE  Held(c, w, y.begin, Len(bs)) /\ Marked(c, "end", w) = {}
  <2>1. CASE w = v
    <3>1. /\ \A k \in Marked(c, "start", w) : k = y.begin
          /\ \A k \in Accessors(bs, w) : k = p
          /\ Marked(bs, "end", w) = {}
      BY <1>4, <2>1
    <3> QED
      BY <1>1, <1>3, <3>1 DEF Held
  <2>2. CASE w # v
    <3>1. w \in Owns(fr[y.old + 1])
      BY <1>4, <2>2
    <3>2. Held(bs, w, y.begin, Len(bs)) /\ Marked(bs, "end", w) = {}
      BY <1>1, <3>1
    <3>3. Marked(c, "start", w) = Marked(bs, "start", w)
      BY <2>2
    <3> QED
      BY <1>3, <3>2, <3>3 DEF Held
  <2> QED
    BY <2>1, <2>2
<1> QED
  BY <1>1, <1>2, <1>4 DEF Opened

LEMMA PennedStart ==
  ASSUME NEW bs, NEW c, NEW p, NEW P, NEW fr, NEW fr2, NEW na, NEW v, NEW y,
         Penned(bs, p, P, fr, na), Free(bs, p, P, fr, na, v), InnermostIs(P, y, Len(fr)),
         Starts(bs, c, y.begin, v), Gets(fr, fr2, v), p \in 1..Len(bs)
  PROVE  Penned(c, p, P, fr2, na)
<1> DEFINE d == fr[3].declarations_block
           b == y.begin
           m == Len(fr)
<1>1. /\ Prelude(bs, p, d) /\ Scopes(bs, P, fr, na)
      /\ \A x \in P : x.do = "leave block" => Opened(bs, p, x, fr)
      /\ \A x \in P : Awaits(bs, x, fr, na)
      /\ \A w \in 1..na : Lives(bs, p, P, fr, w)
  BY DEF Penned
<1>2. /\ v \in 1..na /\ AllocatedAt(bs, v, d)
      /\ Marked(bs, "start", v) = {} /\ Marked(bs, "end", v) = {} /\ \A k \in Accessors(bs, v) : k = p
      /\ \A j \in 1..m : v \notin Owns(fr[j])
      /\ \A x \in P : v \notin Vars(x)
  BY DEF Free
<1>3. /\ y \in P /\ y.do = "leave block" /\ y.old + 1 = m
      /\ \A x \in P : x.do = "leave block" /\ x # y => x.old + 1 # m
  BY DEF InnermostIs
<1>4. Opened(bs, p, y, fr)
  BY <1>1, <1>3
<1>5. d < b /\ bs[b].fn = bs[p].fn
  BY <1>4 DEF Opened, Walled
<1>6. IsFirst(bs, d) /\ Stops(Code0(bs, d)) = {} /\ bs[d].fn = bs[p].fn /\ d # p
  BY <1>1 DEF Prelude
<1>7. m \in Nat /\ m >= 4
  BY DEF Gets
<1>8. /\ \A j \in 1..m : \A w \in Owns(fr2[j]) : w \in Owns(fr[j]) \/ (w = v /\ j = m)
      /\ \A j \in 1..m : \A w \in Owns(fr[j]) : w \in Owns(fr2[j])
      /\ v \in Owns(fr2[m]) /\ fr2[3].declarations_block = d /\ Len(fr2) = m
  BY GetsOwns
<1>9. Starts(bs, c, b, v)
  OBVIOUS
<1> HIDE DEF d, b, m
<1>10. bs[b].fn = bs[d].fn
  BY <1>5, <1>6
<1>11. /\ Alike(bs, c, "start") /\ Code0(c, d) = Code0(bs, d)
       /\ \A w, e : AllocatedAt(bs, w, e) => AllocatedAt(c, w, e)
       /\ \A k \in Marked(c, "start", v) : k \in Marked(bs, "start", v) \/ k = b
       /\ \A w : w # v => Marked(c, "start", w) = Marked(bs, "start", w)
  BY <1>5, <1>6, <1>9, <1>10, StartsAlike
<1>12. \A w : Accessors(c, w) = Accessors(bs, w) /\ Marked(c, "end", w) = Marked(bs, "end", w)
  BY <1>11, AlikeMarks
<1>13. Prelude(c, p, d)
  <2>1. IsFirst(c, d) /\ c[d].fn = bs[d].fn
    BY <1>6, <1>11, AlikeFirst
  <2>2. c[p].fn = bs[p].fn
    BY <1>11 DEF Alike
  <2> QED
    BY <1>6, <1>11, <2>1, <2>2 DEF Prelude
<1>14. \A k \in Marked(c, "start", v) : k = b
  BY <1>2, <1>11
<1>15. \A x \in P : x.do = "leave block" => x.old + 1 \in 1..m
  <2> SUFFICES ASSUME NEW x \in P, x.do = "leave block"
               PROVE  x.old + 1 \in 1..m
    OBVIOUS
  <2>1. x.old \in Nat
    BY DEF InnermostIs
  <2>2. x.old < m
    BY <1>1 DEF Opened, m
  <2> QED
    BY ONLY <1>7, <2>1, <2>2
<1>16. ASSUME NEW x \in P, x.do = "leave block"
       PROVE  Opened(c, p, x, fr2)
  <2>1. Opened(bs, p, x, fr)
    BY <1>1, <1>16
  <2>2. x.old + 1 \in 1..m
    BY <1>15, <1>16
  <2>3. \A w \in Owns(fr2[x.old + 1]) : w \in Owns(fr[x.old + 1]) \/ (w = v /\ x.old + 1 = m)
    BY <1>8, <2>2
  <2>4. v \in Owns(fr2[x.old + 1]) => x = y
    <3>1. v \notin Owns(fr[x.old + 1])
      BY <1>2, <2>2
    <3> QED
      BY <1>3, <1>16, <2>3, <3>1
  <2>5. v \in Owns(fr2[x.old + 1]) =>
          /\ \A k \in Marked(c, "start", v) : k = x.begin
          /\ \A k \in Accessors(bs, v) : k = p
          /\ Marked(bs, "end", v) = {}
    BY <1>2, <1>14, <2>4 DEF b
  <2>6. Len(fr2) = Len(fr) /\ fr2[3].declarations_block = fr[3].declarations_block
    BY <1>8 DEF m, d
  <2>7. Alike(bs, c, "start") /\ \A w : w # v => Marked(c, "start", w) = Marked(bs, "start", w)
    BY <1>11
  <2>8. \A w \in Owns(fr2[x.old + 1]) : w \in Owns(fr[x.old + 1]) \/ w = v
    BY <2>3
  <2> QED
    BY ONLY <2>1, <2>5, <2>6, <2>7, <2>8, StartedOpened
<1>17. ASSUME NEW x \in P
       PROVE  Awaits(c, x, fr2, na)
  <2>1. \A w \in Vars(x) :
          /\ w \in 1..na /\ Marked(bs, "start", w) = {} /\ AllocatedAt(bs, w, d)
          /\ x.do = "declare" =>
               Accessors(bs, w) = {} /\ Marked(bs, "end", w) = {} /\ \A j \in 1..m : w \notin Owns(fr[j])
    BY <1>1 DEF Awaits, m, d
  <2>2. \A w \in Vars(x) : w # v
    BY <1>2
  <2>3. \A w : w # v /\ (\A j \in 1..m : w \notin Owns(fr[j])) => \A j \in 1..m : w \notin Owns(fr2[j])
    BY <1>8
  <2>4. \A w \in Vars(x) :
          /\ w \in 1..na /\ Marked(c, "start", w) = {} /\ AllocatedAt(c, w, d)
          /\ x.do = "declare" =>
               Accessors(c, w) = {} /\ Marked(c, "end", w) = {} /\ \A j \in 1..m : w \notin Owns(fr2[j])
    BY ONLY <1>11, <1>12, <2>1, <2>2, <2>3
  <2> QED
    BY <1>8, <2>4 DEF Awaits
<1>18. Scopes(c, P, fr2, na)
  <2> SUFFICES ASSUME NEW j \in 1..m
               PROVE
      /\ \A w \in Owns(fr2[j]) : w \in 1..na /\ AllocatedAt(c, w, d)
      /\ j = 3 => \A w \in Owns(fr2[j]) : Marked(c, "start", w) = {}
      /\ j >= 4 => \E x \in P : x.do = "leave block" /\ x.old = j - 1
      /\ \A i \in 1..m : i # j => \A w \in Owns(fr2[j]) : w \notin Owns(fr2[i])
    BY <1>8 DEF Scopes
  <2>1. /\ \A w \in Owns(fr[j]) : w \in 1..na /\ AllocatedAt(bs, w, d)
        /\ j = 3 => \A w \in Owns(fr[j]) : Marked(bs, "start", w) = {}
        /\ j >= 4 => \E x \in P : x.do = "leave block" /\ x.old = j - 1
        /\ \A i \in 1..m : i # j => \A w \in Owns(fr[j]) : w \notin Owns(fr[i])
    BY <1>1 DEF Scopes, m, d
  <2>2. \A w \in Owns(fr2[j]) : w \in Owns(fr[j]) \/ (w = v /\ j = m)
    BY <1>8
  <2>3. \A w \in Owns(fr2[j]) : w \in 1..na /\ AllocatedAt(c, w, d)
    BY <1>2, <1>11, <2>1, <2>2
  <2>4. j = 3 => \A w \in Owns(fr2[j]) : Marked(c, "start", w) = {}
    <3> SUFFICES ASSUME j = 3, NEW w \in Owns(fr2[j])
                 PROVE  Marked(c, "start", w) = {}
      OBVIOUS
    <3>1. j # m
      BY ONLY <1>7, j = 3
    <3>2. w \in Owns(fr[j])
      BY <2>2, <3>1
    <3>3. w # v
      BY <1>2, <3>2
    <3> QED
      BY <1>11, <2>1, <3>2, <3>3
  <2>5. ASSUME NEW i \in 1..m, i # j, NEW w \in Owns(fr2[j])
        PROVE  w \notin Owns(fr2[i])
    <3>1. w \in Owns(fr2[i]) => w \in Owns(fr[i]) \/ (w = v /\ i = m)
      BY <1>8
    <3> QED
      BY <1>2, <2>1, <2>2, <2>5, <3>1
  <2> QED
    BY <2>1, <2>3, <2>4, <2>5
<1>19. ASSUME NEW w \in 1..na
       PROVE  Lives(c, p, P, fr2, w)
  <2>1. CASE w = v
    <3>1. v \in Owns(fr2[y.old + 1])
      BY <1>3, <1>8
    <3> QED
      BY <1>3, <2>1, <3>1 DEF Lives, Owned
  <2>2. CASE w # v
    <3>1. Lives(bs, p, P, fr, w) /\ Marked(c, "start", w) = Marked(bs, "start", w)
      BY <1>1, <1>11, <2>2
    <3>2. Owned(P, fr, w) => Owned(P, fr2, w)
      BY <1>8, <1>15 DEF Owned
    <3>3. Gone(bs, p, P, w) => Gone(c, p, P, w)
      <4> SUFFICES ASSUME NEW b1, NEW n, Left(bs, w, b1, n), Avoids(p, P, b1, n)
                   PROVE  Gone(c, p, P, w)
        BY DEF Gone
      <4>1. /\ Walled(bs, b1, n) /\ Held(bs, w, b1, n) /\ bs[b1 + 2].inserted
            /\ \A k \in Marked(bs, "end", w) : k = b1 + 2
        BY DEF Left
      <4>2. Walled(c, b1, n)
        BY <1>11, <4>1, AlikeWalled
      <4>3. Held(c, w, b1, n)
        BY <1>12, <3>1, <4>1 DEF Held
      <4>4. b1 + 2 \in 1..Len(bs)
        BY <1>11, <4>1 DEF Walled, Alike
      <4>5. c[b1 + 2].inserted
        BY <1>11, <4>1, <4>4 DEF Alike
      <4>6. Left(c, w, b1, n)
        BY <1>12, <4>1, <4>2, <4>3, <4>5 DEF Left
      <4> QED
        BY <4>6 DEF Gone
    <3> QED
      BY <3>1, <3>2, <3>3 DEF Lives
  <2> QED
    BY <2>1, <2>2
<1> QED
  BY <1>8, <1>13, <1>16, <1>17, <1>18, <1>19 DEF Penned

(* A block is left: the lifetimes of the variables of its frame end.       *)
Finishes(bs, c, b, own) ==
  \E s : /\ Adds(bs, c, b, s) /\ \A k \in 1..Len(s) : s[k].op = "end"
         /\ \A k \in 1..Len(s) : s[k].var \in own
(* The last frame is taken.                                                *)
Drops(fr, fr2) ==
  /\ Len(fr2) \in Nat /\ Len(fr2) >= 3 /\ Len(fr) = Len(fr2) + 1
  /\ \A j \in 1..Len(fr2) : fr2[j] = fr[j]
(* The block y is the innermost one, and P2 remains to be done.            *)
Leaving(bs, y, P2, fr) ==
  /\ y.do = "leave block" /\ y.begin \in Nat \ {0} /\ y.end = y.begin + 2 /\ y.old + 1 = Len(fr)
  /\ y.old \in Nat /\ bs[y.end].inserted /\ Shaped(P2)
  /\ \A x \in P2 : x.do = "leave block" => x.old < y.old /\ x.end < y.end
  /\ \A x \in P2 : \A r \in Refs(x) : r < y.begin /\ r \in Nat

LEMMA FinishesAlike ==
  ASSUME NEW bs, NEW c, NEW b, NEW own, Finishes(bs, c, b, own),
         NEW d, IsFirst(bs, d), d < b, bs[b].fn = bs[d].fn
  PROVE  /\ Alike(bs, c, "end") /\ Code0(c, d) = Code0(bs, d)
         /\ \A w, e : AllocatedAt(bs, w, e) => AllocatedAt(c, w, e)
         /\ \A w : \A k \in Marked(c, "end", w) : k \in Marked(bs, "end", w) \/ (w \in own /\ k = b)
         /\ \A w : Marked(c, "start", w) = Marked(bs, "start", w) /\ Accessors(c, w) = Accessors(bs, w)
<1>1. PICK s : /\ Adds(bs, c, b, s) /\ \A k \in 1..Len(s) : s[k].op = "end"
               /\ \A k \in 1..Len(s) : s[k].var \in own
  BY DEF Finishes
<1>2. /\ Alike(bs, c, "end") /\ Code0(c, d) = Code0(bs, d)
      /\ \A w, e : AllocatedAt(bs, w, e) => AllocatedAt(c, w, e)
  BY <1>1, MarksBehind
<1>3. ASSUME NEW w, NEW k \in Marked(c, "end", w), k \notin Marked(bs, "end", w)
      PROVE  w \in own /\ k = b
  <2>1. k = b /\ \E j \in 1..Len(s) : s[j].op = "end" /\ s[j].var = w
    BY <1>1, <1>3, MarksAdd
  <2> QED
    BY <1>1, <2>1
<1>4. \A w : Marked(c, "start", w) = Marked(bs, "start", w) /\ Accessors(c, w) = Accessors(bs, w)
  BY <1>2, AlikeMarks
<1> QED
  BY <1>2, <1>3, <1>4

LEMMA PennedLeave ==
  ASSUME NEW bs, NEW c, NEW p, NEW P, NEW P2, NEW fr, NEW fr2, NEW na, NEW y,
         Penned(bs, p, P, fr, na), P = {y} \union P2, Leaving(bs, y, P2, fr), Drops(fr, fr2),
         Finishes(bs, c, y.end, Owns(fr[Len(fr)])), bs[y.end].fn = bs[p].fn
  PROVE  Penned(c, y.end, P2, fr2, na)
<1> DEFINE d == fr[3].declarations_block
           b == y.begin
           e == y.end
           m == Len(fr2)
           last == Owns(fr[Len(fr)])
<1>1. /\ Prelude(bs, p, d) /\ Scopes(bs, P, fr, na)
      /\ \A x \in P : x.do = "leave block" => Opened(bs, p, x, fr)
      /\ \A x \in P : Awaits(bs, x, fr, na)
      /\ \A w \in 1..na : Lives(bs, p, P, fr, w)
  BY DEF Penned
<1>2. /\ y.do = "leave block" /\ b \in Nat \ {0} /\ e = b + 2 /\ y.old + 1 = Len(fr)
      /\ y.old \in Nat /\ bs[e].inserted
      /\ \A x \in P2 : x.do = "leave block" => x.old < y.old /\ x.end < e
      /\ \A x \in P2 : \A r \in Refs(x) : r < b /\ r \in Nat
  BY DEF Leaving
<1>3. m \in Nat /\ m >= 3 /\ Len(fr) = m + 1
  BY DEF Drops
<1>4. \A j \in 1..m : fr2[j] = fr[j]
  BY DEF Drops
<1>5. y \in P /\ \A x \in P2 : x \in P
  OBVIOUS
<1>6. Opened(bs, p, y, fr)
  BY <1>1, <1>2, <1>5
<1>7. /\ d < b /\ p \in Region(b, Len(bs)) /\ Walled(bs, b, Len(bs))
      /\ \A v \in Owns(fr[y.old + 1]) : Held(bs, v, b, Len(bs)) /\ Marked(bs, "end", v) = {}
  BY <1>6 DEF Opened
<1>8. IsFirst(bs, d) /\ Stops(Code0(bs, d)) = {} /\ bs[d].fn = bs[p].fn /\ d # p
  BY <1>1 DEF Prelude
<1>9. Finishes(bs, c, e, last) /\ bs[e].fn = bs[p].fn
  OBVIOUS
<1>10. last = Owns(fr[m + 1]) /\ last = Owns(fr[y.old + 1])
  BY <1>2, <1>3
<1>11. \A x \in P2 : x.do = "leave block" =>
         x.begin \in Nat /\ x.end = x.begin + 2 /\ x.old \in Nat
  BY DEF Leaving, Shaped
<1> HIDE DEF d, b, e, m, last
<1>12. d \in 1..Len(bs) /\ Len(bs) \in Nat /\ d \in Nat /\ b + 2 <= Len(bs)
  BY <1>7, <1>8 DEF IsFirst, Walled
<1>34. b \in Nat \ {0} /\ e = b + 2 /\ d < b
  BY <1>2, <1>7
<1>35. y.old \in Nat /\ y.old + 1 = m + 1
  BY <1>2, <1>3
<1>13. d < e /\ d # e
  BY ONLY <1>34, <1>12
<1>14. bs[e].fn = bs[d].fn
  BY <1>8, <1>9
<1>15. /\ Alike(bs, c, "end") /\ Code0(c, d) = Code0(bs, d)
       /\ \A w, k : AllocatedAt(bs, w, k) => AllocatedAt(c, w, k)
       /\ \A w : \A k \in Marked(c, "end", w) : k \in Marked(bs, "end", w) \/ (w \in last /\ k = e)
       /\ \A w : Marked(c, "start", w) = Marked(bs, "start", w) /\ Accessors(c, w) = Accessors(bs, w)
  BY <1>8, <1>9, <1>13, <1>14, FinishesAlike
<1>16. y.old = m
  BY ONLY <1>3, <1>35
<1>17. \A x \in P2 : x.do = "leave block" => x.old + 1 \in 1..m
  <2> SUFFICES ASSUME NEW x \in P2, x.do = "leave block"
               PROVE  x.old + 1 \in 1..m
    OBVIOUS
  <2>1. x.old \in Nat /\ x.old < m
    BY <1>2, <1>11, <1>16
  <2> QED
    BY ONLY <1>3, <2>1
<1>18. 3 \in 1..m /\ \A j \in 1..m : j \in 1..(m + 1) /\ j # m + 1
  BY ONLY <1>3
<1>19. fr2[3].declarations_block = d
  BY <1>4, <1>18 DEF d
<1>20. m + 1 \in 1..(m + 1)
  BY ONLY <1>3
<1>21. \A j \in 1..(m + 1) :
      /\ \A v \in Owns(fr[j]) : v \in 1..na /\ AllocatedAt(bs, v, d)
      /\ j = 3 => \A v \in Owns(fr[j]) : Marked(bs, "start", v) = {}
      /\ j >= 4 => \E x \in P : x.do = "leave block" /\ x.old = j - 1
      /\ \A i \in 1..(m + 1) : i # j => \A v \in Owns(fr[j]) : v \notin Owns(fr[i])
  BY <1>1, <1>3 DEF Scopes, d
<1>22. \A j \in 1..m : \A v \in Owns(fr2[j]) : v \in Owns(fr[j]) /\ v \notin last
  <2> SUFFICES ASSUME NEW j \in 1..m, NEW v \in Owns(fr2[j])
               PROVE  v \in Owns(fr[j]) /\ v \notin last
    OBVIOUS
  <2>1. v \in Owns(fr[j])
    BY <1>4
  <2>2. j \in 1..(m + 1) /\ j # m + 1
    BY <1>18
  <2>3. v \notin Owns(fr[m + 1])
    BY <1>20, <1>21, <2>1, <2>2
  <2> QED
    BY <1>10, <2>1, <2>3
<1>23. \A v : v \notin last => \A k \in Marked(c, "end", v) : k \in Marked(bs, "end", v)
  BY <1>15
<1>24. Len(c) = Len(bs) /\ \A k \in 1..Len(bs) : c[k].fn = bs[k].fn /\ c[k].inserted = bs[k].inserted
  BY <1>15 DEF Alike
<1>25. e \in 1..Len(bs)
  BY ONLY <1>34, <1>12
<1>26. Prelude(c, e, d)
  <2>1. IsFirst(c, d) /\ c[d].fn = bs[d].fn
    BY <1>8, <1>15, AlikeFirst
  <2> QED
    BY <1>8, <1>13, <1>14, <1>15, <1>24, <1>25, <2>1 DEF Prelude
<1>27. ASSUME NEW x \in P2, x.do = "leave block"
       PROVE  Opened(c, e, x, fr2)
  <2>1. /\ d < x.begin /\ Walled(bs, x.begin, Len(bs))
        /\ \A v \in Owns(fr[x.old + 1]) : Held(bs, v, x.begin, Len(bs)) /\ Marked(bs, "end", v) = {}
    BY <1>1, <1>5, <1>27 DEF Opened, d
  <2>2. Walled(c, x.begin, Len(bs))
    BY <1>15, <2>1, AlikeWalled
  <2>3. x.old + 1 \in 1..m /\ x.old < m
    BY <1>2, <1>16, <1>17, <1>27
  <2>4. e \in Region(x.begin, Len(bs))
    <3>1. x.begin \in Nat /\ x.begin + 2 < e
      BY <1>2, <1>11, <1>27
    <3> QED
      BY ONLY <3>1, <1>25, <1>12 DEF Region
  <2>5. ASSUME NEW v \in Owns(fr2[x.old + 1])
        PROVE  Held(c, v, x.begin, Len(bs)) /\ Marked(c, "end", v) = {}
    <3>1. v \in Owns(fr[x.old + 1]) /\ v \notin last
      BY <1>22, <2>3
    <3>2. Held(bs, v, x.begin, Len(bs)) /\ Marked(bs, "end", v) = {}
      BY <2>1, <3>1
    <3> QED
      BY <1>15, <1>23, <3>1, <3>2 DEF Held
  <2> QED
    BY <1>19, <1>24, <2>1, <2>2, <2>3, <2>4, <2>5 DEF Opened, m
<1>28. ASSUME NEW x \in P2
       PROVE  Awaits(c, x, fr2, na)
  <2>1. \A w \in Vars(x) :
          /\ w \in 1..na /\ Marked(bs, "start", w) = {} /\ AllocatedAt(bs, w, d)
          /\ x.do = "declare" =>
               Accessors(bs, w) = {} /\ Marked(bs, "end", w) = {} /\ \A j \in 1..(m + 1) : w \notin Owns(fr[j])
    BY <1>1, <1>3, <1>5 DEF Awaits, d
  <2>2. \A w \in Vars(x) : x.do = "declare" => w \notin last /\ \A j \in 1..m : w \notin Owns(fr2[j])
    BY <1>10, <1>18, <1>20, <1>22, <2>1
  <2>3. \A w \in Vars(x) : x.do = "declare" => Marked(c, "end", w) = {}
    BY <1>23, <2>1, <2>2
  <2>4. \A w \in Vars(x) :
          /\ w \in 1..na /\ Marked(c, "start", w) = {} /\ AllocatedAt(c, w, d)
          /\ x.do = "declare" =>
               Accessors(c, w) = {} /\ Marked(c, "end", w) = {} /\ \A j \in 1..m : w \notin Owns(fr2[j])
    BY ONLY <1>15, <2>1, <2>2, <2>3
  <2> QED
    BY <1>19, <2>4 DEF Awaits, m
<1>29. Scopes(c, P2, fr2, na)
  <2> SUFFICES ASSUME NEW j \in 1..m
               PROVE
      /\ \A v \in Owns(fr2[j]) : v \in 1..na /\ AllocatedAt(c, v, d)
      /\ j = 3 => \A v \in Owns(fr2[j]) : Marked(c, "start", v) = {}
      /\ j >= 4 => \E x \in P2 : x.do = "leave block" /\ x.old = j - 1
      /\ \A i \in 1..m : i # j => \A v \in Owns(fr2[j]) : v \notin Owns(fr2[i])
    BY <1>19 DEF Scopes, m
  <2>1. j \in 1..(m + 1)
    BY <1>18
  <2>2. /\ \A v \in Owns(fr[j]) : v \in 1..na /\ AllocatedAt(bs, v, d)
        /\ j = 3 => \A v \in Owns(fr[j]) : Marked(bs, "start", v) = {}
        /\ j >= 4 => \E x \in P : x.do = "leave block" /\ x.old = j - 1
        /\ \A i \in 1..(m + 1) : i # j => \A v \in Owns(fr[j]) : v \notin Owns(fr[i])
    BY <1>21, <2>1
  <2>3. fr2[j] = fr[j]
    BY <1>4
  <2>4. ASSUME j >= 4
        PROVE  \E x \in P2 : x.do = "leave block" /\ x.old = j - 1
    <3>1. PICK x \in P : x.do = "leave block" /\ x.old = j - 1
      BY <2>2, <2>4
    <3>2. j - 1 # m
      BY ONLY <1>3, j \in 1..m
    <3>3. x # y
      BY <1>16, <3>1, <3>2
    <3> QED
      BY <3>1, <3>3
  <2>5. \A i \in 1..m : i # j => \A v \in Owns(fr2[j]) : v \notin Owns(fr2[i])
    BY <1>4, <1>18, <2>2, <2>3
  <2> QED
    BY <1>15, <2>2, <2>3, <2>4, <2>5
<1>30. Avoids(e, P2, b, Len(bs))
  <2>1. e \notin Region(b, Len(bs))
    BY ONLY <1>34, <1>12 DEF Region
  <2>2. \A r : r < b /\ r \in Nat => r \notin Region(b, Len(bs))
    BY ONLY <1>34, <1>12 DEF Region
  <2> QED
    BY <1>2, <2>1, <2>2 DEF Avoids
<1>31. ASSUME NEW v \in last
       PROVE  Gone(c, e, P2, v)
  <2>1. Held(bs, v, b, Len(bs)) /\ Marked(bs, "end", v) = {}
    BY <1>7, <1>10
  <2>2. Walled(c, b, Len(bs))
    BY <1>7, <1>15, AlikeWalled
  <2>3. Held(c, v, b, Len(bs))
    BY <1>15, <2>1 DEF Held
  <2>4. \A k \in Marked(c, "end", v) : k = b + 2
    BY <1>2, <1>15, <2>1
  <2>5. c[b + 2].inserted
    BY <1>2, <1>24, <1>25
  <2>6. Left(c, v, b, Len(bs))
    BY <2>2, <2>3, <2>4, <2>5 DEF Left
  <2> QED
    BY <1>30, <2>6 DEF Gone
<1>32. ASSUME NEW v, v \notin last, Gone(bs, p, P, v)
       PROVE  Gone(c, e, P2, v)
  <2>1. PICK b1, n : Left(bs, v, b1, n) /\ Avoids(p, P, b1, n)
    BY <1>32 DEF Gone
  <2>2. /\ Walled(bs, b1, n) /\ Held(bs, v, b1, n) /\ bs[b1 + 2].inserted
        /\ \A k \in Marked(bs, "end", v) : k = b1 + 2
    BY <2>1 DEF Left
  <2>3. Walled(c, b1, n)
    BY <1>15, <2>2, AlikeWalled
  <2>4. Held(c, v, b1, n)
    BY <1>15, <2>2 DEF Held
  <2>5. b1 + 2 \in 1..Len(bs)
    BY <1>12, <2>2 DEF Walled
  <2>6. Left(c, v, b1, n)
    BY <1>23, <1>24, <1>32, <2>2, <2>3, <2>4, <2>5 DEF Left
  <2>7. e \in Refs(y)
    BY <1>2 DEF Refs, Owed, e
  <2>8. Avoids(e, P2, b1, n)
    BY <1>5, <2>1, <2>7 DEF Avoids
  <2> QED
    BY <2>6, <2>8 DEF Gone
<1>33. ASSUME NEW v \in 1..na
       PROVE  Lives(c, e, P2, fr2, v)
  <2>1. Lives(bs, p, P, fr, v) /\ Marked(c, "start", v) = Marked(bs, "start", v)
    BY <1>1, <1>15
  <2>2. CASE v \in last
    BY <1>31, <2>2 DEF Lives
  <2>3. CASE v \notin last
    <3>1. Owned(P, fr, v) => Owned(P2, fr2, v)
      <4> SUFFICES ASSUME NEW x \in P, x.do = "leave block", v \in Owns(fr[x.old + 1])
                   PROVE  Owned(P2, fr2, v)
        BY DEF Owned
      <4>1. x # y
        BY <1>10, <2>3
      <4>2. x \in P2
        BY <4>1
      <4>3. fr2[x.old + 1] = fr[x.old + 1]
        BY <1>4, <1>17, <4>2
      <4> QED
        BY <4>2, <4>3 DEF Owned
    <3> QED
      BY <1>32, <2>1, <2>3, <3>1 DEF Lives
  <2> QED
    BY <2>2, <2>3
<1> QED
  BY <1>19, <1>26, <1>27, <1>28, <1>29, <1>33 DEF Penned, e

(* A function ends: its first basic block goes on to the second.           *)
LEMMA SitedEnd ==
  ASSUME NEW bs, NEW c, NEW d, NEW j, AddsOne(bs, c, d, j), IsTerminator(j),
         IsFirst(bs, d), Stops(Code0(bs, d)) = {},
         NEW A, Effect(bs, c, d, A, {d}, 0), NEW na \in Nat, NEW gen, Sited(bs, na, gen)
  PROVE  Sited(c, na, gen)
<1>1. /\ Len(c) = Len(bs) /\ \A k \in 1..Len(bs) : c[k].fn = bs[k].fn
      /\ \A k \in 1..Len(bs) : k # d => Code0(c, k) = Code0(bs, k)
      /\ Longer(Code0(bs, d), Code0(c, d), <<j>>)
  BY DEF AddsOne, Adds
<1>2. /\ Fresh(bs, na) /\ \A v \in 1..na : HasAlloca(bs, v)
      /\ \A b \in 1..Len(bs) : bs[b].fn \in gen
  BY DEF Sited
<1>3. Fresh(c, na)
  BY <1>2, FreshOn
<1>4. ~Late(Code0(c, d))
  BY <1>1, LongerEnd
<1>5. Remade(bs, c) /\ Accesses(bs, c, 0, {d})
  BY DEF Effect
<1>6. ASSUME NEW v \in 1..na, NEW e, AllocatedAt(bs, v, e)
      PROVE  AllocatedAt(c, v, e)
  <2>1. /\ IsFirst(bs, e) /\ Makes(bs, e, v) /\ ~Late(Code0(bs, e))
        /\ \A b \in Accessors(bs, v) : bs[b].fn = bs[e].fn
    BY <1>6 DEF AllocatedAt
  <2>2. IsFirst(c, e) /\ c[e].fn = bs[e].fn /\ e \in 1..Len(bs)
    BY <2>1, FirstOn
  <2>3. ~Late(Code0(c, e))
    BY <1>1, <1>4, <2>1, <2>2
  <2>4. \A b \in Accessors(c, v) : b \in Accessors(bs, v)
    BY <1>5 DEF Accesses
  <2>5. \A b \in Accessors(bs, v) : b \in 1..Len(bs)
    BY DEF Accessors, Marked
  <2>6. Makes(c, e, v)
    BY <1>5, <2>1 DEF Remade, SameMarks, Makes
  <2> QED
    BY <1>1, <2>1, <2>2, <2>3, <2>4, <2>5, <2>6 DEF AllocatedAt
<1>7. \A v \in 1..na : HasAlloca(c, v)
  BY <1>2, <1>6 DEF HasAlloca
<1> QED
  BY <1>1, <1>2, <1>3, <1>7 DEF Sited

LEMMA StilledEnd ==
  ASSUME NEW bs, NEW c, NEW d, NEW A, NEW Q, Effect(bs, c, d, A, Q, 0),
         NEW p, NEW P, NEW fr, NEW na \in Nat, Penned(bs, p, P, fr, na),
         \A y \in P : y.do # "leave block",
         \A t \in A : \E x \in P : t \in Refs(x)
  PROVE  Stilled(c, na)
<1> SUFFICES ASSUME NEW v \in 1..na
             PROVE  Marked(c, "start", v) = {} \/ \E b, n : Left(c, v, b, n)
  BY DEF Stilled
<1>1. Lives(bs, p, P, fr, v)
  BY DEF Penned
<1>2. ~Owned(P, fr, v)
  BY DEF Owned
<1>6. v # 0
  BY ONLY v \in 1..na, na \in Nat
<1>7. Effect(bs, c, d, A, Q, 0)
  OBVIOUS
<1>3. SameMarks(bs, c, "start")
  BY DEF Effect
<1>4. CASE Marked(bs, "start", v) = {}
  BY <1>3, <1>4 DEF SameMarks
<1>5. CASE Gone(bs, p, P, v)
  <2>1. PICK b, n : Left(bs, v, b, n) /\ Avoids(p, P, b, n)
    BY <1>5 DEF Gone
  <2>2. \A t \in A : t \notin Region(b, n)
    BY <2>1 DEF Avoids
  <2>4. Left(c, v, b, n)
    BY ONLY <1>6, <1>7, <2>1, <2>2, LeftOn
  <2> QED
    BY <2>4
<1> QED
  BY <1>1, <1>2, <1>4, <1>5 DEF Lives

(* A function begins: its first basic block allocates its n parameters,    *)
(* the second stores them.                                                 *)
Begun(bs, c, f, na, n) ==
  /\ Len(bs) \in Nat /\ na \in Nat /\ n \in Nat /\ Len(c) = Len(bs) + 2
  /\ \A k \in 1..Len(bs) : c[k] = bs[k]
  /\ c[Len(bs) + 1].fn = f /\ c[Len(bs) + 1].inserted /\ c[Len(bs) + 2].fn = f
  /\ Stops(Code0(c, Len(bs) + 1)) = {} /\ Stops(Code0(c, Len(bs) + 2)) = {}
  /\ \A k \in 1..Len(Code0(c, Len(bs) + 1)) :
       /\ Code0(c, Len(bs) + 1)[k].op \in {"alloca", "poison"}
       /\ Code0(c, Len(bs) + 1)[k].var \in (na + 1)..(na + n)
  /\ \A op \in {"alloca", "poison"}, v \in (na + 1)..(na + n) :
       \E k \in 1..Len(Code0(c, Len(bs) + 1)) :
         Code0(c, Len(bs) + 1)[k].op = op /\ Code0(c, Len(bs) + 1)[k].var = v
  /\ \A k \in 1..Len(Code0(c, Len(bs) + 2)) :
       /\ Code0(c, Len(bs) + 2)[k].op = "store"
       /\ Code0(c, Len(bs) + 2)[k].var \in (na + 1)..(na + n)

LEMMA BegunMarks ==
  ASSUME NEW bs, NEW c, NEW f, NEW na, NEW n, Begun(bs, c, f, na, n)
  PROVE  /\ \A op, v : v \notin (na + 1)..(na + n) => Marked(c, op, v) = Marked(bs, op, v)
         /\ \A v : /\ Marked(c, "start", v) = Marked(bs, "start", v)
                   /\ Marked(c, "end", v) = Marked(bs, "end", v)
                   /\ \A k \in Accessors(c, v) : k \in Accessors(bs, v) \/ k = Len(bs) + 2
                   /\ \A k \in Marked(c, "poison", v) : k \in Marked(bs, "poison", v) \/ k = Len(bs) + 1
                   /\ \A op \in {"alloca", "poison"} :
                        v \in (na + 1)..(na + n) => Len(bs) + 1 \in Marked(c, op, v)
<1> DEFINE m == Len(bs)
           w == Code0(c, m + 1)
           z == Code0(c, m + 2)
<1>1. m \in Nat /\ na \in Nat /\ n \in Nat /\ Len(c) = m + 2
  BY DEF Begun
<1>2. \A k \in 1..m : Code0(c, k) = Code0(bs, k)
  BY DEF Begun, Code0
<1>3. /\ \A k \in 1..Len(w) : w[k].op \in {"alloca", "poison"} /\ w[k].var \in (na + 1)..(na + n)
      /\ \A op \in {"alloca", "poison"}, v \in (na + 1)..(na + n) :
           \E k \in 1..Len(w) : w[k].op = op /\ w[k].var = v
  BY DEF Begun
<1>4. \A k \in 1..Len(z) : z[k].op = "store" /\ z[k].var \in (na + 1)..(na + n)
  BY DEF Begun
<1> HIDE DEF m
<1>5. /\ \A k \in 1..(m + 2) : k \in 1..m \/ k = m + 1 \/ k = m + 2
      /\ \A k \in 1..m : k \in 1..(m + 2)
      /\ m + 1 \in 1..(m + 2)
  BY ONLY <1>1
<1> HIDE DEF w, z
<1>6. ASSUME NEW op, NEW v
      PROVE  /\ \A k \in Marked(bs, op, v) : k \in Marked(c, op, v)
             /\ \A k \in Marked(c, op, v) :
                  \/ k \in Marked(bs, op, v)
                  \/ k = m + 1 /\ op \in {"alloca", "poison"} /\ v \in (na + 1)..(na + n)
                  \/ k = m + 2 /\ op = "store" /\ v \in (na + 1)..(na + n)
  <2>1. ASSUME NEW k \in Marked(bs, op, v)
        PROVE  k \in Marked(c, op, v)
    <3>1. k \in 1..m
      BY DEF Marked, m
    <3>2. k \in 1..Len(c) /\ Code0(c, k) = Code0(bs, k)
      BY <1>1, <1>2, <1>5, <3>1
    <3> QED
      BY <3>2 DEF Marked
  <2>2. ASSUME NEW k \in Marked(c, op, v)
        PROVE  \/ k \in Marked(bs, op, v)
               \/ k = m + 1 /\ op \in {"alloca", "poison"} /\ v \in (na + 1)..(na + n)
               \/ k = m + 2 /\ op = "store" /\ v \in (na + 1)..(na + n)
    <3>1. k \in 1..(m + 2) /\ \E i \in 1..Len(Code0(c, k)) : Code0(c, k)[i].op = op /\ Code0(c, k)[i].var = v
      BY <1>1 DEF Marked
    <3>2. CASE k \in 1..m
      BY <1>2, <3>1, <3>2 DEF Marked, m
    <3>3. CASE k = m + 1
      <4>1. PICK i \in 1..Len(w) : w[i].op = op /\ w[i].var = v
        BY <3>1, <3>3 DEF w
      <4> QED
        BY <1>3, <3>3, <4>1
    <3>4. CASE k = m + 2
      BY <1>4, <3>1, <3>4 DEF z
    <3> QED
      BY <1>5, <3>1, <3>2, <3>3, <3>4
  <2> QED
    BY <2>1, <2>2
<1>7. ASSUME NEW op, NEW v, v \notin (na + 1)..(na + n) \/ op \in {"start", "end", "load"}
      PROVE  Marked(c, op, v) = Marked(bs, op, v)
  <2>1. \A k \in Marked(bs, op, v) : k \in Marked(c, op, v)
    BY <1>6
  <2>2. \A k \in Marked(c, op, v) : k \in Marked(bs, op, v)
    BY <1>6, <1>7
  <2> QED
    BY ONLY <2>1, <2>2
<1>8. ASSUME NEW v
      PROVE  \A k \in Accessors(c, v) : k \in Accessors(bs, v) \/ k = m + 2
  <2>1. \A k \in Marked(c, "load", v) : k \in Marked(bs, "load", v)
    BY <1>6
  <2>2. \A k \in Marked(c, "store", v) : k \in Marked(bs, "store", v) \/ k = m + 2
    BY <1>6
  <2> QED
    BY <2>1, <2>2 DEF Accessors
<1>9. ASSUME NEW v \in (na + 1)..(na + n), NEW op \in {"alloca", "poison"}
      PROVE  m + 1 \in Marked(c, op, v)
  <2>1. \E k \in 1..Len(w) : w[k].op = op /\ w[k].var = v
    BY <1>3
  <2>2. m + 1 \in 1..Len(c)
    BY <1>1, <1>5
  <2> QED
    BY <2>1, <2>2 DEF Marked, w
<1>10. \A v : \A k \in Marked(c, "poison", v) : k \in Marked(bs, "poison", v) \/ k = m + 1
  BY <1>6
<1>11. \A v : Marked(c, "start", v) = Marked(bs, "start", v) /\ Marked(c, "end", v) = Marked(bs, "end", v)
  BY <1>7
<1>12. \A op, v : v \notin (na + 1)..(na + n) => Marked(c, op, v) = Marked(bs, op, v)
  BY <1>7
<1> QED
  BY <1>8, <1>9, <1>10, <1>11, <1>12 DEF m

LEMMA BegunFirst ==
  ASSUME NEW bs, NEW c, NEW f, NEW na, NEW n, Begun(bs, c, f, na, n),
         \A b \in 1..Len(bs) : bs[b].fn # f
  PROVE  /\ IsFirst(c, Len(bs) + 1)
         /\ \A d : IsFirst(bs, d) => IsFirst(c, d) /\ c[d] = bs[d]
<1> DEFINE m == Len(bs)
<1>1. /\ m \in Nat /\ Len(c) = m + 2 /\ \A k \in 1..m : c[k] = bs[k]
      /\ c[m + 1].fn = f /\ c[m + 1].inserted /\ c[m + 2].fn = f
      /\ \A k \in 1..m : bs[k].fn # f
  BY DEF Begun
<1> HIDE DEF m
<1>2. /\ \A k \in 1..(m + 2) : k \in 1..m \/ k = m + 1 \/ k = m + 2
      /\ m + 1 \in 1..(m + 2) /\ m + 1 <= m + 1 /\ m + 1 <= m + 2
      /\ \A k \in 1..m : k \in 1..(m + 2) /\ k <= m + 1 /\ k <= m + 2
  BY ONLY <1>1
<1>3. \A b \in 1..Len(c) : c[b].fn = c[m + 1].fn => m + 1 <= b
  BY ONLY <1>1, <1>2
<1>4. IsFirst(c, m + 1)
  BY <1>1, <1>2, <1>3 DEF IsFirst
<1>5. ASSUME NEW d, IsFirst(bs, d)
      PROVE  IsFirst(c, d) /\ c[d] = bs[d]
  <2>1. /\ d \in 1..m /\ bs[d].inserted
        /\ \A b \in 1..m : bs[b].fn = bs[d].fn => d <= b
    BY <1>5 DEF IsFirst, m
  <2>2. c[d] = bs[d] /\ d \in 1..Len(c)
    BY <1>1, <1>2, <2>1
  <2>3. \A b \in 1..Len(c) : c[b].fn = c[d].fn => d <= b
    BY <1>1, <1>2, <2>1, <2>2
  <2> QED
    BY <2>1, <2>2, <2>3 DEF IsFirst
<1> QED
  BY <1>4, <1>5 DEF m

LEMMA SitedBegin ==
  ASSUME NEW bs, NEW c, NEW f, NEW na, NEW n, Begun(bs, c, f, na, n),
         NEW gen, Sited(bs, na, gen), f \notin gen
  PROVE  /\ Sited(c, na + n, gen \union {f})
         /\ \A v \in (na + 1)..(na + n) : AllocatedAt(c, v, Len(bs) + 1)
<1> DEFINE m == Len(bs)
<1>1. /\ m \in Nat /\ na \in Nat /\ n \in Nat /\ Len(c) = m + 2 /\ \A k \in 1..m : c[k] = bs[k]
      /\ c[m + 1].fn = f /\ c[m + 2].fn = f /\ Stops(Code0(c, m + 1)) = {}
  BY DEF Begun
<1>2. /\ Fresh(bs, na) /\ \A v \in 1..na : HasAlloca(bs, v)
      /\ \A b \in 1..m : bs[b].fn \in gen
  BY DEF Sited
<1>3. /\ IsFirst(c, m + 1)
      /\ \A d : IsFirst(bs, d) => IsFirst(c, d) /\ c[d] = bs[d]
  BY <1>2, BegunFirst
<1>4. /\ \A op, v : v \notin (na + 1)..(na + n) => Marked(c, op, v) = Marked(bs, op, v)
      /\ \A v : /\ \A k \in Accessors(c, v) : k \in Accessors(bs, v) \/ k = m + 2
                /\ \A k \in Marked(c, "poison", v) : k \in Marked(bs, "poison", v) \/ k = m + 1
                /\ \A op \in {"alloca", "poison"} :
                     v \in (na + 1)..(na + n) => m + 1 \in Marked(c, op, v)
  BY BegunMarks
<1>5. \A v : \A k \in Accessors(bs, v) : k \in 1..m
  BY DEF Accessors, Marked
<1> HIDE DEF m
<1>6. /\ na + n \in Nat /\ \A v \in Nat : v > na + n => v > na /\ v \notin (na + 1)..(na + n)
      /\ \A v \in (na + 1)..(na + n) : v \in Nat /\ v > na
      /\ \A v \in 1..(na + n) : v \in 1..na \/ v \in (na + 1)..(na + n)
      /\ \A v \in 1..na : v \notin (na + 1)..(na + n)
      /\ \A k \in 1..(m + 2) : k \in 1..m \/ k = m + 1 \/ k = m + 2
  BY ONLY <1>1
<1>7. Fresh(c, na + n)
  BY <1>2, <1>4, <1>6 DEF Fresh
<1>8. ASSUME NEW v \in (na + 1)..(na + n)
      PROVE  AllocatedAt(c, v, m + 1)
  <2>1. Accessors(bs, v) = {} /\ Marked(bs, "poison", v) = {}
    BY <1>2, <1>6, AccessorsOf DEF Fresh, Ops
  <2>2. \A b \in Accessors(c, v) : c[b].fn = c[m + 1].fn
    BY <1>1, <1>4, <2>1
  <2>3. ~Late(Code0(c, m + 1))
    BY <1>1 DEF Late
  <2>4. Makes(c, m + 1, v)
    <3>1. m + 1 \in Marked(c, "alloca", v) /\ m + 1 \in Marked(c, "poison", v)
      BY <1>4
    <3>2. \A k \in Marked(c, "poison", v) : k = m + 1
      BY <1>4, <2>1
    <3> QED
      BY <3>1, <3>2 DEF Makes
  <2> QED
    BY <1>3, <2>2, <2>3, <2>4 DEF AllocatedAt
<1>9. ASSUME NEW v \in 1..na
      PROVE  HasAlloca(c, v)
  <2>1. PICK d : AllocatedAt(bs, v, d)
    BY <1>2 DEF HasAlloca
  <2>2. /\ IsFirst(bs, d) /\ Makes(bs, d, v) /\ ~Late(Code0(bs, d))
        /\ \A b \in Accessors(bs, v) : bs[b].fn = bs[d].fn
    BY <2>1 DEF AllocatedAt
  <2>3. IsFirst(c, d) /\ c[d] = bs[d]
    BY <1>3, <2>2
  <2>4. \A op : Marked(c, op, v) = Marked(bs, op, v)
    BY <1>4, <1>6
  <2>5. Accessors(c, v) = Accessors(bs, v)
    BY <2>4 DEF Accessors
  <2>6. \A b \in Accessors(c, v) : c[b].fn = c[d].fn
    BY <1>1, <1>5, <2>2, <2>3, <2>5
  <2>7. ~Late(Code0(c, d)) /\ Makes(c, d, v)
    BY <2>2, <2>3, <2>4 DEF Code0, Makes
  <2> QED
    BY <2>3, <2>6, <2>7 DEF AllocatedAt, HasAlloca
<1>10. \A v \in 1..(na + n) : HasAlloca(c, v)
  BY <1>6, <1>8, <1>9 DEF HasAlloca
<1>11. \A b \in 1..Len(c) : c[b].fn \in gen \union {f}
  BY <1>1, <1>2, <1>6
<1> QED
  BY <1>7, <1>8, <1>10, <1>11 DEF Sited, m

LEMMA BegunLeft ==
  ASSUME NEW bs, NEW c, NEW f, NEW na, NEW k, Begun(bs, c, f, na, k),
         NEW v \in 1..na, NEW b, NEW n, Left(bs, v, b, n)
  PROVE  Left(c, v, b, n) /\ n <= Len(bs) /\ b \in Nat \ {0} /\ n \in Nat /\ b + 2 <= n
<1> DEFINE m == Len(bs)
<1>1. /\ m \in Nat /\ na \in Nat /\ k \in Nat /\ Len(c) = m + 2 /\ \A i \in 1..m : c[i] = bs[i]
      /\ Stops(Code0(c, m + 1)) = {} /\ Stops(Code0(c, m + 2)) = {}
  BY DEF Begun
<1>2. /\ Walled(bs, b, n) /\ Held(bs, v, b, n) /\ bs[b + 2].inserted
      /\ \A i \in Marked(bs, "end", v) : i = b + 2
  BY DEF Left
<1>3. /\ b \in Nat \ {0} /\ n \in Nat /\ b + 2 <= n /\ n <= m
      /\ \A i \in Region(b, n) : bs[i].fn = bs[b].fn
      /\ \A i \in 1..m : \A t \in Targets(Code0(bs, i)) :
           t \in Region(b, n) => i \in Region(b, n) \/ i = b
  BY <1>2 DEF Walled
<1>4. \A op : Marked(c, op, v) = Marked(bs, op, v)
  <2>1. v \notin (na + 1)..(na + k)
    BY ONLY <1>1, v \in 1..na
  <2> QED
    BY <2>1, BegunMarks
<1>5. \A i \in 1..m : Code0(c, i) = Code0(bs, i)
  BY <1>1 DEF Code0
<1> HIDE DEF m
<1>6. /\ \A i \in 1..(m + 2) : i \in 1..m \/ i = m + 1 \/ i = m + 2
      /\ \A i \in Region(b, n) : i \in 1..m
      /\ b \in 1..m /\ b + 2 \in 1..m /\ n <= m + 2
  BY ONLY <1>1, <1>3 DEF Region
<1>7. \A i \in Region(b, n) : c[i].fn = c[b].fn
  BY <1>1, <1>3, <1>6
<1>8. \A i \in 1..Len(c) : \A t \in Targets(Code0(c, i)) :
        t \in Region(b, n) => i \in Region(b, n) \/ i = b
  <2>1. \A i \in 1..Len(c) : i \in 1..m \/ Targets(Code0(c, i)) = {}
    BY <1>1, <1>6 DEF Targets
  <2> QED
    BY <1>3, <1>5, <2>1
<1>9. Walled(c, b, n)
  BY <1>1, <1>3, <1>6, <1>7, <1>8 DEF Walled
<1>10. Held(c, v, b, n)
  BY <1>2, <1>4 DEF Held, Accessors
<1>11. c[b + 2].inserted
  BY <1>1, <1>2, <1>6
<1> QED
  BY <1>2, <1>3, <1>4, <1>9, <1>10, <1>11 DEF Left, m

LEMMA PennedBegin ==
  ASSUME NEW bs, NEW c, NEW f, NEW na, NEW n, Begun(bs, c, f, na, n),
         NEW gen, Sited(bs, na, gen), f \notin gen, Stilled(bs, na),
         NEW fr, Len(fr) = 3, fr[3].declarations_block = Len(bs) + 1,
         Owns(fr[1]) = {}, Owns(fr[2]) = {}, \A v \in Owns(fr[3]) : v \in (na + 1)..(na + n),
         NEW P, \A x \in P : /\ x.do # "leave block" /\ Vars(x) = {}
                             /\ \A r \in Refs(x) : r > Len(bs)
  PROVE  Penned(c, Len(bs) + 2, P, fr, na + n)
<1> DEFINE m == Len(bs)
<1>1. /\ m \in Nat /\ na \in Nat /\ n \in Nat /\ Len(c) = m + 2 /\ \A i \in 1..m : c[i] = bs[i]
      /\ c[m + 1].fn = f /\ c[m + 2].fn = f /\ Stops(Code0(c, m + 1)) = {}
  BY DEF Begun
<1>2. \A v \in (na + 1)..(na + n) : AllocatedAt(c, v, m + 1)
  BY SitedBegin
<1>3. IsFirst(c, m + 1)
  <2>1. \A b \in 1..Len(bs) : bs[b].fn # f
    BY DEF Sited
  <2> QED
    BY <2>1, BegunFirst
<1>4. Prelude(c, m + 2, m + 1)
  <2>1. m + 1 # m + 2
    <3>1. m \in Nat
      BY <1>1
    <3> QED
      BY ONLY <3>1
  <2> QED
    BY <1>1, <1>3, <2>1 DEF Prelude
<1>5. ASSUME NEW v \in (na + 1)..(na + n)
      PROVE  Marked(c, "start", v) = {}
  <2>1. v \in Nat /\ v > na
    BY ONLY <1>1, v \in (na + 1)..(na + n)
  <2>2. Marked(bs, "start", v) = {}
    BY <2>1 DEF Sited, Fresh, Ops
  <2> QED
    BY <2>2, BegunMarks
<1>6. \A v \in (na + 1)..(na + n) : v \in 1..(na + n)
  BY ONLY <1>1
<1>7. Scopes(c, P, fr, na + n)
  <2> SUFFICES ASSUME NEW j \in 1..Len(fr)
               PROVE  /\ \A v \in Owns(fr[j]) : v \in 1..(na + n) /\ AllocatedAt(c, v, fr[3].declarations_block)
                      /\ j = 3 => \A v \in Owns(fr[j]) : Marked(c, "start", v) = {}
                      /\ j >= 4 => \E y \in P : y.do = "leave block" /\ y.old = j - 1
                      /\ \A i \in 1..Len(fr) : i # j => \A v \in Owns(fr[j]) : v \notin Owns(fr[i])
    BY DEF Scopes
  <2>1. j = 1 \/ j = 2 \/ j = 3
    BY ONLY j \in 1..Len(fr), Len(fr) = 3
  <2>2. CASE j = 3
    <3>1. \A v \in Owns(fr[j]) : v \in (na + 1)..(na + n)
      BY <2>2
    <3>2. \A i \in 1..Len(fr) : i # 3 => i = 1 \/ i = 2
      BY ONLY Len(fr) = 3
    <3>3. \A i \in 1..Len(fr) : i # j => Owns(fr[i]) = {}
      BY <2>2, <3>2
    <3>4. ~(j >= 4)
      BY ONLY <2>2
    <3>5. \A v \in Owns(fr[j]) : AllocatedAt(c, v, fr[3].declarations_block)
      BY <1>2, <3>1
    <3> QED
      BY <1>5, <1>6, <3>1, <3>3, <3>4, <3>5
  <2>3. CASE j = 1 \/ j = 2
    <3>1. Owns(fr[j]) = {}
      BY <2>3
    <3>2. j # 3 /\ ~(j >= 4)
      BY ONLY <2>3
    <3> QED
      BY <3>1, <3>2
  <2> QED
    BY <2>1, <2>2, <2>3
<1>8. \A x \in P : Awaits(c, x, fr, na + n)
  BY DEF Awaits
<1>9. ASSUME NEW v \in 1..(na + n)
      PROVE  Lives(c, m + 2, P, fr, v)
  <2>1. v \in (na + 1)..(na + n) \/ v \in 1..na
    BY ONLY <1>1, v \in 1..(na + n)
  <2>2. CASE v \in (na + 1)..(na + n)
    BY <1>5, <2>2 DEF Lives
  <2>3. CASE v \in 1..na
    <3>1. CASE Marked(bs, "start", v) = {}
      BY <3>1, BegunMarks DEF Lives
    <3>2. CASE \E b, k : Left(bs, v, b, k)
      <4>1. PICK b, k : Left(bs, v, b, k)
        BY <3>2
      <4>2. Left(c, v, b, k) /\ k <= Len(bs) /\ b \in Nat \ {0} /\ k \in Nat /\ b + 2 <= k
        BY <2>3, <4>1, BegunLeft
      <4>3. k <= m
        BY <4>2
      <4> HIDE DEF m
      <4>4. \A i \in Region(b, k) : i \in Nat /\ i <= m /\ i # m + 2
        BY ONLY <1>1, <4>2, <4>3 DEF Region
      <4>5. m + 2 \notin Region(b, k)
        BY ONLY <4>4
      <4>6. \A r \in Region(b, k) : ~(r > m)
        BY ONLY <1>1, <4>4
      <4>7. \A x \in P : \A r \in Refs(x) : r \notin Region(b, k)
        BY <4>6 DEF m
      <4>8. Gone(c, m + 2, P, v)
        BY <4>2, <4>5, <4>7 DEF Gone, Avoids
      <4> QED
        BY <4>8 DEF Lives
    <3> QED
      BY <2>3, <3>1, <3>2 DEF Stilled
  <2> QED
    BY <2>1, <2>2, <2>3
<1>10. \A y \in P : y.do = "leave block" => Opened(c, m + 2, y, fr)
  OBVIOUS
<1> HIDE DEF m
<1>11. Prelude(c, m + 2, fr[3].declarations_block)
  BY <1>4 DEF m
<1>12. Penned(c, m + 2, P, fr, na + n)
  BY <1>7, <1>8, <1>9, <1>10, <1>11 DEF Penned
<1> QED
  BY <1>12 DEF m

(* New basic blocks without code.                                          *)
LEMMA EffectExtends ==
  ASSUME NEW bs, Shape(bs), NEW s, IsSeq(s), \A k \in 1..Len(s) : IsBlock(s[k]) /\ s[k].insts = <<>>,
         NEW p, NEW A, NEW Q, NEW u
  PROVE  /\ Effect(bs, bs \o s, p, A, Q, u) /\ Len(bs \o s) = Len(bs) + Len(s)
         /\ \A f : (\A k \in 1..Len(s) : s[k].fn = f) => Beyond(bs, bs \o s, f)
<1> DEFINE c == bs \o s
<1>1. /\ IsSeq(c) /\ Len(c) = Len(bs) + Len(s) /\ Len(bs) \in Nat /\ Len(s) \in Nat
      /\ \A k \in 1..Len(bs) : c[k] = bs[k]
      /\ \A k \in 1..Len(s) : c[Len(bs) + k] = s[k]
  BY JoinIs DEF Shape
<1> HIDE DEF c
<1>2. /\ \A k \in 1..Len(c) : k \in 1..Len(bs) \/ (k - Len(bs) \in 1..Len(s) /\ Len(bs) + (k - Len(bs)) = k)
      /\ \A k \in 1..Len(bs) : k \in 1..Len(c)
      /\ \A k \in (Len(bs) + 1)..Len(c) : k - Len(bs) \in 1..Len(s) /\ Len(bs) + (k - Len(bs)) = k
      /\ Len(bs) <= Len(c) /\ Len(c) \in Nat
  BY ONLY <1>1
<1>3. /\ \A k \in 1..Len(bs) : c[k] = bs[k]
      /\ \A k \in 1..Len(c) : k \in 1..Len(bs) \/ (IsBlock(c[k]) /\ c[k].insts = <<>>)
  <2>1. ASSUME NEW k \in 1..Len(c), k \notin 1..Len(bs)
        PROVE  IsBlock(c[k]) /\ c[k].insts = <<>>
    <3>1. k - Len(bs) \in 1..Len(s) /\ Len(bs) + (k - Len(bs)) = k
      BY ONLY <1>2, <2>1
    <3>2. c[k] = s[k - Len(bs)]
      BY <1>1, <3>1
    <3> QED
      BY <3>1, <3>2
  <2> QED
    BY <1>1, <2>1
<1>4. Shape(c)
  BY <1>1, <1>3 DEF Shape
<1>5. Grows(bs, c)
  BY <1>1, <1>2, <1>3 DEF Grows
<1>6. ASSUME NEW k \in 1..Len(c), k \notin 1..Len(bs)
      PROVE  Code0(c, k) = <<>> /\ Stops(Code0(c, k)) = {} /\ Targets(Code0(c, k)) = {}
  <2>1. Code0(c, k) = <<>>
    BY <1>3, <1>6 DEF Code0
  <2>2. Stops(Code0(c, k)) = {}
    BY <2>1 DEF Stops
  <2> QED
    BY <2>1, <2>2 DEF Targets
<1>7. \A k \in 1..Len(bs) : Code0(c, k) = Code0(bs, k)
  BY <1>3 DEF Code0
<1>8. JumpsOnly(bs, c, p, A, p, A)
  BY <1>6, <1>7 DEF JumpsOnly
<1>9. ASSUME NEW op, NEW v
      PROVE  Marked(c, op, v) = Marked(bs, op, v)
  <2>1. ASSUME NEW k \in Marked(c, op, v)
        PROVE  k \in Marked(bs, op, v)
    <3>1. k \in 1..Len(c) /\ \E i \in 1..Len(Code0(c, k)) : Code0(c, k)[i].op = op /\ Code0(c, k)[i].var = v
      BY DEF Marked
    <3>2. CASE k \in 1..Len(bs)
      BY <1>7, <3>1, <3>2 DEF Marked
    <3>3. CASE k \notin 1..Len(bs)
      <4>1. Code0(c, k) = <<>>
        BY <1>6, <3>1, <3>3
      <4> QED
        BY <3>1, <4>1
    <3> QED
      BY <3>2, <3>3
  <2>2. ASSUME NEW k \in Marked(bs, op, v)
        PROVE  k \in Marked(c, op, v)
    BY <1>2, <1>7 DEF Marked
  <2> QED
    BY <2>1, <2>2
<1>10. Touched(bs, c, Q)
  BY <1>7 DEF Touched
<1>11. Effect(bs, c, p, A, Q, u)
  BY <1>4, <1>5, <1>8, <1>9, <1>10 DEF Effect, SameMarks, Remade, Accesses, Accessors
<1>12. ASSUME NEW f, \A k \in 1..Len(s) : s[k].fn = f
       PROVE  Beyond(bs, c, f)
  <2>1. \A k \in (Len(bs) + 1)..Len(c) : c[k] = s[k - Len(bs)]
    BY <1>1, <1>2
  <2> QED
    BY <1>2, <1>12, <2>1 DEF Beyond
<1> QED
  BY <1>1, <1>11, <1>12 DEF c

(* A step of a function that is no end of a block or function: it goes on  *)
(* at p2, and N is to be done now.                                         *)
Worked(bs, c, p, A, u, p2, x, R, N, fr, na) ==
  /\ x.do # "leave block" /\ x.do # "end function"
  /\ Effect(bs, c, p, A, {p, p2}, u) /\ Beyond(bs, c, bs[p].fn)
  /\ p2 \in 1..Len(c) /\ c[p2].fn = bs[p].fn
  /\ p2 > Len(bs) \/ p2 = p \/ p2 \in Owed(x)
  /\ \A t \in A : t > Len(bs) \/ t \in Refs(x)
  /\ \A y \in N : /\ y.do # "leave block" /\ Awaits(bs, y, fr, na)
                  /\ \A r \in Refs(y) : r > Len(bs)
  /\ Accessible(bs, N \union R, fr, na, u)

(* What is known inside a function.                                        *)
LEMMA InsideIs ==
  ASSUME NEW bs, NEW p, NEW s, NEW fr, NEW gen, InFunction(bs, p, s, fr, gen)
  PROVE  Shape(bs) /\ Len(bs) \in Nat /\ p \in 1..Len(bs) /\ Ranged(bs)
<1>1. /\ Shape(bs) /\ \A b \in OwedBy(Entries(s)) \union {p} : b \in 1..Len(bs)
      /\ \A b \in 1..Len(bs) : \A t \in Targets(Code0(bs, b)) : t \in 1..Len(bs)
  BY DEF InFunction, Graph, Joined
<1> QED
  BY <1>1, ListIs DEF Shape, Ranged

LEMMA WorkedSteps ==
  ASSUME NEW bs, NEW p, NEW s, NEW fr, NEW gen, InFunction(bs, p, s, fr, gen), s # <<>>,
         NEW na, Penned(bs, p, Entries(s), fr, na), Nested(s), Len(fr) \in Nat,
         NEW x, x = Head(s), NEW R, R = Entries(Tail(s)),
         NEW c, NEW A, NEW u, NEW p2, NEW N, Worked(bs, c, p, A, u, p2, x, R, N, fr, na)
  PROVE  Steps(bs, c, p, A, {p, p2}, u, p, Entries(s), p2, N \union R, fr, na)
<1> DEFINE P == Entries(s)
           P2 == N \union R
           Q == {p, p2}
           d == fr[3].declarations_block
           m == Len(bs)
           n == Len(c)
<1>1. Shape(bs) /\ m \in Nat /\ p \in 1..m /\ Ranged(bs)
  BY InsideIs
<1>2. /\ x.do # "leave block" /\ x.do # "end function"
      /\ Effect(bs, c, p, A, Q, u) /\ Beyond(bs, c, bs[p].fn)
      /\ p2 \in 1..n /\ c[p2].fn = bs[p].fn
      /\ p2 > m \/ p2 = p \/ p2 \in Owed(x)
      /\ \A t \in A : t > m \/ t \in Refs(x)
      /\ \A y \in N : /\ y.do # "leave block" /\ Awaits(bs, y, fr, na)
                      /\ \A r \in Refs(y) : r > m
      /\ Accessible(bs, P2, fr, na, u)
  BY DEF Worked
<1>3. Prelude(bs, p, d)
  BY DEF Penned
<1>4. IsFirst(bs, d) /\ bs[d].fn = bs[p].fn /\ d # p
  BY <1>3 DEF Prelude
<1>14. d \in 1..m
  BY <1>4 DEF IsFirst
<1>5. P = {x} \union R /\ Nests(x, R)
  BY NestedPop
<1>6. Fits(bs, bs[p].fn, x, R) /\ Inside(R)
  BY <1>2, PopFits
<1> HIDE DEF d, m, n, Q
<1>7. p2 # d
  <2>1. PICK e \in R : e.do = "end function"
    BY <1>6 DEF Inside
  <2>2. Len(fr) >= 3 /\ \A j \in 3..Len(fr) : fr[j].declarations_block = e.decls
    BY <1>5, <2>1 DEF InFunction, Framed
  <2>3. Len(fr) \in Nat
    OBVIOUS
  <2>4. 3 \in 3..Len(fr)
    BY ONLY <2>2, <2>3
  <2>5. d = e.decls
    BY <2>2, <2>4 DEF d
  <2>6. d \in OwedBy(R)
    BY <2>1, <2>5 DEF OwedBy, Owed
  <2>7. p2 \in Owed(x) => p2 # d
    BY <1>6, <2>6 DEF Fits
  <2>8. p2 > m => p2 # d
    BY ONLY <1>1, <1>14
  <2> QED
    BY <1>2, <1>4, <2>7, <2>8
<1>18. Effect(bs, c, p, A, {p, p2}, u)
  BY DEF Worked
<1>8. n \in Nat /\ m <= n /\ \A k \in 1..m : k \in 1..n /\ c[k].fn = bs[k].fn
  BY ONLY <1>18, EffectIs DEF m, n
<1>9. Spared(bs, c, Q, d)
  <2>1. c[p].fn = bs[p].fn /\ p \in 1..n
    BY <1>1, <1>8
  <2>2. \A k \in Q : k = p \/ k = p2
    BY DEF Q
  <2> QED
    BY <1>2, <1>4, <1>7, <2>1, <2>2 DEF Spared, n
<1>10. \A r \in Refs(x) : From(bs, p, P, r)
  BY <1>5 DEF From
<1>11. /\ From(bs, p, P, p2) /\ \A t \in A : From(bs, p, P, t)
       /\ \A y \in P2 : \A r \in Refs(y) : From(bs, p, P, r)
  <2>1. From(bs, p, P, p2)
    BY <1>2, <1>10 DEF From, Refs, m
  <2>2. \A t \in A : From(bs, p, P, t)
    BY <1>2, <1>10 DEF From, m
  <2>3. \A y \in N : \A r \in Refs(y) : From(bs, p, P, r)
    BY <1>2 DEF From, m
  <2>4. \A y \in R : \A r \in Refs(y) : From(bs, p, P, r)
    BY <1>5 DEF From
  <2> QED
    BY <2>1, <2>2, <2>3, <2>4
<1>12. ASSUME NEW y \in P2, y.do = "leave block"
       PROVE  y \in P /\ Inner(c, y, p, Q, p2)
  <2>1. y \in R
    BY <1>2, <1>12
  <2>2. Opened(bs, p, y, fr)
    BY <1>5, <1>12, <2>1 DEF Penned
  <2>3. p \in Region(y.begin, m) /\ Walled(bs, y.begin, m)
    BY <2>2 DEF Opened, m
  <2>4. y.begin \in Nat \ {0} /\ y.begin + 2 <= m
    BY <2>3 DEF Walled
  <2>5. /\ \A k \in Region(y.begin, m) : k \in Region(y.begin, n)
        /\ \A k \in (m + 1)..n : k \in Region(y.begin, n)
    <3>1. y.begin \in Nat
      BY <2>4
    <3> QED
      BY ONLY <1>1, <1>8, <2>4, <3>1, RegionWide
  <2>6. p2 \in Region(y.begin, n)
    <3>1. CASE p2 > m
      <4>1. p2 \in (m + 1)..n
        <5>1. p2 \in 1..n
          BY <1>2
        <5> QED
          BY ONLY <1>1, <5>1, <1>8, <3>1
      <4> QED
        BY <2>5, <4>1
    <3>2. CASE p2 = p
      BY <2>3, <2>5, <3>2
    <3>3. CASE p2 \in Owed(x)
      <4>1. p2 > y.end
        BY <1>5, <1>12, <2>1, <3>3 DEF Nests, Refs
      <4>2. y.end = y.begin + 2
        <5>1. Shaped(Entries(s)) /\ y \in P
          BY <1>5, <2>1, NestedShaped
        <5> QED
          BY <1>12, <5>1 DEF Shaped
      <4>3. p2 \in 1..n
        BY <1>2
      <4> QED
        BY ONLY <2>4, <4>1, <4>2, <4>3, <1>8 DEF Region
    <3> QED
      BY <1>2, <3>1, <3>2, <3>3
  <2>7. p \in Region(y.begin, n)
    BY <2>3, <2>5
  <2>8. \A k \in Q : k = p \/ k = p2
    BY DEF Q
  <2> QED
    BY <1>5, <2>1, <2>6, <2>7, <2>8 DEF Inner, n
<1>13. \A y \in P : y.do = "leave block" => y \in P2
  BY <1>2, <1>5
<1>15. \A y \in P2 : y \in P \/ Awaits(bs, y, fr, na)
  BY <1>2, <1>5
<1> HIDE DEF P, P2
<1>16. Spared(bs, c, Q, fr[3].declarations_block) /\ p2 # fr[3].declarations_block
  BY <1>7, <1>9 DEF d
<1>17. Steps(bs, c, p, A, Q, u, p, P, p2, P2, fr, na)
  BY <1>1, <1>2, <1>11, <1>12, <1>13, <1>15, <1>16 DEF Steps, P2
<1> QED
  BY <1>17 DEF P, P2, Q

(* What LiveInv says inside a function, with s to be done.                 *)
Lively(bs, p, s, fr, na, gen) ==
  /\ Nested(s) /\ Outermost(fr) /\ Sited(bs, na, gen) /\ Penned(bs, p, Entries(s), fr, na)

(* With what IInv and WiredInv say there.                                  *)
Situated(bs, p, s, fr, gen, na) ==
  /\ InFunction(bs, p, s, fr, gen) /\ s # <<>> /\ na \in Nat /\ Len(fr) \in Nat
  /\ Lively(bs, p, s, fr, na, gen)
(* The first entry of s is replaced by N.                                  *)
Continued(bs, c, p, A, u, p2, s, N, s2, fr, na) ==
  /\ Worked(bs, c, p, A, u, p2, Head(s), Entries(Tail(s)), N, fr, na)
  /\ Nested(s2) /\ Entries(s2) = N \union Entries(Tail(s))

LEMMA WorksOn ==
  ASSUME NEW bs, NEW p, NEW s, NEW fr, NEW gen, NEW na, Situated(bs, p, s, fr, gen, na),
         NEW c, NEW A, NEW u, NEW p2, NEW N, NEW s2, Continued(bs, c, p, A, u, p2, s, N, s2, fr, na)
  PROVE  Lively(c, p2, s2, fr, na, gen) /\ Inside(Entries(s2))
<1>6. InFunction(bs, p, s, fr, gen) /\ s # <<>> /\ na \in Nat /\ Len(fr) \in Nat
  BY DEF Situated
<1>7. /\ Worked(bs, c, p, A, u, p2, Head(s), Entries(Tail(s)), N, fr, na)
      /\ Nested(s2) /\ Entries(s2) = N \union Entries(Tail(s))
  BY DEF Continued
<1>1. Nested(s) /\ Outermost(fr) /\ Sited(bs, na, gen) /\ Penned(bs, p, Entries(s), fr, na)
  BY DEF Situated, Lively
<1>2. Steps(bs, c, p, A, {p, p2}, u, p, Entries(s), p2, Entries(s2), fr, na)
  <2>1. /\ InFunction(bs, p, s, fr, gen) /\ s # <<>> /\ Penned(bs, p, Entries(s), fr, na) /\ Nested(s)
        /\ Len(fr) \in Nat /\ Worked(bs, c, p, A, u, p2, Head(s), Entries(Tail(s)), N, fr, na)
    BY <1>1, <1>6, <1>7
  <2>2. Steps(bs, c, p, A, {p, p2}, u, p, Entries(s), p2, N \union Entries(Tail(s)), fr, na)
    BY ONLY <2>1, WorkedSteps
  <2> QED
    BY <1>7, <2>2
<1>3. Penned(c, p2, Entries(s2), fr, na)
  BY <1>1, <1>2, PennedStep
<1>4. p \in 1..Len(bs)
  BY <1>6, InsideIs
<1>5. Sited(c, na, gen)
  BY <1>1, <1>2, <1>4, <1>6, SitedStep
<1>8. Head(s).do # "end function"
  BY <1>7 DEF Worked
<1>9. Inside(Entries(Tail(s)))
  BY ONLY <1>6, <1>8, PopFits
<1>10. Inside(Entries(s2))
  BY <1>7, <1>9 DEF Inside
<1> QED
  BY <1>1, <1>3, <1>5, <1>7, <1>10 DEF Lively

(* Inside a function.                                                      *)
LEMMA Within0 ==
  ASSUME IInv, WiredInv, LiveInv, Runs, errors = 0, todo # <<>>, ~AtTop(Instr)
  PROVE  state = Len(frames) /\ Situated(blocks, ip, todo, frames, generated, n_allocas)
<1>1. state = Len(frames) /\ InFunction(blocks, ip, todo, frames, generated)
  BY Inward
<1>2. Inside(Entries(todo))
  BY <1>1 DEF InFunction
<1>3. Lively(blocks, ip, todo, frames, n_allocas, generated)
  BY <1>2 DEF LiveInv, Lively
<1>4. n_allocas \in Nat /\ Len(frames) \in Nat
  BY Facts
<1> QED
  BY <1>1, <1>3, <1>4 DEF Situated

LEMMA LivesInside ==
  ASSUME Lively(blocks', ip', todo', frames', n_allocas', generated'), Inside(Entries(todo'))
  PROVE  LiveInv'
BY DEF LiveInv, Lively

(* The steps of a function that are no end of a block or function.         *)
Quietly == UNCHANGED <<frames, n_allocas, generated, errors>>
(* The state of the generator.                                             *)
Here == Situated(blocks, ip, todo, frames, generated, n_allocas)

LEMMA Works ==
  ASSUME IInv, WiredInv, LiveInv, Runs, todo # <<>>, ~AtTop(Instr), Quietly,
         NEW A, NEW u, NEW N,
         errors = 0 /\ state = Len(frames) /\ Here =>
           Continued(blocks, blocks', ip, A, u, ip', todo, N, todo', frames, n_allocas)
  PROVE  LiveInv'
<1> SUFFICES ASSUME errors' = 0
             PROVE  LiveInv'
  BY DEF LiveInv
<1>1. /\ errors = 0 /\ frames' = frames /\ n_allocas' = n_allocas /\ generated' = generated
  BY DEF Quietly
<1>2. state = Len(frames) /\ Here
  BY <1>1, Within0 DEF Here
<1>3. Continued(blocks, blocks', ip, A, u, ip', todo, N, todo', frames, n_allocas)
  BY <1>1, <1>2
<1>4. Situated(blocks, ip, todo, frames, generated, n_allocas)
  BY <1>2 DEF Here
<1>5. Lively(blocks', ip', todo', frames, n_allocas, generated) /\ Inside(Entries(todo'))
  BY ONLY <1>3, <1>4, WorksOn
<1> QED
  BY <1>1, <1>5, LivesInside

(* No variable is accessed.                                                *)
LEMMA AccessNone ==
  ASSUME NEW bs, NEW P, NEW fr, NEW na \in Nat, \A y \in P : Awaits(bs, y, fr, na)
  PROVE  Accessible(bs, P, fr, na, 0)
<1>1. ASSUME NEW y \in P, y.do = "declare"
      PROVE  y.var # 0
  <2>1. y.var \in Vars(y)
    BY <1>1 DEF Vars
  <2>2. y.var \in 1..na
    BY <2>1 DEF Awaits
  <2> QED
    BY <2>2
<1>2. 0 \in 0..na
  OBVIOUS
<1> QED
  BY <1>1, <1>2 DEF Accessible

LEMMA BareAwaits ==
  ASSUME NEW bs, NEW x, Bare(x), NEW fr, NEW na
  PROVE  Awaits(bs, x, fr, na) /\ x.do # "leave block" /\ Refs(x) = {} /\ Vars(x) = {}
BY DEF Bare, Awaits

LEMMA NoTargets ==
  ASSUME NEW t \in ToSet(<<>>)
  PROVE  FALSE
BY DEF ToSet

(* An instruction that does nothing to the basic blocks, or adds one that  *)
(* is no mark and no branch; then it goes on with bare instructions.       *)
LEMMA WorkedBare ==
  ASSUME NEW bs, NEW p, NEW s, NEW fr, NEW gen, NEW na, Situated(bs, p, s, fr, gen, na),
         Head(s).do # "leave block", Head(s).do # "end function",
         NEW c, c = bs \/ \E j : /\ AddsOne(bs, c, p, j) /\ j.op \notin {"start", "end", "alloca", "poison", "load", "store"}
                                 /\ IsTerminator(j) => j.to = <<>>,
         NEW b, IsSeq(b), \A k \in 1..Len(b) : Bare(b[k])
  PROVE  Continued(bs, c, p, {}, 0, p, s, Entries(b), b \o Tail(s), fr, na)
<1>1. Nested(s) /\ Penned(bs, p, Entries(s), fr, na)
  BY DEF Situated, Lively
<1>14. InFunction(bs, p, s, fr, gen) /\ s # <<>> /\ na \in Nat
  BY DEF Situated
<1>2. /\ Nested(Tail(s)) /\ IsSeq(Tail(s)) /\ Entries(s) = {Head(s)} \union Entries(Tail(s))
  BY <1>1, <1>14, NestedPop
<1>3. Nested(b \o Tail(s)) /\ Entries(b \o Tail(s)) = Entries(b) \union Entries(Tail(s))
  BY <1>2, NestedJoin
<1>4. Shape(bs) /\ p \in 1..Len(bs) /\ Len(bs) \in Nat
  BY <1>14, InsideIs
<1>5. Effect(bs, c, p, {}, {p}, 0) /\ Len(c) = Len(bs) /\ c[p].fn = bs[p].fn
  <2>1. CASE c = bs
    BY <1>4, <2>1, EffectSame
  <2>2. CASE c # bs
    <3>1. PICK j : /\ AddsOne(bs, c, p, j) /\ j.op \notin {"start", "end", "alloca", "poison", "load", "store"}
                   /\ IsTerminator(j) => j.to = <<>>
      BY <2>2
    <3>2. IsTerminator(j) => \A t \in ToSet(j.to) : t \in {}
      BY <3>1, NoTargets
    <3>3. Effect(bs, c, p, {}, {p}, 0)
      BY <1>4, <3>1, <3>2, EffectOne
    <3> QED
      BY <1>4, <3>1, <3>3 DEF AddsOne, Adds
  <2> QED
    BY <2>1, <2>2
<1>6. Beyond(bs, c, bs[p].fn)
  <2>1. \A k \in (Len(bs) + 1)..Len(c) : FALSE
    BY ONLY <1>4, <1>5
  <2> QED
    BY <2>1 DEF Beyond
<1>7. \A y \in Entries(b) : Bare(y)
  BY DEF Entries
<1>8. \A y \in Entries(Tail(s)) : Awaits(bs, y, fr, na)
  BY <1>1, <1>2 DEF Penned
<1>9. Accessible(bs, Entries(b) \union Entries(Tail(s)), fr, na, 0)
  BY <1>7, <1>8, <1>14, AccessNone, BareAwaits
<1>10. Effect(bs, c, p, {}, {p, p}, 0)
  BY <1>5
<1>11. p \in 1..Len(c) /\ c[p].fn = bs[p].fn
  BY <1>4, <1>5
<1>12. \A y \in Entries(b) : /\ y.do # "leave block" /\ Awaits(bs, y, fr, na)
                             /\ \A r \in Refs(y) : r > Len(bs)
  BY <1>7, BareAwaits
<1>13. Worked(bs, c, p, {}, 0, p, Head(s), Entries(Tail(s)), Entries(b), fr, na)
  BY <1>6, <1>9, <1>10, <1>11, <1>12 DEF Worked
<1> QED
  BY <1>3, <1>13 DEF Continued

(* The entries that are not bare.                                          *)
Busy == {"leave block", "if false", "post if", "post while", "loop body", "end function", "declare"}

LEMMA BareIs ==
  ASSUME NEW x, x.do \notin Busy
  PROVE  Bare(x)
<1>1. /\ x.do # "leave block" /\ x.do # "if false" /\ x.do # "post if" /\ x.do # "post while"
      /\ x.do # "loop body" /\ x.do # "end function" /\ x.do # "declare"
  BY DEF Busy
<1>2. Owed(x) = {} /\ Aims(x) = {}
  BY <1>1 DEF Owed, Aims
<1>3. Vars(x) = {}
  BY <1>1 DEF Vars
<1> QED
  BY <1>1, <1>2, <1>3 DEF Bare, Refs

LEMMA TopBare ==
  ASSUME NEW x, AtTop(x)
  PROVE  Bare(x)
<1>1. x.do \in {"prototypes", "define each", "global", "verify", "gen", "catch"}
  BY DEF AtTop
<1>2. x.do \notin Busy
  BY <1>1 DEF Busy
<1> QED
  BY <1>2, BareIs

(* A sequence of bare entries.                                             *)
Bares(b) == IsSeq(b) /\ \A k \in 1..Len(b) : Bare(b[k])

LEMMA BareNone == Bares(<<>>)
<1>1. IsSeq(<<>>) /\ Len(<<>>) = 0
  BY DEF IsSeq
<1> QED
  BY <1>1 DEF Bares

LEMMA BareOne ==
  ASSUME NEW x, Bare(x)
  PROVE  Bares(<<x>>)
<1>1. IsSeq(<<x>>) /\ Len(<<x>>) = 1 /\ <<x>>[1] = x
  BY OneIs
<1>2. \A k \in 1..Len(<<x>>) : k = 1
  BY ONLY <1>1
<1> QED
  BY <1>1, <1>2 DEF Bares

LEMMA BareJoin ==
  ASSUME NEW a, NEW b, Bares(a), Bares(b)
  PROVE  Bares(a \o b)
<1>1. /\ IsSeq(a \o b) /\ Len(a \o b) = Len(a) + Len(b) /\ Len(a) \in Nat /\ Len(b) \in Nat
      /\ \A k \in 1..Len(a) : (a \o b)[k] = a[k]
      /\ \A k \in 1..Len(b) : (a \o b)[Len(a) + k] = b[k]
  BY JoinIs DEF Bares
<1> SUFFICES ASSUME NEW k \in 1..Len(a \o b)
             PROVE  Bare((a \o b)[k])
  BY <1>1 DEF Bares
<1>2. k \in 1..Len(a) \/ (k - Len(a) \in 1..Len(b) /\ Len(a) + (k - Len(a)) = k)
  BY <1>1
<1>3. CASE k \in 1..Len(a)
  BY <1>1, <1>3 DEF Bares
<1>4. CASE k - Len(a) \in 1..Len(b) /\ Len(a) + (k - Len(a)) = k
  <2>1. (a \o b)[k] = b[k - Len(a)]
    BY <1>1, <1>4
  <2> QED
    BY <1>4, <2>1 DEF Bares
<1> QED
  BY <1>2, <1>3, <1>4

LEMMA BareTwo ==
  ASSUME NEW x, NEW y, Bare(x), Bare(y)
  PROVE  Bares(<<x, y>>)
<1>1. IsSeq(<<x, y>>) /\ Len(<<x, y>>) = 2 /\ <<x, y>>[1] = x /\ <<x, y>>[2] = y
  <2>1. IsSeq(<<x, y>>)
    BY Tuple2, BareNone DEF Bares
  <2> QED
    BY <2>1
<1>2. \A k \in 1..Len(<<x, y>>) : k = 1 \/ k = 2
  BY ONLY <1>1
<1> QED
  BY <1>1, <1>2 DEF Bares

LEMMA BareThree ==
  ASSUME NEW x, NEW y, NEW z, Bare(x), Bare(y), Bare(z)
  PROVE  Bares(<<x, y, z>>)
<1>1. IsSeq(<<x, y, z>>) /\ Len(<<x, y, z>>) = 3
      /\ <<x, y, z>>[1] = x /\ <<x, y, z>>[2] = y /\ <<x, y, z>>[3] = z
  <2>1. IsSeq(<<x, y, z>>)
    BY Tuple3, BareNone DEF Bares
  <2> QED
    BY <2>1
<1>2. \A k \in 1..Len(<<x, y, z>>) : k = 1 \/ k = 2 \/ k = 3
  BY ONLY <1>1
<1> QED
  BY <1>1, <1>2 DEF Bares

LEMMA CrashLives ==
  ASSUME NEW why, why # "running", Crash(why)
  PROVE  LiveInv'
BY DEF Crash, LiveInv, Runs

LEMMA ThrowLives ==
  ASSUME IInv, Throw
  PROVE  LiveInv'
<1>1. errors \in 0..MaxErrors /\ MaxErrors \in Nat \ {0}
  <2>3. Counted
    BY DEF IInv
  <2>1. errors \in 0..MaxErrors
    BY ONLY <2>3 DEF Counted
  <2>2. MaxErrors \in Nat \ {0}
    BY ONLY MaxErrorsAssumption
  <2> QED
    BY ONLY <2>1, <2>2
<1>2. CASE errors' = OneMore(errors)
  <2>1. errors' # 0
    BY <1>1, <1>2 DEF OneMore
  <2> QED
    BY <2>1 DEF LiveInv
<1>3. CASE Crash("uncaught")
  BY <1>3, CrashLives
<1> QED
  BY <1>2, <1>3 DEF Throw

(* Between functions.                                                      *)
LEMMA AtTopLives ==
  ASSUME IInv, WiredInv, LiveInv, Runs, errors = 0, todo # <<>>, AtTop(Instr)
  PROVE  /\ Nested(todo) /\ Outermost(frames) /\ Sited(blocks, n_allocas, generated)
         /\ Stilled(blocks, n_allocas) /\ ~Inside(Entries(Tail(todo)))
         /\ Nested(Tail(todo)) /\ IsSeq(Tail(todo))
         /\ \A r \in Entries(Tail(todo)) : AtTop(r)
<1>1. Nested(todo)
  BY DEF LiveInv
<1>2. /\ Nested(Tail(todo)) /\ IsSeq(Tail(todo)) /\ Entries(todo) = {Instr} \union Entries(Tail(todo))
  BY <1>1, NestedPop DEF Instr
<1>3. \A r \in Entries(Tail(todo)) : AtTop(r)
  BY Outward
<1>4. \A r \in Entries(todo) : AtTop(r)
  BY <1>2, <1>3
<1>5. ~Inside(Entries(todo)) /\ ~Inside(Entries(Tail(todo)))
  BY <1>3, <1>4, AllTop
<1> QED
  BY <1>1, <1>2, <1>3, <1>5 DEF LiveInv

LEMMA TopLives ==
  ASSUME IInv, WiredInv, LiveInv, Runs, todo # <<>>, AtTop(Instr),
         UNCHANGED <<blocks, n_allocas, generated, errors>>,
         Outermost(frames) => Outermost(frames'), NEW b, Go(b), Bares(b)
  PROVE  LiveInv'
<1> SUFFICES ASSUME errors' = 0
             PROVE  LiveInv'
  BY DEF LiveInv
<1>1. /\ Outermost(frames) /\ Sited(blocks, n_allocas, generated)
      /\ Stilled(blocks, n_allocas) /\ ~Inside(Entries(Tail(todo)))
      /\ Nested(Tail(todo)) /\ IsSeq(Tail(todo))
  BY AtTopLives
<1>2. todo' = b \o Tail(todo)
  BY DEF Go
<1>3. Nested(todo') /\ Entries(todo') = Entries(b) \union Entries(Tail(todo))
  BY <1>1, <1>2, NestedJoin DEF Bares
<1>4. \A y \in Entries(b) : y.do # "end function"
  BY DEF Entries, Bares, Bare
<1>5. ~Inside(Entries(todo'))
  BY <1>1, <1>3, <1>4 DEF Inside
<1> QED
  BY <1>1, <1>3, <1>5 DEF LiveInv

LEMMA Silent ==
  ASSUME IInv, WiredInv, LiveInv, Runs, todo # <<>>,
         Instr.do # "leave block", Instr.do # "end function",
         SameScope, UNCHANGED <<blocks, ip, n_allocas, generated, errors>>,
         NEW b, Go(b), Bares(b)
  PROVE  LiveInv'
<1>1. CASE AtTop(Instr)
  BY <1>1, TopLives DEF SameScope
<1>2. CASE ~AtTop(Instr)
  <2>1. ASSUME Here
        PROVE  Continued(blocks, blocks', ip, {}, 0, ip', todo, Entries(b), todo', frames, n_allocas)
    <3>1. Situated(blocks, ip, todo, frames, generated, n_allocas)
      BY <2>1 DEF Here
    <3>2. Head(todo).do # "leave block" /\ Head(todo).do # "end function"
      BY DEF Instr
    <3>3. blocks' = blocks /\ ip' = ip /\ todo' = b \o Tail(todo)
      BY DEF Go
    <3>4. IsSeq(b) /\ \A k \in 1..Len(b) : Bare(b[k])
      BY DEF Bares
    <3>5. Continued(blocks, blocks, ip, {}, 0, ip, todo, Entries(b), b \o Tail(todo), frames, n_allocas)
      BY ONLY <3>1, <3>2, <3>4, WorkedBare
    <3> QED
      BY <3>3, <3>5
  <2>2. Quietly
    BY DEF SameScope, Quietly
  <2> QED
    BY <1>2, <2>1, <2>2, Works
<1> QED
  BY <1>1, <1>2

(* Steps that only move on in the control stack.                           *)
StaysPut == SameScope /\ UNCHANGED <<blocks, ip, n_allocas, generated, errors>>

LEMMA StaysRest ==
  ASSUME SameScope, SameRest, UNCHANGED <<blocks, ip, n_allocas>>
  PROVE  StaysPut
BY DEF StaysPut, SameRest, SameNames

LEMMA SilentDo ==
  ASSUME IInv, WiredInv, LiveInv, NEW what, Doing(what), what \notin {"leave block", "end function"},
         StaysPut, NEW b, Go(b), Bares(b)
  PROVE  LiveInv'
<1>1. Runs /\ Instr.do = what /\ todo # <<>>
  BY DoingIs
<1>2. SameScope /\ UNCHANGED <<blocks, ip, n_allocas, generated, errors>>
  BY DEF StaysPut
<1> QED
  BY <1>1, <1>2, Silent

LEMMA SilentGen ==
  ASSUME IInv, WiredInv, LiveInv, NEW node, Generating(node), StaysPut, NEW b, Go(b), Bares(b)
  PROVE  LiveInv'
<1>1. Doing("gen")
  BY DEF Generating
<1> QED
  BY <1>1, SilentDo

LEMMA EndOfTryLives ==
  ASSUME IInv, WiredInv, LiveInv, EndOfTry
  PROVE  LiveInv'
<1>1. Doing("catch") /\ Go(<<>>) /\ StaysPut
  BY StaysRest DEF EndOfTry
<1> QED
  BY <1>1, BareNone, SilentDo

LEMMA GenConstantLives ==
  ASSUME IInv, WiredInv, LiveInv, GenConstant
  PROVE  LiveInv'
<1>1. Generating("Constant") /\ Go(<<>>) /\ StaysPut
  BY StaysRest DEF GenConstant
<1> QED
  BY <1>1, BareNone, SilentGen

LEMMA NoValueLives ==
  ASSUME IInv, WiredInv, LiveInv, NoValue
  PROVE  LiveInv'
<1>1. Doing("no value") /\ Go(<<>>) /\ StaysPut
  BY StaysRest DEF NoValue
<1> QED
  BY <1>1, BareNone, SilentDo

LEMMA DropLives ==
  ASSUME IInv, WiredInv, LiveInv, Drop
  PROVE  LiveInv'
<1>1. Doing("drop") /\ Go(<<>>) /\ StaysPut
  BY StaysRest DEF Drop
<1> QED
  BY <1>1, BareNone, SilentDo

LEMMA TwoLives ==
  ASSUME IInv, WiredInv, LiveInv, NEW node, Generating(node), StaysPut,
         NEW x, NEW y, x.do \notin Busy, y.do \notin Busy, Go(<<x, y>>)
  PROVE  LiveInv'
<1>1. Bares(<<x, y>>)
  BY BareIs, BareTwo
<1> QED
  BY <1>1, SilentGen

LEMMA GenOperatorLives ==
  ASSUME IInv, WiredInv, LiveInv, GenOperator
  PROVE  LiveInv'
<1> DEFINE a == Each(T.kids)
           o == [do |-> "operator", n |-> Len(T.kids)]
<1>1. Generating("Operator") /\ Go(<<a, o>>) /\ StaysPut
  BY StaysRest DEF GenOperator
<1>2. a.do = "each" /\ o.do = "operator"
  BY DEF Each
<1> HIDE DEF a, o
<1> QED
  BY <1>1, <1>2, TwoLives DEF Busy

LEMMA NextOperandLives ==
  ASSUME IInv, WiredInv, LiveInv, NextOperand
  PROVE  LiveInv'
<1> DEFINE left == Instr.trees
           a == Gen(Head(left))
           o == Each(Tail(left))
<1>1. /\ Doing("each") /\ StaysPut
      /\ Go(IF left = <<>> THEN <<>> ELSE <<a, o>>)
  BY StaysRest DEF NextOperand
<1>2. a.do = "gen" /\ o.do = "each"
  BY DEF Gen, Each
<1> HIDE DEF a, o
<1>3. Bares(<<a, o>>)
  BY <1>2, BareIs, BareTwo DEF Busy
<1>4. Bares(IF left = <<>> THEN <<>> ELSE <<a, o>>)
  BY <1>3, BareNone
<1> QED
  BY <1>1, <1>4, SilentDo

LEMMA GenFunctionCallLives ==
  ASSUME IInv, WiredInv, LiveInv, GenFunctionCall
  PROVE  LiveInv'
<1> DEFINE n == Len(T.kids)
           a == Each(T.kids)
           o == [do |-> "call", n |-> n, name |-> T.name]
<1>1. Generating("Call")
  BY DEF GenFunctionCall
<1>2. CASE Throw
  BY <1>2, ThrowLives
<1>3. CASE ~Throw
  <2>1. Go(<<a, o>>) /\ StaysPut
    BY <1>3 DEF GenFunctionCall, StaysPut
  <2>2. a.do = "each" /\ o.do = "call"
    BY DEF Each
  <2> HIDE DEF a, o
  <2> QED
    BY <1>1, <2>1, <2>2, TwoLives DEF Busy
<1> QED
  BY <1>2, <1>3

LEMMA GenIfLives ==
  ASSUME IInv, WiredInv, LiveInv, GenIf
  PROVE  LiveInv'
<1> DEFINE a == Gen(Kid(1))
           o == [do |-> "if true", tree |-> T]
<1>1. Generating("If") /\ Go(<<a, o>>) /\ StaysPut
  BY StaysRest DEF GenIf
<1>2. a.do = "gen" /\ o.do = "if true"
  BY DEF Gen
<1> HIDE DEF a, o
<1> QED
  BY <1>1, <1>2, TwoLives DEF Busy

LEMMA GenExprStmtLives ==
  ASSUME IInv, WiredInv, LiveInv, GenExprStmt
  PROVE  LiveInv'
<1> DEFINE a == Gen(Kid(1))
           o == Then("drop")
<1>1. Generating("ExprStmt") /\ Go(<<a, o>>) /\ StaysPut
  BY StaysRest DEF GenExprStmt
<1>2. a.do = "gen" /\ o.do = "drop"
  BY DEF Gen, Then
<1> HIDE DEF a, o
<1> QED
  BY <1>1, <1>2, TwoLives DEF Busy

LEMMA GenReturnLives ==
  ASSUME IInv, WiredInv, LiveInv, GenReturn
  PROVE  LiveInv'
<1> DEFINE a == Gen(Kid(1))
           o == Then("ret")
<1>1. Generating("Return") /\ Go(<<a, o>>) /\ StaysPut
  BY StaysRest DEF GenReturn
<1>2. a.do = "gen" /\ o.do = "ret"
  BY DEF Gen, Then
<1> HIDE DEF a, o
<1> QED
  BY <1>1, <1>2, TwoLives DEF Busy

LEMMA GenAssignmentLives ==
  ASSUME IInv, WiredInv, LiveInv, GenAssignment
  PROVE  LiveInv'
<1> DEFINE a == Gen(Kid(2))
           o == [do |-> "assign", key |-> Kid(1)]
<1>1. Generating("Assign") /\ Go(<<a, o>>) /\ StaysPut
  BY StaysRest DEF GenAssignment
<1>2. a.do = "gen" /\ o.do = "assign"
  BY DEF Gen
<1> HIDE DEF a, o
<1> QED
  BY <1>1, <1>2, TwoLives DEF Busy

LEMMA NextStatementLives ==
  ASSUME IInv, WiredInv, LiveInv, NextStatement
  PROVE  LiveInv'
<1> DEFINE left == Instr.trees
           a == Gen(Head(left))
           y == Catch("statement", Len(frames))
           z == TryEach(Tail(left))
<1>1. /\ Doing("try each") /\ StaysPut
      /\ Go(IF left = <<>> THEN <<>> ELSE <<a, y, z>>)
  BY StaysRest DEF NextStatement
<1>2. a.do = "gen" /\ y.do = "catch" /\ z.do = "try each"
  BY DEF Gen, Catch, TryEach
<1> HIDE DEF a, y, z
<1>3. Bares(<<a, y, z>>)
  BY <1>2, BareIs, BareThree DEF Busy
<1>4. Bares(IF left = <<>> THEN <<>> ELSE <<a, y, z>>)
  BY <1>3, BareNone
<1> QED
  BY <1>1, <1>4, SilentDo

(* The steps that add an instruction which is no mark and no branch.       *)
LEMMA CallLives ==
  ASSUME IInv, WiredInv, LiveInv, Runs, todo # <<>>, ~AtTop(Instr),
         Instr.do # "leave block", Instr.do # "end function",
         SameScope, UNCHANGED <<ip, n_allocas, generated, errors>>, Go(<<>>),
         NEW j, blocks' = With(blocks, ip, j),
         j.op \notin {"start", "end", "alloca", "poison", "load", "store"},
         IsTerminator(j) => j.to = <<>>
  PROVE  LiveInv'
<1>1. ASSUME Here
      PROVE  Continued(blocks, blocks', ip, {}, 0, ip', todo, Entries(<<>>), todo', frames, n_allocas)
  <2>1. Situated(blocks, ip, todo, frames, generated, n_allocas)
    BY <1>1 DEF Here
  <2>2. Head(todo).do # "leave block" /\ Head(todo).do # "end function"
    BY DEF Instr
  <2>3. ip' = ip /\ todo' = <<>> \o Tail(todo)
    BY DEF Go
  <2>4. IsSeq(<<>>) /\ \A k \in 1..Len(<<>>) : Bare(<<>>[k])
    BY BareNone DEF Bares
  <2>5. AddsOne(blocks, blocks', ip, j)
    BY <2>1, InsideIs, WithAdds DEF AddsOne, Situated
  <2>6. \E i : /\ AddsOne(blocks, blocks', ip, i) /\ i.op \notin {"start", "end", "alloca", "poison", "load", "store"}
               /\ IsTerminator(i) => i.to = <<>>
    BY <2>5
  <2>7. Continued(blocks, blocks', ip, {}, 0, ip, todo, Entries(<<>>), <<>> \o Tail(todo), frames, n_allocas)
    BY ONLY <2>1, <2>2, <2>4, <2>6, WorkedBare
  <2> QED
    BY <2>3, <2>7
<1>2. Quietly
  BY DEF SameScope, Quietly
<1> QED
  BY <1>1, <1>2, Works

(* An instruction that is no terminator and no mark.                       *)
LEMMA PlainLives ==
  ASSUME IInv, WiredInv, LiveInv, NEW what \in PlainDos, Doing(what),
         what # "leave block", what # "end function",
         NEW x, ~IsTerminator(x), x.op \notin {"start", "end", "alloca", "poison", "load", "store"},
         blocks' = With(blocks, ip, x), Go(<<>>),
         SameScope, SameRest, UNCHANGED <<ip, n_allocas>>
  PROVE  LiveInv'
<1>1. Runs /\ todo # <<>> /\ ~AtTop(Instr) /\ Instr.do # "leave block" /\ Instr.do # "end function"
  BY DoingPlain DEF Plain
<1>2. UNCHANGED <<ip, n_allocas, generated, errors>>
  BY DEF SameRest, SameNames
<1> QED
  BY <1>1, <1>2, CallLives

LEMMA CreateOperatorLives ==
  ASSUME IInv, WiredInv, LiveInv, CreateOperator
  PROVE  LiveInv'
<1>1. Doing("operator") /\ "operator" \in PlainDos
  BY DEF CreateOperator, PlainDos
<1> DEFINE x == Operation(Operands(Instr.n))
<1>2. /\ ~IsTerminator(x)
      /\ x.op \notin {"start", "end", "alloca", "poison", "load", "store"}
  BY DEF Operation, IsTerminator, Terminators
<1>3. CASE Crash("non-null assertion")
  BY <1>3, CrashLives
<1>4. CASE Go(<<>>) /\ SameScope /\ SameRest /\ UNCHANGED <<blocks, ip, n_allocas>>
  <2>1. StaysPut
    BY <1>4, StaysRest
  <2> QED
    BY <1>1, <1>4, <2>1, BareNone, SilentDo
<1>5. CASE /\ blocks' = With(blocks, ip, x) /\ Go(<<>>) /\ SameScope /\ SameRest
           /\ UNCHANGED <<ip, n_allocas>>
  <2> HIDE DEF x
  <2> QED
    BY <1>1, <1>2, <1>5, PlainLives
<1> QED
  BY <1>3, <1>4, <1>5 DEF CreateOperator

LEMMA CreateCallLives ==
  ASSUME IInv, WiredInv, LiveInv, CreateCall
  PROVE  LiveInv'
<1>1. Doing("call") /\ "call" \in PlainDos
  BY DEF CreateCall, PlainDos
<1> DEFINE args == Operands(Instr.n)
           y == CallTo(Instr.name, args)
           x == IF Null \in args THEN NullOperand ELSE y
<1>2. /\ ~IsTerminator(x)
      /\ x.op \notin {"start", "end", "alloca", "poison", "load", "store"}
  BY DEF NullOperand, CallTo, IsTerminator, Terminators
<1>3. CASE Crash("null operand")
  BY <1>3, CrashLives
<1>4. CASE /\ blocks' = With(blocks, ip, x) /\ Go(<<>>) /\ SameScope /\ SameRest
           /\ UNCHANGED <<ip, n_allocas>>
  <2> HIDE DEF x
  <2> QED
    BY <1>1, <1>2, <1>4, PlainLives
<1> QED
  BY <1>3, <1>4 DEF CreateCall

LEMMA CreateRetLives ==
  ASSUME IInv, WiredInv, LiveInv, CreateRet
  PROVE  LiveInv'
<1> DEFINE x == Ret(Top)
<1>1. /\ Doing("ret") /\ "ret" \in PlainDos /\ blocks' = With(blocks, ip, x) /\ Go(<<>>)
      /\ SameScope /\ UNCHANGED <<ip, n_allocas, generated, errors>>
  BY DEF CreateRet, PlainDos, SameRest, SameNames
<1>2. Runs /\ todo # <<>> /\ ~AtTop(Instr) /\ Instr.do # "leave block" /\ Instr.do # "end function"
  BY <1>1, DoingPlain DEF Plain
<1>3. (x.op = "ret" \/ x.op = "ret void") /\ x.to = <<>>
  BY DEF Ret
<1> HIDE DEF x
<1> QED
  BY <1>1, <1>2, <1>3, CallLives

LEMMA PrototypesLives ==
  ASSUME IInv, WiredInv, LiveInv, Prototypes
  PROVE  LiveInv'
<1> DEFINE x == DefineEach(program)
           y == Then("verify")
           fr == frames'
<1>1. /\ Doing("prototypes") /\ Go(<<x, y>>)
      /\ fr = Append(frames, frames[1])
      /\ UNCHANGED <<blocks, n_allocas, generated, errors>>
  BY DEF Prototypes
<1>2. Runs /\ todo # <<>> /\ Instr.do = "prototypes"
  BY <1>1, DoingIs
<1>3. AtTop(Instr)
  BY <1>2 DEF AtTop
<1>4. x.do = "define each" /\ y.do = "verify"
  BY DEF DefineEach, Then
<1> HIDE DEF x, y
<1>5. Bares(<<x, y>>)
  BY <1>4, BareIs, BareTwo DEF Busy
<1>6. IsSeq(frames) /\ Len(frames) \in Nat \ {0}
  <2> DEFINE S == Scope(n_allocas)
  <2>1. frames \in Seq(S) /\ Len(frames) \in Nat \ {0}
    BY Facts DEF Scoped
  <2> HIDE DEF S
  <2> QED
    BY <2>1, SeqIs
<1>7. ASSUME Outermost(frames)
      PROVE  Outermost(fr)
  <2>1. /\ Len(fr) = Len(frames) + 1 /\ fr[Len(frames) + 1] = frames[1]
        /\ \A k \in 1..Len(frames) : fr[k] = frames[k]
    BY ONLY <1>1, <1>6, AppendIs
  <2>2. /\ 1 \in 1..Len(frames) /\ 1 <= 2
        /\ \A j \in 1..(Len(frames) + 1) : j \in 1..Len(frames) \/ j = Len(frames) + 1
    BY ONLY <1>6
  <2>3. Owns(frames[1]) = {}
    BY <1>7, <2>2 DEF Outermost
  <2> HIDE DEF fr
  <2>4. \A j \in 1..Len(fr) : j <= 2 => Owns(fr[j]) = {}
    BY <1>7, <2>1, <2>2, <2>3 DEF Outermost
  <2> QED
    BY <2>4 DEF Outermost
<1> QED
  BY <1>1, <1>2, <1>3, <1>5, <1>7, TopLives

LEMMA GlobalCodegenLives ==
  ASSUME IInv, WiredInv, LiveInv, GlobalCodegen
  PROVE  LiveInv'
<1>1. Doing("global")
  BY DEF GlobalCodegen
<1>2. CASE Crash("uncaught")
  BY <1>2, CrashLives
<1>3. CASE ~Crash("uncaught")
  <2>1. Go(<<>>) /\ StaysPut
    BY <1>3 DEF GlobalCodegen, StaysPut
  <2> QED
    BY <1>1, <2>1, BareNone, SilentDo
<1> QED
  BY <1>2, <1>3

LEMMA NextDefinitionLives ==
  ASSUME IInv, WiredInv, LiveInv, NextDefinition
  PROVE  LiveInv'
<1> DEFINE left == Instr.trees
           first == Head(left)
           y == Gen(first)
           c == Catch("function", Len(frames))
           g == [do |-> "global", tree |-> first]
           x == DefineEach(Tail(left))
           b == IF left = <<>> THEN <<>>
                ELSE (IF first.node = "Fn" THEN <<y, c>> ELSE <<g>>) \o <<x>>
<1>1. Doing("define each") /\ Go(b) /\ StaysPut
  BY StaysRest DEF NextDefinition
<1>2. y.do = "gen" /\ c.do = "catch" /\ g.do = "global" /\ x.do = "define each"
  BY DEF Gen, Catch, DefineEach
<1> HIDE DEF y, c, g, x
<1>3. Bare(y) /\ Bare(c) /\ Bare(g) /\ Bare(x)
  BY <1>2, BareIs DEF Busy
<1>4. Bares(<<y, c>>) /\ Bares(<<g>>) /\ Bares(<<x>>) /\ Bares(<<>>)
  BY <1>3, BareNone, BareOne, BareTwo
<1>5. Bares(<<y, c>> \o <<x>>) /\ Bares(<<g>> \o <<x>>)
  BY ONLY <1>4, BareJoin
<1>6. Bares(b)
  BY <1>4, <1>5
<1> HIDE DEF b
<1> QED
  BY <1>1, <1>6, SilentDo

LEMMA VerifyModuleLives ==
  ASSUME VerifyModule
  PROVE  LiveInv'
<1>1. outcome' # "running"
  BY DEF VerifyModule
<1> QED
  BY <1>1 DEF LiveInv, Runs

LEMMA StutterLives ==
  ASSUME LiveInv, UNCHANGED vars
  PROVE  LiveInv'
<1>1. UNCHANGED <<todo, frames, outcome, generated, blocks, ip, n_allocas, errors>>
  BY DEF vars, control, module
<1> QED
  BY <1>1 DEF LiveInv, Runs

LEMMA InitLives ==
  ASSUME Init
  PROVE  LiveInv
<1> DEFINE x == Then("prototypes")
           f == Frame([y \in Name |-> Undefined], Undefined)
           none == <<>>
<1>1. todo = <<x>> /\ frames = <<f>> /\ generated = {} /\ blocks = none /\ n_allocas = 0
  BY DEF Init
<1>2. x.do = "prototypes"
  BY DEF Then
<1>3. Owns(f) = {}
  <2>1. f.own = <<>>
    BY DEF Frame
  <2>2. Len(f.own) = 0
    BY <2>1
  <2> HIDE DEF f
  <2> QED
    BY <2>2 DEF Owns
<1>4. Len(none) = 0
  OBVIOUS
<1> HIDE DEF x, f, none
<1>5. Bare(x)
  BY <1>2, BareIs DEF Busy
<1>6. /\ IsSeq(<<x>>) /\ Len(<<x>>) = 1 /\ <<x>>[1] = x
      /\ Len(<<f>>) = 1 /\ <<f>>[1] = f
  BY OneIs
<1>7. (\A k \in 1..Len(<<x>>) : k = 1) /\ (\A k \in 1..Len(<<f>>) : k = 1)
  BY ONLY <1>6
<1>8. Nested(todo)
  <2>1. \A k \in 1..Len(<<x>>) : Nests(<<x>>[k], After(<<x>>, k))
    BY <1>5, <1>6, <1>7, NestsBare
  <2> QED
    BY <1>1, <1>6, <2>1 DEF Nested
<1>9. Outermost(frames)
  BY <1>1, <1>3, <1>6, <1>7 DEF Outermost
<1>10. \A k \in 1..Len(none) : FALSE
  BY ONLY <1>4
<1>11. \A v \in 1..0 : FALSE
  OBVIOUS
<1>12. Sited(none, 0, {})
  BY <1>10, <1>11 DEF Sited, Fresh, Marked
<1>13. Stilled(none, 0)
  BY <1>11 DEF Stilled
<1>14. ~Inside(Entries(todo))
  <2>1. Entries(<<x>>) = {x}
    BY <1>6, <1>7 DEF Entries
  <2> QED
    BY <1>1, <1>2, <2>1 DEF Inside
<1> QED
  BY <1>1, <1>8, <1>9, <1>12, <1>13, <1>14 DEF LiveInv
(* What a name means is a variable of a frame.                             *)
LEMMA MeaningOwned ==
  ASSUME NEW v, NEW fr, Scoped(v, fr), NEW k \in 1..Len(fr), NEW x \in Name,
         fr[k].named[x] # Undefined
  PROVE  \E j \in 1..Len(fr) : fr[k].named[x] \in Owns(fr[j])
<1> DEFINE D(j) == Decls(fr[j].own, x)
           declaring == {j \in 1..k : D(j) # {}}
           a == Max(declaring)
           i == Max(D(a))
<1>1. Len(fr) \in Nat /\ k \in 1..Len(fr) /\ fr \in Seq(Scope(v))
  <2>1. fr \in Seq(Scope(v))
    BY DEF Scoped
  <2> QED
    BY <2>1, SeqIs
<1>2. fr[k].named[x] = IF declaring = {} THEN Undefined ELSE fr[a].own[i].var
  <2>1. fr[k].named[x] = Meaning(fr, k, x)
    BY ScopesLexically
  <2> QED
    BY <2>1 DEF Meaning
<1>3. declaring # {} /\ fr[k].named[x] = fr[a].own[i].var
  BY <1>2
<1>4. a \in declaring
  <2>1. declaring \in SUBSET Int /\ \A y \in declaring : y <= k
    BY <1>1
  <2> HIDE DEF declaring
  <2>2. k \in Int
    BY <1>1
  <2> QED
    BY <1>3, <2>1, <2>2, GreatestOf
<1>5. a \in 1..Len(fr) /\ D(a) # {}
  <2>1. a \in 1..k /\ D(a) # {}
    BY <1>4
  <2> HIDE DEF a
  <2> QED
    BY <1>1, <2>1
<1> HIDE DEF a, declaring
<1>6. i \in 1..Len(fr[a].own)
  <2> DEFINE l == Len(fr[a].own)
             S == D(a)
  <2>1. S \in SUBSET (1..l) /\ S # {}
    BY <1>5 DEF Decls
  <2>2. l \in Nat
    <3>1. fr[a] \in Scope(v)
      BY <1>1, <1>5
    <3>2. fr[a].own \in Own(v)
      BY <3>1 DEF Scope
    <3> QED
      BY <3>2, SeqIs DEF Own
  <2> HIDE DEF S, l
  <2>3. S \in SUBSET Int /\ l \in Int /\ \A y \in S : y <= l
    BY <2>1, <2>2
  <2>4. Max(S) \in S
    BY <2>1, <2>3, GreatestOf
  <2> QED
    BY <2>1, <2>4 DEF S, l
<1> QED
  BY <1>3, <1>5, <1>6 DEF Owns

(* A variable of a frame may be accessed.                                  *)
LEMMA AccessOwned ==
  ASSUME NEW bs, NEW p, NEW P, NEW fr, NEW na, Penned(bs, p, P, fr, na), Outermost(fr),
         Len(fr) \in Nat, na \in Nat, NEW j \in 1..Len(fr), NEW u \in Owns(fr[j]),
         NEW R, \A y \in R : y \in P, \A y \in P : y.do = "leave block" => y \in R
  PROVE  Accessible(bs, R, fr, na, u)
<1>1. Scopes(bs, P, fr, na) /\ \A x \in P : Awaits(bs, x, fr, na)
  BY DEF Penned
<1>2. u \in 1..na /\ AllocatedAt(bs, u, fr[3].declarations_block)
  BY <1>1 DEF Scopes
<1>3. j = 3 \/ j >= 4
  <2>1. ~(j <= 2)
    BY DEF Outermost
  <2>2. j \in 1..Len(fr) /\ Len(fr) \in Nat
    OBVIOUS
  <2> QED
    BY ONLY <2>1, <2>2
<1>4. Marked(bs, "start", u) = {} \/ Owned(R, fr, u)
  <2>1. CASE j = 3
    BY <1>1, <2>1 DEF Scopes
  <2>2. CASE j >= 4
    <3>1. PICK y \in P : y.do = "leave block" /\ y.old = j - 1
      BY <1>1, <2>2 DEF Scopes
    <3>2. y \in R /\ y.old + 1 = j
      <4>1. j \in 1..Len(fr) /\ Len(fr) \in Nat
        OBVIOUS
      <4>2. (j - 1) + 1 = j
        BY ONLY <4>1
      <4>3. y.old + 1 = j
        BY <3>1, <4>2
      <4> QED
        BY <3>1, <4>3
    <3>3. u \in Owns(fr[y.old + 1])
      BY <3>2
    <3> QED
      BY <3>1, <3>2, <3>3 DEF Owned
  <2> QED
    BY <1>3, <2>1, <2>2
<1>5. ASSUME NEW x \in R, x.do = "declare"
      PROVE  x.var # u
  <2>1. x.var \in Vars(x) /\ Awaits(bs, x, fr, na)
    BY <1>1, <1>5 DEF Vars
  <2>2. x.var \notin Owns(fr[j])
    BY <1>5, <2>1 DEF Awaits
  <2> QED
    BY <2>2
<1>6. u \in 0..na
  <2>1. na \in Nat
    OBVIOUS
  <2> QED
    BY ONLY <1>2, <2>1
<1> QED
  BY <1>2, <1>4, <1>5, <1>6 DEF Accessible

(* Steps that are no end of a block or function, and one access of u at p. *)
Goes(x) == x.do # "leave block" /\ x.do # "end function"
OneAccess(bs, c, p, u) ==
  \E i : AddsOne(bs, c, p, i) /\ i.op \in {"load", "store"} /\ i.var = u

LEMMA AccessEffect ==
  ASSUME NEW bs, NEW c, NEW p, NEW u, OneAccess(bs, c, p, u), NEW A, NEW Q, p \in Q
  PROVE  Effect(bs, c, p, A, Q, u) /\ Len(c) = Len(bs)
<1>1. PICK i : AddsOne(bs, c, p, i) /\ i.op \in {"load", "store"} /\ i.var = u
  BY DEF OneAccess
<1>2. ~IsTerminator(i) /\ i.op \notin {"start", "end", "alloca", "poison"}
  BY <1>1 DEF IsTerminator, Terminators
<1>3. Effect(bs, c, p, A, Q, u)
  BY <1>1, <1>2, EffectOne
<1> QED
  BY <1>1, <1>3 DEF AddsOne, Adds

LEMMA BeyondNone ==
  ASSUME NEW bs, NEW c, Len(bs) \in Nat, Len(c) = Len(bs), NEW f
  PROVE  Beyond(bs, c, f)
<1>1. \A k \in (Len(bs) + 1)..Len(c) : FALSE
  OBVIOUS
<1> QED
  BY <1>1 DEF Beyond

(* What is known of the first thing to be done.                            *)
LEMMA SituatedIs ==
  ASSUME NEW bs, NEW p, NEW s, NEW fr, NEW gen, NEW na, Situated(bs, p, s, fr, gen, na)
  PROVE  /\ InFunction(bs, p, s, fr, gen) /\ s # <<>> /\ na \in Nat /\ Len(fr) \in Nat
         /\ Nested(s) /\ Outermost(fr) /\ Sited(bs, na, gen) /\ Penned(bs, p, Entries(s), fr, na)
         /\ Nested(Tail(s)) /\ IsSeq(Tail(s)) /\ Entries(s) = {Head(s)} \union Entries(Tail(s))
         /\ Nests(Head(s), Entries(Tail(s)))
         /\ Shape(bs) /\ p \in 1..Len(bs) /\ Len(bs) \in Nat
<1>1. /\ InFunction(bs, p, s, fr, gen) /\ s # <<>> /\ na \in Nat /\ Len(fr) \in Nat
      /\ Nested(s) /\ Outermost(fr) /\ Sited(bs, na, gen) /\ Penned(bs, p, Entries(s), fr, na)
  BY DEF Situated, Lively
<1>2. /\ Nested(Tail(s)) /\ IsSeq(Tail(s)) /\ Entries(s) = {Head(s)} \union Entries(Tail(s))
      /\ Nests(Head(s), Entries(Tail(s)))
  BY <1>1, NestedPop
<1>3. Shape(bs) /\ p \in 1..Len(bs) /\ Len(bs) \in Nat
  BY <1>1, InsideIs
<1> QED
  BY <1>1, <1>2, <1>3

LEMMA NoneLeft ==
  ASSUME NEW s, IsSeq(s)
  PROVE  <<>> \o s = s /\ Entries(<<>>) = {}
<1>1. <<>> \o s = s
  BY NoneIs
<1>2. \A k \in 1..Len(<<>>) : FALSE
  OBVIOUS
<1> QED
  BY <1>1, <1>2 DEF Entries

LEMMA WorkedAccess ==
  ASSUME NEW bs, NEW p, NEW s, NEW fr, NEW gen, NEW na, Situated(bs, p, s, fr, gen, na),
         Goes(Head(s)), NEW j \in 1..Len(fr), NEW u \in Owns(fr[j]),
         NEW c, OneAccess(bs, c, p, u)
  PROVE  Continued(bs, c, p, {}, u, p, s, {}, <<>> \o Tail(s), fr, na)
<1>1. /\ na \in Nat /\ Len(fr) \in Nat /\ Outermost(fr) /\ Penned(bs, p, Entries(s), fr, na)
      /\ Nested(Tail(s)) /\ IsSeq(Tail(s)) /\ Entries(s) = {Head(s)} \union Entries(Tail(s))
      /\ Shape(bs) /\ p \in 1..Len(bs) /\ Len(bs) \in Nat
  BY ONLY Situated(bs, p, s, fr, gen, na), SituatedIs
<1>2. Effect(bs, c, p, {}, {p, p}, u) /\ Len(c) = Len(bs)
  BY AccessEffect
<1>3. Beyond(bs, c, bs[p].fn)
  BY <1>1, <1>2, BeyondNone
<1>4. <<>> \o Tail(s) = Tail(s)
  BY <1>1, NoneLeft
<1> DEFINE R == Entries(Tail(s))
<1>5. Accessible(bs, R, fr, na, u)
  <2>1. /\ \A y \in R : y \in Entries(s)
        /\ \A y \in Entries(s) : y.do = "leave block" => y \in R
    BY <1>1 DEF Goes
  <2> HIDE DEF R
  <2> QED
    BY <1>1, <2>1, AccessOwned
<1>6. p \in 1..Len(c) /\ c[p].fn = bs[p].fn
  <2>1. \A k \in 1..Len(bs) : c[k].fn = bs[k].fn
    BY <1>2, EffectIs
  <2> QED
    BY <1>1, <1>2, <2>1
<1>7. {} \union R = R
  OBVIOUS
<1>8. Worked(bs, c, p, {}, u, p, Head(s), R, {}, fr, na)
  BY <1>2, <1>3, <1>5, <1>6, <1>7 DEF Worked, Goes
<1> QED
  BY <1>1, <1>4, <1>7, <1>8 DEF Continued

LEMMA NameOwned ==
  ASSUME IInv, state = Len(frames), NEW x \in Name, VariableDefined(x)
  PROVE  \E j \in 1..Len(frames) : Named[x] \in Owns(frames[j])
<1>1. Named = frames[Len(frames)].named /\ Len(frames) # 0
  BY NamedIs
<1>2. Len(frames) \in Nat /\ Scoped(n_allocas, frames)
  BY Facts
<1>3. Len(frames) \in 1..Len(frames)
  BY ONLY <1>1, <1>2
<1>4. frames[Len(frames)].named[x] # Undefined
  BY <1>1 DEF VariableDefined
<1>5. \E j \in 1..Len(frames) : frames[Len(frames)].named[x] \in Owns(frames[j])
  BY <1>2, <1>3, <1>4, MeaningOwned
<1> QED
  BY <1>1, <1>5

LEMMA AccessLives ==
  ASSUME IInv, WiredInv, LiveInv, Runs, todo # <<>>, ~AtTop(Instr), Goes(Instr),
         NEW x \in Name, VariableDefined(x), SameScope, UNCHANGED <<ip, n_allocas, generated, errors>>,
         Go(<<>>), NEW i, i.op \in {"load", "store"}, i.var = Named[x], blocks' = With(blocks, ip, i)
  PROVE  LiveInv'
<1> DEFINE u == Named[x]
<1>1. ASSUME state = Len(frames), Here
      PROVE  Continued(blocks, blocks', ip, {}, u, ip', todo, {}, todo', frames, n_allocas)
  <2>1. Situated(blocks, ip, todo, frames, generated, n_allocas)
    BY <1>1 DEF Here
  <2>2. PICK j \in 1..Len(frames) : u \in Owns(frames[j])
    BY <1>1, NameOwned
  <2>3. OneAccess(blocks, blocks', ip, u)
    <3>1. Shape(blocks) /\ ip \in 1..Len(blocks)
      BY <2>1, SituatedIs
    <3>2. AddsOne(blocks, blocks', ip, i)
      BY <3>1, WithAdds DEF AddsOne
    <3> QED
      BY <3>2 DEF OneAccess
  <2>4. Goes(Head(todo)) /\ ip' = ip /\ todo' = <<>> \o Tail(todo)
    BY DEF Go, Instr
  <2> HIDE DEF u
  <2>5. Continued(blocks, blocks', ip, {}, u, ip, todo, {}, <<>> \o Tail(todo), frames, n_allocas)
    BY <2>1, <2>2, <2>3, <2>4, WorkedAccess
  <2> QED
    BY <2>4, <2>5
<1>2. Quietly
  BY DEF SameScope, Quietly
<1> HIDE DEF u
<1> QED
  BY <1>1, <1>2, Works

LEMMA GenGoes ==
  ASSUME IInv, NEW node \in ExprNode \union StmtNode, Generating(node)
  PROVE  Runs /\ todo # <<>> /\ ~AtTop(Instr) /\ Goes(Instr)
BY GeneratingIs DEF Plain, Goes

LEMMA GenVarRefLives ==
  ASSUME IInv, WiredInv, LiveInv, GenVarRef
  PROVE  LiveInv'
<1>1. Generating("VarRef") /\ "VarRef" \in ExprNode
  BY DEF GenVarRef, ExprNode
<1>2. Runs /\ todo # <<>> /\ ~AtTop(Instr) /\ Goes(Instr) /\ T.name \in Name
  <2>1. T \in Trees /\ T.node = "VarRef"
    BY <1>1, AtExpr
  <2>2. T.name \in Name
    BY <2>1, KidsAre
  <2> QED
    BY <1>1, <2>2, GenGoes
<1>3. CASE Throw
  BY <1>3, ThrowLives
<1>4. CASE ~Throw
  <2> DEFINE i == Load(Named[T.name])
  <2>1. /\ VariableDefined(T.name) /\ blocks' = With(blocks, ip, i) /\ Go(<<>>) /\ SameScope
        /\ UNCHANGED <<ip, n_allocas, generated, errors>>
    BY <1>4 DEF GenVarRef, SameRest, SameNames
  <2>2. i.op \in {"load", "store"} /\ i.var = Named[T.name]
    BY DEF Load
  <2> HIDE DEF i
  <2> QED
    BY <1>2, <2>1, <2>2, AccessLives
<1> QED
  BY <1>3, <1>4

LEMMA AssignLives ==
  ASSUME IInv, WiredInv, LiveInv, Assign
  PROVE  LiveInv'
<1>1. Doing("assign") /\ "assign" \in PlainDos
  BY DEF Assign, PlainDos
<1>2. Runs /\ todo # <<>> /\ ~AtTop(Instr) /\ Goes(Instr) /\ Instr.do = "assign"
  BY <1>1, DoingPlain DEF Plain, Goes
<1>3. CASE Throw
  BY <1>3, ThrowLives
<1>4. CASE Crash("null operand")
  BY <1>4, CrashLives
<1>5. CASE ~Throw /\ ~Crash("null operand")
  <2> DEFINE i == Store(Named[Instr.key.name], Top)
  <2>1. /\ VariableDefined(Instr.key.name) /\ blocks' = With(blocks, ip, i) /\ Go(<<>>) /\ SameScope
        /\ UNCHANGED <<ip, n_allocas, generated, errors>> /\ Instr.key.node = "VarRef"
    BY <1>5 DEF Assign, SameRest, SameNames
  <2>2. i.op \in {"load", "store"} /\ i.var = Named[Instr.key.name]
    BY DEF Store
  <2>3. Instr.key.name \in Name
    <3>1. Instr.key \in Exprs
      BY <1>1, <1>2, Running DEF Refers
    <3>2. Instr.key \in Trees
      BY <3>1 DEF Exprs
    <3> QED
      BY <2>1, <3>2, KidsAre
  <2> HIDE DEF i
  <2> QED
    BY <1>2, <2>1, <2>2, <2>3, AccessLives
<1> QED
  BY <1>3, <1>4, <1>5

(* The basic block p is ended by j, and q is inserted; before and after it *)
(* the variable u may be accessed.                                         *)
Maybe(bs, c, p, u) == (c = bs /\ Shape(bs)) \/ OneAccess(bs, c, p, u)
Jumped(bs, c, p, q, j, u) ==
  /\ p \in 1..Len(bs) /\ q \in 1..Len(bs) /\ IsTerminator(j)
  /\ \E b1, b2 : /\ Maybe(bs, b1, p, u) /\ AddsOne(b1, b2, p, j)
                 /\ Maybe(Inserted(b2, q), c, q, u)

LEMMA EffectNoJump ==
  ASSUME NEW bs, NEW c, NEW p, NEW Q, NEW u, Effect(bs, c, p, {}, Q, u), NEW q, NEW A
  PROVE  Effect(bs, c, q, A, Q, u)
BY DEF Effect, JumpsOnly

LEMMA MaybeEffect ==
  ASSUME NEW bs, NEW c, NEW p, NEW u, Maybe(bs, c, p, u), NEW Q, p \in Q, NEW q, NEW A
  PROVE  Effect(bs, c, q, A, Q, u) /\ Len(c) = Len(bs)
<1>1. CASE c = bs /\ Shape(bs)
  BY <1>1, EffectSame
<1>2. CASE OneAccess(bs, c, p, u)
  <2>1. Effect(bs, c, p, {}, Q, u) /\ Len(c) = Len(bs)
    BY <1>2, AccessEffect
  <2> QED
    BY <2>1, EffectNoJump
<1> QED
  BY <1>1, <1>2 DEF Maybe

LEMMA JumpedEffect ==
  ASSUME NEW bs, NEW c, NEW p, NEW q, NEW j, NEW u, Jumped(bs, c, p, q, j, u),
         NEW A, \A t \in ToSet(j.to) : t \in A
  PROVE  Effect(bs, c, p, A, {p, q}, u) /\ Len(c) = Len(bs)
<1> DEFINE Q == {p, q}
<1>0. p \in Q /\ q \in Q
  OBVIOUS
<1> HIDE DEF Q
<1>1. /\ p \in 1..Len(bs) /\ q \in 1..Len(bs) /\ IsTerminator(j)
      /\ \E b1, b2 : /\ Maybe(bs, b1, p, u) /\ AddsOne(b1, b2, p, j)
                     /\ Maybe(Inserted(b2, q), c, q, u)
  BY DEF Jumped
<1>2. PICK b1, b2 : /\ Maybe(bs, b1, p, u) /\ AddsOne(b1, b2, p, j)
                    /\ Maybe(Inserted(b2, q), c, q, u)
  BY <1>1
<1>3. Effect(bs, b1, p, A, Q, u) /\ Len(b1) = Len(bs)
  BY <1>0, <1>2, MaybeEffect
<1>4. Effect(b1, b2, p, A, Q, u) /\ Len(b2) = Len(b1)
  <2>1. j.op \notin {"start", "end", "alloca", "poison", "load", "store"}
    BY <1>1 DEF IsTerminator, Terminators
  <2>2. Effect(b1, b2, p, A, Q, u)
    BY <1>0, <1>2, <2>1, EffectOne
  <2> QED
    BY <1>2, <2>2 DEF AddsOne, Adds
<1>5. Effect(b2, Inserted(b2, q), p, A, Q, u) /\ Len(Inserted(b2, q)) = Len(b2)
  <2>1. Shape(b2) /\ q \in 1..Len(b2)
    BY <1>1, <1>3, <1>4 DEF Effect
  <2> QED
    BY <2>1, EffectInserted
<1>6. Effect(Inserted(b2, q), c, p, A, Q, u) /\ Len(c) = Len(Inserted(b2, q))
  BY <1>0, <1>2, MaybeEffect
<1>7. Effect(bs, b2, p, A, Q, u)
  BY <1>3, <1>4, EffectTrans
<1>8. Effect(bs, Inserted(b2, q), p, A, Q, u)
  BY <1>3, <1>4, <1>5, <1>7, EffectTrans
<1>9. Effect(bs, c, p, A, Q, u)
  BY <1>3, <1>4, <1>5, <1>6, <1>8, EffectTrans
<1> QED
  BY <1>3, <1>4, <1>5, <1>6, <1>9 DEF Q

LEMMA AccessResult ==
  ASSUME NEW bs, NEW p, NEW s, NEW fr, NEW gen, NEW na, Situated(bs, p, s, fr, gen, na),
         Head(s).do \in {"if false", "post if"}
  PROVE  Accessible(bs, Entries(Tail(s)), fr, na, Head(s).result)
<1> DEFINE x == Head(s)
           u == x.result
           R == Entries(Tail(s))
<1>1. na \in Nat /\ Penned(bs, p, Entries(s), fr, na) /\ Entries(s) = {x} \union R /\ Nests(x, R)
  BY SituatedIs
<1>2. u \in Vars(x) /\ x.do # "declare"
  BY DEF Vars
<1>3. Awaits(bs, x, fr, na)
  BY <1>1 DEF Penned
<1> HIDE DEF u, x, R
<1>4. u \in 1..na /\ Marked(bs, "start", u) = {} /\ AllocatedAt(bs, u, fr[3].declarations_block)
  BY <1>2, <1>3 DEF Awaits
<1>5. u \in 0..na
  <2>1. na \in Nat /\ u \in 1..na
    BY <1>1, <1>4
  <2> QED
    BY ONLY <2>1
<1>6. ASSUME NEW y \in R, y.do = "declare"
      PROVE  y.var # u
  <2>1. u \notin Vars(y)
    BY <1>1, <1>2, <1>6 DEF Nests
  <2> QED
    BY <1>6, <2>1 DEF Vars
<1>7. Accessible(bs, R, fr, na, u)
  BY <1>4, <1>5, <1>6 DEF Accessible
<1> QED
  BY <1>7 DEF R, u, x

LEMMA AccessNone0 ==
  ASSUME NEW bs, NEW p, NEW s, NEW fr, NEW gen, NEW na, Situated(bs, p, s, fr, gen, na)
  PROVE  Accessible(bs, Entries(Tail(s)), fr, na, 0)
<1> DEFINE R == Entries(Tail(s))
<1>1. na \in Nat /\ Penned(bs, p, Entries(s), fr, na) /\ Entries(s) = {Head(s)} \union R
  BY SituatedIs
<1>2. \A y \in R : Awaits(bs, y, fr, na)
  BY <1>1 DEF Penned
<1> HIDE DEF R
<1>3. Accessible(bs, R, fr, na, 0)
  BY <1>1, <1>2, AccessNone
<1> QED
  BY <1>3 DEF R

LEMMA WorkedJump ==
  ASSUME NEW bs, NEW p, NEW s, NEW fr, NEW gen, NEW na, Situated(bs, p, s, fr, gen, na),
         Goes(Head(s)), NEW q \in Owed(Head(s)), NEW c, NEW j, NEW u, Jumped(bs, c, p, q, j, u),
         \A t \in ToSet(j.to) : t \in Refs(Head(s)),
         Accessible(bs, Entries(Tail(s)), fr, na, u)
  PROVE  Continued(bs, c, p, Refs(Head(s)), u, q, s, {}, <<>> \o Tail(s), fr, na)
<1> DEFINE R == Entries(Tail(s))
           A == Refs(Head(s))
<1>1. /\ InFunction(bs, p, s, fr, gen) /\ s # <<>>
      /\ Nested(Tail(s)) /\ IsSeq(Tail(s)) /\ p \in 1..Len(bs) /\ Len(bs) \in Nat
  BY ONLY Situated(bs, p, s, fr, gen, na), SituatedIs
<1>2. Effect(bs, c, p, A, {p, q}, u) /\ Len(c) = Len(bs)
  BY JumpedEffect
<1>3. Beyond(bs, c, bs[p].fn)
  BY <1>1, <1>2, BeyondNone
<1>4. <<>> \o Tail(s) = Tail(s)
  BY <1>1, NoneLeft
<1>6. q \in 1..Len(c) /\ c[q].fn = bs[p].fn
  <2>1. \A k \in 1..Len(bs) : c[k].fn = bs[k].fn
    BY <1>2, EffectIs
  <2>2. Fits(bs, bs[p].fn, Head(s), Entries(Tail(s)))
    BY <1>1, PopFits
  <2>3. q \in 1..Len(bs) /\ bs[q].fn = bs[p].fn
    BY <2>2 DEF Fits
  <2> QED
    BY <1>2, <2>1, <2>3
<1>7. {} \union R = R
  OBVIOUS
<1> HIDE DEF R, A
<1>8. Accessible(bs, {} \union R, fr, na, u) /\ \A t \in A : t \in Refs(Head(s))
  BY <1>7 DEF R, A
<1>9. Worked(bs, c, p, A, u, q, Head(s), R, {}, fr, na)
  BY <1>2, <1>3, <1>6, <1>8 DEF Worked, Goes
<1> QED
  BY <1>1, <1>4, <1>7, <1>9 DEF Continued, R, A

(* Code that may access u at p.                                            *)
MayAccess(bs, c, p, u) ==
  c = bs \/ \E i : c = With(bs, p, i) /\ i.op \in {"load", "store"} /\ i.var = u

LEMMA MaybeIs ==
  ASSUME NEW bs, Shape(bs), NEW p \in 1..Len(bs), NEW c, NEW u, MayAccess(bs, c, p, u)
  PROVE  Maybe(bs, c, p, u) /\ Shape(c) /\ Len(c) = Len(bs)
<1>1. CASE c = bs
  BY <1>1 DEF Maybe
<1>2. ASSUME NEW i, c = With(bs, p, i), i.op \in {"load", "store"}, i.var = u
      PROVE  Maybe(bs, c, p, u) /\ Shape(c) /\ Len(c) = Len(bs)
  <2>1. AddsOne(bs, c, p, i)
    BY <1>2, WithAdds DEF AddsOne
  <2> QED
    BY <1>2, <2>1 DEF Maybe, OneAccess, AddsOne, Adds
<1> QED
  BY <1>1, <1>2 DEF MayAccess

LEMMA JumpedIs ==
  ASSUME NEW bs, Shape(bs), NEW p \in 1..Len(bs), NEW q \in 1..Len(bs), NEW j, IsTerminator(j),
         NEW u, NEW b1, MayAccess(bs, b1, p, u),
         NEW c, MayAccess(Inserted(With(b1, p, j), q), c, q, u)
  PROVE  Jumped(bs, c, p, q, j, u)
<1> DEFINE b2 == With(b1, p, j)
           d == Inserted(b2, q)
<1>1. Maybe(bs, b1, p, u) /\ Shape(b1) /\ Len(b1) = Len(bs)
  BY MaybeIs
<1>2. AddsOne(b1, b2, p, j)
  BY <1>1, WithAdds DEF AddsOne
<1>3. Shape(b2) /\ Len(b2) = Len(bs)
  BY <1>1, <1>2 DEF AddsOne, Adds
<1> HIDE DEF b2
<1>4. Shape(d) /\ Len(d) = Len(bs)
  BY <1>3, InsertedIs
<1>5. Maybe(d, c, q, u)
  <2>1. MayAccess(d, c, q, u) /\ q \in 1..Len(d)
    BY <1>4 DEF b2
  <2> HIDE DEF d
  <2> QED
    BY <1>4, <2>1, MaybeIs
<1> QED
  BY <1>1, <1>2, <1>5 DEF Jumped

LEMMA JumpLives ==
  ASSUME IInv, WiredInv, LiveInv, Runs, todo # <<>>, ~AtTop(Instr), Goes(Instr),
         SameScope, UNCHANGED <<n_allocas, generated, errors>>, Go(<<>>),
         NEW q \in Owed(Instr), ip' = q, NEW j, IsTerminator(j), \A t \in ToSet(j.to) : t \in Refs(Instr),
         NEW u, u = 0 \/ (Instr.do \in {"if false", "post if"} /\ u = Instr.result),
         NEW b1, MayAccess(blocks, b1, ip, u),
         MayAccess(Inserted(With(b1, ip, j), q), blocks', q, u)
  PROVE  LiveInv'
<1> DEFINE x == Head(todo)
           A == Refs(x)
<1>0. x = Instr
  BY DEF Instr
<1> HIDE DEF x
<1>1. ASSUME Here
      PROVE  Continued(blocks, blocks', ip, A, u, ip', todo, {}, todo', frames, n_allocas)
  <2>1. Situated(blocks, ip, todo, frames, generated, n_allocas)
    BY <1>1 DEF Here
  <2>2. InFunction(blocks, ip, todo, frames, generated) /\ todo # <<>> /\ Shape(blocks) /\ ip \in 1..Len(blocks)
    BY <2>1, SituatedIs
  <2>3. q \in 1..Len(blocks)
    <3>1. Fits(blocks, blocks[ip].fn, x, Entries(Tail(todo)))
      BY <2>2, PopFits DEF x
    <3> QED
      BY <1>0, <3>1 DEF Fits
  <2>4. Jumped(blocks, blocks', ip, q, j, u)
    BY <2>2, <2>3, JumpedIs
  <2>5. Accessible(blocks, Entries(Tail(todo)), frames, n_allocas, u)
    <3>1. CASE u = 0
      BY <2>1, <3>1, AccessNone0
    <3>2. CASE Instr.do \in {"if false", "post if"} /\ u = Instr.result
      BY <1>0, <2>1, <3>2, AccessResult DEF x
    <3> QED
      BY <3>1, <3>2
  <2>6. Goes(x) /\ q \in Owed(x) /\ \A t \in ToSet(j.to) : t \in Refs(x)
    BY <1>0
  <2>7. Continued(blocks, blocks', ip, A, u, q, todo, {}, <<>> \o Tail(todo), frames, n_allocas)
    BY <2>1, <2>4, <2>5, <2>6, WorkedJump DEF x
  <2>8. ip' = q /\ todo' = <<>> \o Tail(todo)
    BY DEF Go
  <2> QED
    BY <2>7, <2>8
<1>2. Quietly
  BY DEF SameScope, Quietly
<1> HIDE DEF A
<1> QED
  BY <1>1, <1>2, Works

LEMMA OwesGoes ==
  ASSUME IInv, NEW what \in {"if false", "post if", "loop body", "post while"}, Doing(what)
  PROVE  Runs /\ todo # <<>> /\ ~AtTop(Instr) /\ Goes(Instr) /\ Instr.do = what
<1>1. Runs /\ Instr.do = what /\ todo # <<>>
  BY DoingIs
<1>2. ~AtTop(Instr)
  BY <1>1 DEF AtTop
<1> QED
  BY <1>1, <1>2 DEF Goes

LEMMA IfFalseLives ==
  ASSUME IInv, WiredInv, LiveInv, IfFalse
  PROVE  LiveInv'
<1> DEFINE u == Instr.result
           j == Br(Instr.post)
           w == Store(u, OrZero(Top))
           b1 == With(blocks, ip, w)
           q == Instr.no
<1>1. /\ Doing("if false") /\ blocks' = Inserted(With(b1, ip, j), q) /\ ip' = q
      /\ Go(<<>>) /\ SameScope /\ UNCHANGED <<n_allocas, generated, errors>>
  BY DEF IfFalse, SameRest, SameNames
<1>2. Runs /\ todo # <<>> /\ ~AtTop(Instr) /\ Goes(Instr) /\ Instr.do = "if false"
  BY <1>1, OwesGoes
<1>3. q \in Owed(Instr) /\ Instr.post \in Refs(Instr)
  BY <1>2, IfFalseOwes DEF Refs
<1>4. IsTerminator(j) /\ \A t \in ToSet(j.to) : t \in Refs(Instr)
  BY <1>3, OneTarget
<1>5. MayAccess(blocks, b1, ip, u)
  <2>1. w.op \in {"load", "store"} /\ w.var = u
    BY DEF Store
  <2> HIDE DEF w
  <2> QED
    BY <2>1 DEF MayAccess
<1>6. u = 0 \/ (Instr.do \in {"if false", "post if"} /\ u = Instr.result)
  BY <1>2
<1> HIDE DEF u, j, w, b1, q
<1>7. MayAccess(Inserted(With(b1, ip, j), q), blocks', q, u)
  BY <1>1 DEF MayAccess
<1> QED
  BY <1>1, <1>2, <1>3, <1>4, <1>5, <1>6, <1>7, JumpLives

LEMMA PostIfLives ==
  ASSUME IInv, WiredInv, LiveInv, PostIf
  PROVE  LiveInv'
<1> DEFINE u == Instr.result
           j == Br(Instr.post)
           w == Store(u, OrZero(Top))
           b1 == With(blocks, ip, w)
           q == Instr.post
<1>1. /\ Doing("post if") /\ blocks' = With(Inserted(With(b1, ip, j), q), q, Load(u)) /\ ip' = q
      /\ Go(<<>>) /\ SameScope /\ UNCHANGED <<n_allocas, generated, errors>>
  BY DEF PostIf, SameNames
<1>2. Runs /\ todo # <<>> /\ ~AtTop(Instr) /\ Goes(Instr) /\ Instr.do = "post if"
  BY <1>1, OwesGoes
<1>3. q \in Owed(Instr) /\ Instr.post \in Refs(Instr)
  BY <1>2, PostIfOwes DEF Refs
<1>4. IsTerminator(j) /\ \A t \in ToSet(j.to) : t \in Refs(Instr)
  BY <1>3, OneTarget
<1>5. MayAccess(blocks, b1, ip, u)
  <2>1. w.op \in {"load", "store"} /\ w.var = u
    BY DEF Store
  <2> HIDE DEF w
  <2> QED
    BY <2>1 DEF MayAccess
<1>6. u = 0 \/ (Instr.do \in {"if false", "post if"} /\ u = Instr.result)
  BY <1>2
<1>8. Load(u).op \in {"load", "store"} /\ Load(u).var = u
  BY DEF Load
<1> HIDE DEF u, j, w, b1, q
<1>7. MayAccess(Inserted(With(b1, ip, j), q), blocks', q, u)
  BY <1>1, <1>8 DEF MayAccess
<1> QED
  BY <1>1, <1>2, <1>3, <1>4, <1>5, <1>6, <1>7, JumpLives

LEMMA LoopBodyLives ==
  ASSUME IInv, WiredInv, LiveInv, LoopBody
  PROVE  LiveInv'
<1> DEFINE j == CondBr(Top, Instr.body, Instr.post)
           q == Instr.body
<1>0. CASE Crash("null operand")
  BY <1>0, CrashLives
<1>9. CASE ~Crash("null operand")
  <2>1. /\ Doing("loop body") /\ blocks' = Inserted(With(blocks, ip, j), q) /\ ip' = q
        /\ Go(<<>>) /\ SameScope /\ UNCHANGED <<n_allocas, generated, errors>>
    BY <1>9 DEF LoopBody, SameRest, SameNames
  <2>2. Runs /\ todo # <<>> /\ ~AtTop(Instr) /\ Goes(Instr) /\ Instr.do = "loop body"
    BY <2>1, OwesGoes
  <2>3. q \in Owed(Instr) /\ Instr.post \in Refs(Instr) /\ Instr.body \in Refs(Instr)
    BY <2>2, LoopBodyOwes DEF Refs
  <2>4. IsTerminator(j) /\ \A t \in ToSet(j.to) : t \in Refs(Instr)
    BY <2>3, TwoTargets
  <2> HIDE DEF j, q
  <2>5. MayAccess(blocks, blocks, ip, 0)
    BY DEF MayAccess
  <2>7. MayAccess(Inserted(With(blocks, ip, j), q), blocks', q, 0)
    BY <2>1 DEF MayAccess
  <2> QED
    BY <2>1, <2>2, <2>3, <2>4, <2>5, <2>7, JumpLives
<1> QED
  BY <1>0, <1>9

LEMMA PostWhileLives ==
  ASSUME IInv, WiredInv, LiveInv, PostWhile
  PROVE  LiveInv'
<1> DEFINE j == Br(Instr.cond)
           q == Instr.post
<1>0. CASE Crash("return values from loops")
  BY <1>0, CrashLives
<1>9. CASE ~Crash("return values from loops")
  <2>1. /\ Doing("post while") /\ blocks' = Inserted(With(blocks, ip, j), q) /\ ip' = q
        /\ Go(<<>>) /\ SameScope /\ UNCHANGED <<n_allocas, generated, errors>>
    BY <1>9 DEF PostWhile, SameRest, SameNames
  <2>2. Runs /\ todo # <<>> /\ ~AtTop(Instr) /\ Goes(Instr) /\ Instr.do = "post while"
    BY <2>1, OwesGoes
  <2>3. q \in Owed(Instr) /\ Instr.cond \in Refs(Instr)
    BY <2>2, PostWhileOwes DEF Refs
  <2>4. IsTerminator(j) /\ \A t \in ToSet(j.to) : t \in Refs(Instr)
    BY <2>3, OneTarget
  <2> HIDE DEF j, q
  <2>5. MayAccess(blocks, blocks, ip, 0)
    BY DEF MayAccess
  <2>7. MayAccess(Inserted(With(blocks, ip, j), q), blocks', q, 0)
    BY <2>1 DEF MayAccess
  <2> QED
    BY <2>1, <2>2, <2>3, <2>4, <2>5, <2>7, JumpLives
<1> QED
  BY <1>0, <1>9

(* What is to be done before that refers to newer basic blocks and         *)
(* variables.                                                              *)
Lower(R, n, m) ==
  \A y \in R : /\ y.do = "leave block" => y.end \in Nat /\ y.end <= n
               /\ y.do = "declare" => y.var \in 1..m
(* What is to be done now refers to basic blocks above n, and variables    *)
(* above m.                                                                *)
Higher(x, n, m) ==
  /\ x.do # "leave block" /\ x.do # "declare"
  /\ \A r \in Refs(x) : r > n /\ r \in Nat
  /\ \A v \in Vars(x) : v \in Nat /\ v > m

LEMMA LowerIs ==
  ASSUME NEW bs, NEW p, NEW s, NEW fr, NEW gen, NEW na, Situated(bs, p, s, fr, gen, na)
  PROVE  Lower(Entries(Tail(s)), Len(bs), na)
<1>1. /\ na \in Nat /\ Penned(bs, p, Entries(s), fr, na) /\ Nested(s)
      /\ Entries(s) = {Head(s)} \union Entries(Tail(s)) /\ Len(bs) \in Nat
  BY SituatedIs
<1>2. ASSUME NEW y \in Entries(Tail(s)), y.do = "leave block"
      PROVE  y.end \in Nat /\ y.end <= Len(bs)
  <2>1. y \in Entries(s)
    BY <1>1
  <2>2. Opened(bs, p, y, fr)
    BY <1>1, <1>2, <2>1 DEF Penned
  <2>3. y.begin \in Nat /\ y.begin + 2 <= Len(bs)
    BY <2>2 DEF Opened, Walled
  <2>4. y.end = y.begin + 2
    BY <1>1, <1>2, <2>1, NestedShaped DEF Shaped
  <2> QED
    BY <2>3, <2>4
<1>3. ASSUME NEW y \in Entries(Tail(s)), y.do = "declare"
      PROVE  y.var \in 1..na
  <2>1. Awaits(bs, y, fr, na) /\ y.var \in Vars(y)
    BY <1>1, <1>3 DEF Penned, Vars
  <2> QED
    BY <2>1 DEF Awaits
<1> QED
  BY <1>2, <1>3 DEF Lower

LEMMA NestsHigher ==
  ASSUME NEW x, NEW R, NEW n \in Nat, NEW m \in Nat, Lower(R, n, m), Higher(x, n, m)
  PROVE  Nests(x, R)
<1>1. ASSUME NEW y \in R, y.do = "leave block", NEW b \in Refs(x)
      PROVE  b > y.end
  <2>1. y.end \in Nat /\ y.end <= n /\ b > n /\ b \in Nat /\ n \in Nat
    BY <1>1 DEF Lower, Higher
  <2> QED
    BY ONLY <2>1
<1>2. ASSUME NEW y \in R, y.do = "declare", NEW v \in Vars(x)
      PROVE  v \notin Vars(y)
  <2>1. Vars(y) = {y.var}
    BY <1>2 DEF Vars
  <2>2. y.var \in 1..m /\ v \in Nat /\ v > m /\ m \in Nat
    BY <1>2 DEF Lower, Higher
  <2>3. v # y.var
    BY ONLY <2>2
  <2> QED
    BY <2>1, <2>3
<1>3. x.do # "leave block" /\ x.do # "declare"
  BY DEF Higher
<1> QED
  BY <1>1, <1>2, <1>3 DEF Nests

LEMMA NestedHigher ==
  ASSUME NEW s, Nested(s), NEW n \in Nat, NEW m \in Nat, Lower(Entries(s), n, m),
         NEW x, Higher(x, n, m)
  PROVE  /\ Nested(Cons(x, s)) /\ Lower(Entries(Cons(x, s)), n, m)
         /\ Entries(Cons(x, s)) = {x} \union Entries(s)
<1>1. IsSeq(s)
  BY NestedShaped
<1>2. Entries(Cons(x, s)) = {x} \union Entries(s)
  BY <1>1, ConsEntries
<1>3. Nested(Cons(x, s))
  BY <1>1, NestsHigher, NestedCons
<1> QED
  BY <1>2, <1>3 DEF Lower, Higher

LEMMA BareHigher ==
  ASSUME NEW x, x.do \notin Busy, NEW n, NEW m
  PROVE  Higher(x, n, m) /\ Bare(x)
<1>1. Bare(x) /\ x.do # "declare"
  BY BareIs DEF Busy
<1> QED
  BY <1>1 DEF Bare, Higher

(* Three basic blocks are created.                                         *)
LEMMA CreatesEffect ==
  ASSUME NEW bs, Shape(bs), NEW p \in 1..Len(bs), NEW j, IsTerminator(j),
         NEW i2, NEW i3, NEW c, Creating(bs, p, j, i2, i3, c),
         NEW A, \A t \in ToSet(j.to) : t \in A, NEW Q, p \in Q
  PROVE  Effect(bs, c, p, A, Q, 0) /\ Len(c) = Len(bs) + 3 /\ Beyond(bs, c, bs[p].fn)
<1> DEFINE f == bs[p].fn
           x == BasicBlock(f, TRUE)
           y == BasicBlock(f, i2)
           z == BasicBlock(f, i3)
           n == <<x, y, z>>
           b1 == With(bs, p, j)
<1>1. c = b1 \o n
  BY DEF Creating
<1>2. AddsOne(bs, b1, p, j)
  BY WithAdds DEF AddsOne
<1>3. Shape(b1) /\ Len(b1) = Len(bs)
  BY <1>2 DEF AddsOne, Adds
<1>4. Effect(bs, b1, p, A, Q, 0)
  <2>1. j.op \notin {"start", "end", "alloca", "poison", "load", "store"}
    BY DEF IsTerminator, Terminators
  <2> HIDE DEF b1
  <2> QED
    BY <1>2, <2>1, EffectOne
<1>5. /\ IsBlock(x) /\ x.insts = <<>> /\ x.fn = f /\ IsBlock(y) /\ y.insts = <<>> /\ y.fn = f
      /\ IsBlock(z) /\ z.insts = <<>> /\ z.fn = f
  BY NewBlock DEF BasicBlock, PlainBlock
<1> HIDE DEF x, y, z, b1
<1>6. IsSeq(n) /\ Len(n) = 3 /\ n[1] = x /\ n[2] = y /\ n[3] = z
  <2>1. IsSeq(n)
    BY Tuple3, BareNone DEF Bares
  <2> QED
    BY <2>1
<1> HIDE DEF n
<1>7. \A k \in 1..Len(n) : k = 1 \/ k = 2 \/ k = 3
  BY ONLY <1>6
<1>8. \A k \in 1..Len(n) : IsBlock(n[k]) /\ n[k].insts = <<>> /\ n[k].fn = f
  BY <1>5, <1>6, <1>7
<1> HIDE DEF f
<1>9. Effect(b1, c, p, A, Q, 0) /\ Len(c) = Len(b1) + Len(n) /\ Beyond(b1, c, f)
  BY <1>1, <1>3, <1>6, <1>8, EffectExtends
<1>10. Effect(bs, c, p, A, Q, 0)
  BY <1>3, <1>4, <1>9, EffectTrans
<1>11. Beyond(bs, c, f)
  BY <1>3, <1>9 DEF Beyond
<1> QED
  BY <1>3, <1>6, <1>9, <1>10, <1>11 DEF f

LEMMA WorkedCreates ==
  ASSUME NEW bs, NEW p, NEW s, NEW fr, NEW gen, NEW na, Situated(bs, p, s, fr, gen, na),
         Goes(Head(s)), NEW j, IsTerminator(j), NEW i2, NEW i3, NEW c, Creating(bs, p, j, i2, i3, c),
         NEW A, \A t \in ToSet(j.to) : t \in A, \A t \in A : t > Len(bs),
         NEW p2, p2 = Len(bs) + 1 \/ p2 = Len(bs) + 2,
         NEW N, \A y \in N : /\ y.do # "leave block" /\ Awaits(bs, y, fr, na)
                             /\ \A r \in Refs(y) : r > Len(bs),
         NEW s2, Nested(s2), Entries(s2) = N \union Entries(Tail(s))
  PROVE  Continued(bs, c, p, A, 0, p2, s, N, s2, fr, na)
<1> DEFINE R == Entries(Tail(s))
<1>1. /\ na \in Nat /\ Penned(bs, p, Entries(s), fr, na) /\ Entries(s) = {Head(s)} \union R
      /\ Shape(bs) /\ p \in 1..Len(bs) /\ Len(bs) \in Nat
  BY ONLY Situated(bs, p, s, fr, gen, na), SituatedIs
<1>2. Effect(bs, c, p, A, {p, p2}, 0) /\ Len(c) = Len(bs) + 3 /\ Beyond(bs, c, bs[p].fn)
  <2>1. p \in {p, p2}
    OBVIOUS
  <2> QED
    BY <1>1, <2>1, CreatesEffect
<1>3. p2 \in 1..Len(c) /\ p2 > Len(bs) /\ p2 \in (Len(bs) + 1)..Len(c)
  <2>1. (p2 = Len(bs) + 1 \/ p2 = Len(bs) + 2) /\ Len(bs) \in Nat /\ Len(c) = Len(bs) + 3
    BY <1>1, <1>2
  <2> QED
    BY ONLY <2>1
<1>4. c[p2].fn = bs[p].fn
  BY <1>2, <1>3 DEF Beyond
<1>5. \A y \in N \union R : Awaits(bs, y, fr, na)
  BY <1>1 DEF Penned
<1> HIDE DEF R
<1>6. Accessible(bs, N \union R, fr, na, 0)
  BY <1>1, <1>5, AccessNone
<1>7. Worked(bs, c, p, A, 0, p2, Head(s), R, N, fr, na)
  BY <1>2, <1>3, <1>4, <1>6 DEF Worked, Goes
<1> QED
  BY <1>7 DEF Continued, R

LEMMA NestedOneHigher ==
  ASSUME NEW s, Nested(s), NEW n \in Nat, NEW m \in Nat, Lower(Entries(s), n, m),
         NEW x, Higher(x, n, m), NEW t, t = Cons(x, s)
  PROVE  Nested(t) /\ Lower(Entries(t), n, m) /\ Entries(t) = {x} \union Entries(s)
<1>1. /\ Nested(Cons(x, s)) /\ Lower(Entries(Cons(x, s)), n, m)
      /\ Entries(Cons(x, s)) = {x} \union Entries(s)
  BY NestedHigher
<1> QED
  BY <1>1

LEMMA FourHigher ==
  ASSUME NEW s, Nested(s), NEW n \in Nat, NEW m \in Nat, Lower(Entries(s), n, m),
         NEW a, NEW b, NEW d, NEW e, Higher(a, n, m), Higher(b, n, m), Higher(d, n, m), Higher(e, n, m)
  PROVE  LET t == Cons(a, Cons(b, Cons(d, Cons(e, s))))
         IN  Nested(t) /\ Entries(t) = {a, b, d, e} \union Entries(s)
<1> DEFINE s1 == Cons(e, s)
           s2 == Cons(d, s1)
           s3 == Cons(b, s2)
           s4 == Cons(a, s3)
<1>0. s1 = Cons(e, s) /\ s2 = Cons(d, s1) /\ s3 = Cons(b, s2) /\ s4 = Cons(a, s3)
  OBVIOUS
<1> HIDE DEF s1, s2, s3, s4
<1>1. Nested(s1) /\ Lower(Entries(s1), n, m) /\ Entries(s1) = {e} \union Entries(s)
  BY <1>0, NestedOneHigher
<1>2. Nested(s2) /\ Lower(Entries(s2), n, m) /\ Entries(s2) = {d} \union Entries(s1)
  BY <1>0, <1>1, NestedOneHigher
<1>3. Nested(s3) /\ Lower(Entries(s3), n, m) /\ Entries(s3) = {b} \union Entries(s2)
  BY <1>0, <1>2, NestedOneHigher
<1>4. Nested(s4) /\ Entries(s4) = {a} \union Entries(s3)
  BY <1>0, <1>3, NestedOneHigher
<1>5. Entries(s4) = {a, b, d, e} \union Entries(s)
  BY <1>1, <1>2, <1>3, <1>4
<1> QED
  BY <1>4, <1>5 DEF s1, s2, s3, s4

(* An expression creates three basic blocks and goes on in the first.      *)
LEMMA WorkedWeave ==
  ASSUME NEW bs, NEW p, NEW s, NEW fr, NEW gen, NEW na, Situated(bs, p, s, fr, gen, na),
         Goes(Head(s)), NEW j, IsTerminator(j), NEW i2, NEW i3, NEW c, Creating(bs, p, j, i2, i3, c),
         \A t \in ToSet(j.to) : t > Len(bs),
         NEW m \in Nat, Lower(Entries(Tail(s)), Len(bs), m),
         NEW a, NEW b, NEW d, NEW e,
         \A x \in {a, b, d, e} : Higher(x, Len(bs), m) /\ Awaits(bs, x, fr, na)
  PROVE  Continued(bs, c, p, ToSet(j.to), 0, Len(bs) + 1, s, {a, b, d, e},
                   Cons(a, Cons(b, Cons(d, Cons(e, Tail(s))))), fr, na)
<1> DEFINE s2 == Cons(a, Cons(b, Cons(d, Cons(e, Tail(s)))))
           N == {a, b, d, e}
<1>1. Nested(Tail(s)) /\ Len(bs) \in Nat
  BY SituatedIs
<1>2. Nested(s2) /\ Entries(s2) = N \union Entries(Tail(s))
  BY <1>1, FourHigher
<1>3. \A y \in N : /\ y.do # "leave block" /\ Awaits(bs, y, fr, na)
                   /\ \A r \in Refs(y) : r > Len(bs)
  BY DEF Higher
<1> HIDE DEF s2, N
<1> DEFINE A == ToSet(j.to)
<1>4. (\A t \in ToSet(j.to) : t \in A) /\ (\A t \in A : t > Len(bs))
  OBVIOUS
<1> HIDE DEF A
<1> DEFINE p2 == Len(bs) + 1
<1>5. p2 = Len(bs) + 1 \/ p2 = Len(bs) + 2
  OBVIOUS
<1> HIDE DEF p2
<1>6. Continued(bs, c, p, A, 0, p2, s, N, s2, fr, na)
  BY <1>2, <1>3, <1>4, <1>5, WorkedCreates
<1> QED
  BY <1>6 DEF N, s2, A, p2

LEMMA NoVars ==
  ASSUME NEW bs, NEW x, Vars(x) = {}, NEW fr, NEW na
  PROVE  Awaits(bs, x, fr, na)
BY DEF Awaits

LEMMA GenWhileLives ==
  ASSUME IInv, WiredInv, LiveInv, GenWhile
  PROVE  LiveInv'
<1> DEFINE n == Len(blocks)
           j == Br(n + 1)
           a == Gen(Kid(1))
           b == [do |-> "loop body", body |-> n + 2, post |-> n + 3]
           d == Gen(Kid(2))
           e == [do |-> "post while", cond |-> n + 1, post |-> n + 3]
           N == {a, b, d, e}
           A == ToSet(j.to)
<1>1. /\ Generating("While") /\ Creating(blocks, ip, j, FALSE, FALSE, blocks')
      /\ ip' = n + 1 /\ Go(<<a, b, d, e>>) /\ SameScope /\ UNCHANGED <<n_allocas, generated, errors>>
  BY DEF GenWhile, SameRest, SameNames, Creating, Fn, New
<1>2. "While" \in ExprNode \union StmtNode
  BY DEF ExprNode
<1>3. Runs /\ todo # <<>> /\ ~AtTop(Instr) /\ Goes(Instr) /\ IsSeq(Tail(todo))
  BY <1>1, <1>2, GenGoes, GeneratingIs
<1>4. n \in Nat
  BY Facts
<1>5. /\ b.do = "loop body" /\ b.body = n + 2 /\ b.post = n + 3
      /\ e.do = "post while" /\ e.cond = n + 1 /\ e.post = n + 3
      /\ a.do = "gen" /\ d.do = "gen"
  BY DEF Gen
<1>6. Refs(b) = {n + 2, n + 3} /\ Refs(e) = {n + 3, n + 1}
  <2> HIDE DEF b, e
  <2>1. Owed(b) = {n + 2} /\ Aims(b) = {n + 3}
    BY ONLY <1>5, LoopBodyOwes
  <2>2. Owed(e) = {n + 3} /\ Aims(e) = {n + 1}
    BY ONLY <1>5, PostWhileOwes
  <2> QED
    BY ONLY <2>1, <2>2 DEF Refs
<1>7. Vars(b) = {} /\ Vars(e) = {}
  BY <1>5 DEF Vars
<1>8. IsTerminator(j) /\ \A t \in ToSet(j.to) : t > n
  BY <1>4, OneTarget
<1>14. todo' = <<a, b, d, e>> \o Tail(todo)
  BY <1>1 DEF Go
<1> HIDE DEF a, b, d, e, j, n
<1>9. todo' = Cons(a, Cons(b, Cons(d, Cons(e, Tail(todo)))))
  <2>1. IsSeq(Tail(todo)) /\ todo' = <<a, b, d, e>> \o Tail(todo)
    BY <1>3, <1>14
  <2> DEFINE rest == Tail(todo)
  <2>3. IsSeq(rest) /\ todo' = <<a, b, d, e>> \o rest
    BY <2>1
  <2> HIDE DEF rest, N
  <2>2. <<a, b, d, e>> \o rest = Cons(a, Cons(b, Cons(d, Cons(e, rest))))
    BY ONLY <2>3, Tuple4
  <2>4. todo' = Cons(a, Cons(b, Cons(d, Cons(e, rest))))
    BY ONLY <2>3, <2>2
  <2> QED
    BY <2>4 DEF rest
<1>10. \A x \in N : Higher(x, n, n_allocas) /\ Vars(x) = {}
  <2>1. Higher(a, n, n_allocas) /\ Higher(d, n, n_allocas) /\ Vars(a) = {} /\ Vars(d) = {}
    BY <1>5, BareHigher DEF Busy, Bare
  <2>2. \A r \in {n + 2, n + 3} \union {n + 3, n + 1} : r > n /\ r \in Nat
    BY ONLY <1>4
  <2>3. Higher(b, n, n_allocas)
    BY <1>5, <1>6, <1>7, <2>2 DEF Higher
  <2>4. Higher(e, n, n_allocas)
    BY <1>5, <1>6, <1>7, <2>2 DEF Higher
  <2> QED
    BY <1>7, <2>1, <2>3, <2>4
<1>11. ASSUME Here
       PROVE  Continued(blocks, blocks', ip, A, 0, ip', todo, N, todo', frames, n_allocas)
  <2>1. Situated(blocks, ip, todo, frames, generated, n_allocas)
    BY <1>11 DEF Here
  <2>2. Lower(Entries(Tail(todo)), n, n_allocas) /\ n_allocas \in Nat
    BY <2>1, LowerIs, SituatedIs DEF n
  <2>3. \A x \in {a, b, d, e} : Higher(x, Len(blocks), n_allocas) /\ Awaits(blocks, x, frames, n_allocas)
    BY <1>10, NoVars DEF n
  <2>4. Goes(Head(todo)) /\ \A t \in ToSet(j.to) : t > Len(blocks)
    BY <1>3, <1>8 DEF Instr, n
  <2>5. Continued(blocks, blocks', ip, ToSet(j.to), 0, Len(blocks) + 1, todo, {a, b, d, e},
                  Cons(a, Cons(b, Cons(d, Cons(e, Tail(todo))))), frames, n_allocas)
    BY <1>1, <1>8, <2>1, <2>2, <2>3, <2>4, WorkedWeave DEF n
  <2> QED
    BY <1>1, <1>9, <2>5 DEF n
<1>12. Quietly
  BY <1>1 DEF SameScope, Quietly
<1> HIDE DEF A, N
<1> QED
  BY <1>3, <1>11, <1>12, Works

(* A variable is allocated in the first basic block of the function.       *)
LEMMA FirstFrames ==
  ASSUME NEW bs, NEW p, NEW s, NEW fr, NEW gen, InFunction(bs, p, s, fr, gen), Len(fr) \in Nat
  PROVE  fr[Len(fr)].declarations_block = fr[3].declarations_block /\ Len(fr) >= 3
<1>1. Framed(Entries(s), fr) /\ Inside(Entries(s))
  BY DEF InFunction
<1>2. PICK x \in Entries(s) : x.do = "end function"
  BY <1>1 DEF Inside
<1>3. Len(fr) >= 3 /\ \A j \in 3..Len(fr) : fr[j].declarations_block = x.decls
  BY <1>1, <1>2 DEF Framed
<1>4. 3 \in 3..Len(fr) /\ Len(fr) \in 3..Len(fr)
  <2>1. Len(fr) \in Nat /\ Len(fr) >= 3
    BY <1>3
  <2> QED
    BY ONLY <2>1
<1> QED
  BY <1>3, <1>4

LEMMA AllocatedAllocates ==
  ASSUME NEW bs, Shape(bs), NEW d \in 1..Len(bs), NEW v, NEW x, NEW c, c = Allocated(bs, d, v, x)
  PROVE  Allocates(bs, c, d, v)
<1> DEFINE i == Alloca(v, x)
           j == Poison(v)
           b == With(bs, d, i)
<1>1. c = With(b, d, j) /\ i.op = "alloca" /\ i.var = v /\ j.op = "poison" /\ j.var = v
  BY DEF Allocated, Alloca, Poison
<1>2. b = With(bs, d, i)
  OBVIOUS
<1> HIDE DEF i, j, b
<1>3. Adds(bs, b, d, <<i>>)
  BY <1>2, WithAdds
<1>4. Shape(b) /\ d \in 1..Len(b)
  BY <1>3 DEF Adds
<1>5. Adds(b, c, d, <<j>>)
  BY <1>1, <1>4, WithAdds
<1>6. Adds(bs, c, d, <<i, j>>)
  <2> DEFINE s == <<i>>
             t == <<j>>
             w == <<i, j>>
             u0 == Code0(bs, d)
             u1 == Code0(b, d)
             u2 == Code0(c, d)
  <2>1. Len(s) = 1 /\ s[1] = i /\ Len(t) = 1 /\ t[1] = j
    BY OneIs
  <2>2. IsSeq(w) /\ Len(w) = 2 /\ w[1] = i /\ w[2] = j
    <3>1. w = [k \in 1..2 |-> w[k]] /\ 2 \in Nat /\ w[1] = i /\ w[2] = j
      OBVIOUS
    <3> HIDE DEF w
    <3> QED
      BY <3>1, MapIs
  <2>3. Longer(u0, u1, s) /\ Longer(u1, u2, t)
    BY <1>3, <1>5 DEF Adds
  <2> HIDE DEF s, t, w, u0, u1, u2
  <2>4. /\ IsSeq(u0) /\ IsSeq(u2) /\ Len(u0) \in Nat
        /\ Len(u1) = Len(u0) + 1 /\ Len(u2) = Len(u1) + 1
        /\ \A k \in 1..Len(u0) : u1[k] = u0[k]
        /\ \A k \in 1..Len(u1) : u2[k] = u1[k]
        /\ \A k \in 1..1 : u1[Len(u0) + k] = s[k]
        /\ \A k \in 1..1 : u2[Len(u1) + k] = t[k]
    BY <2>1, <2>3, ListIs DEF Longer
  <2>5. u1[Len(u0) + 1] = i /\ u2[Len(u1) + 1] = j /\ Len(u0) + 1 \in 1..Len(u1)
    BY <2>1, <2>4
  <2>6. Len(u2) = Len(u0) + 2 /\ u2[Len(u0) + 1] = i /\ u2[Len(u0) + 2] = j
    BY <2>4, <2>5
  <2>7. \A k \in 1..Len(u0) : u2[k] = u0[k]
    <3>1. \A k \in 1..Len(u0) : k \in 1..Len(u1)
      BY <2>4
    <3> QED
      BY <2>4, <3>1
  <2>8. \A k \in 1..Len(w) : u2[Len(u0) + k] = w[k]
    <3>1. \A k \in 1..Len(w) : k = 1 \/ k = 2
      BY <2>2
    <3> QED
      BY <2>2, <2>6, <3>1
  <2>9. Longer(u0, u2, w)
    BY <2>2, <2>4, <2>6, <2>7, <2>8 DEF Longer
  <2> QED
    BY <1>3, <1>5, <2>9 DEF Adds, u0, u2, w
<1> QED
  BY <1>1, <1>6 DEF Allocates

LEMMA SituatedAlloca ==
  ASSUME NEW bs, NEW p, NEW s, NEW fr, NEW gen, NEW na, Situated(bs, p, s, fr, gen, na),
         NEW d, d = fr[Len(fr)].declarations_block, NEW name,
         NEW c, c = Allocated(bs, d, na + 1, name)
  PROVE  /\ Situated(c, p, s, fr, gen, na + 1) /\ Unused(c, na + 1, fr[3].declarations_block, fr)
         /\ Len(c) = Len(bs) /\ c[p].fn = bs[p].fn /\ na + 1 \in 1..(na + 1)
<1>1. /\ InFunction(bs, p, s, fr, gen) /\ s # <<>> /\ na \in Nat /\ Len(fr) \in Nat
      /\ Nested(s) /\ Outermost(fr) /\ Sited(bs, na, gen) /\ Penned(bs, p, Entries(s), fr, na)
      /\ Shape(bs) /\ p \in 1..Len(bs)
  BY ONLY Situated(bs, p, s, fr, gen, na), SituatedIs
<1>2. d = fr[3].declarations_block
  BY <1>1, FirstFrames
<1>3. d \in OwedBy(Entries(s))
  BY <1>1, DeclsOwed
<1>4. InFunction(c, p, s, fr, gen) /\ Len(c) = Len(bs) /\ c[p].fn = bs[p].fn
  BY <1>1, <1>3, AllocatesInside
<1>5. InFunction(c, p, s, fr, gen) /\ Len(c) = Len(bs) /\ c[p].fn = bs[p].fn
  BY <1>4
<1>6. Prelude(bs, p, d)
  BY <1>1, <1>2 DEF Penned
<1>7. d \in 1..Len(bs) /\ Stops(Code0(bs, d)) = {}
  BY <1>6 DEF Prelude, IsFirst
<1>9. Allocates(bs, c, fr[3].declarations_block, na + 1)
  BY <1>1, <1>2, <1>7, AllocatedAllocates
<1>10. Fresh(bs, na)
  BY <1>1 DEF Sited
<1>11. Unused(c, na + 1, fr[3].declarations_block, fr)
  BY <1>1, <1>9, <1>10, NewUnused
<1>12. Penned(c, p, Entries(s), fr, na + 1)
  BY <1>1, <1>9, <1>10, PennedAlloca
<1>13. Sited(c, na + 1, gen)
  <2>1. AllocatedAt(c, na + 1, d) /\ Allocates(bs, c, d, na + 1)
    BY <1>2, <1>9, <1>11 DEF Unused
  <2> QED
    BY <1>1, <1>7, <2>1, SitedAlloca
<1>14. na + 1 \in Nat /\ na + 1 \in 1..(na + 1)
  BY <1>1
<1>15. Situated(c, p, s, fr, gen, na + 1)
  BY <1>1, <1>5, <1>12, <1>13, <1>14 DEF Situated, Lively
<1> QED
  BY <1>5, <1>11, <1>14, <1>15

(* It goes on without any code.                                            *)
LEMMA WorkedSame ==
  ASSUME NEW bs, NEW p, NEW s, NEW fr, NEW gen, NEW na, Situated(bs, p, s, fr, gen, na),
         Goes(Head(s)),
         NEW N, \A y \in N : y.do # "leave block" /\ Awaits(bs, y, fr, na) /\ Refs(y) = {},
         NEW s2, Nested(s2), Entries(s2) = N \union Entries(Tail(s))
  PROVE  Continued(bs, bs, p, {}, 0, p, s, N, s2, fr, na)
<1> DEFINE R == Entries(Tail(s))
<1>1. /\ na \in Nat /\ Penned(bs, p, Entries(s), fr, na) /\ Entries(s) = {Head(s)} \union R
      /\ Shape(bs) /\ p \in 1..Len(bs) /\ Len(bs) \in Nat
  BY ONLY Situated(bs, p, s, fr, gen, na), SituatedIs
<1>2. Effect(bs, bs, p, {}, {p, p}, 0)
  BY <1>1, EffectSame
<1>3. Beyond(bs, bs, bs[p].fn)
  BY <1>1, BeyondNone
<1>5. \A y \in N \union R : Awaits(bs, y, fr, na)
  BY <1>1 DEF Penned
<1> HIDE DEF R
<1>6. Accessible(bs, N \union R, fr, na, 0)
  BY <1>1, <1>5, AccessNone
<1>7. Worked(bs, bs, p, {}, 0, p, Head(s), R, N, fr, na)
  BY <1>1, <1>2, <1>3, <1>6 DEF Worked, Goes
<1> QED
  BY <1>7 DEF Continued, R

(* A declaration is pending.                                               *)
LEMMA NestedDeclare ==
  ASSUME NEW s, Nested(s), NEW n, NEW na \in Nat,
         NEW bs, NEW fr, \A y \in Entries(s) : Awaits(bs, y, fr, na),
         NEW x, x.do = "declare", x.var = na + 1
  PROVE  Nested(Cons(x, s)) /\ Entries(Cons(x, s)) = {x} \union Entries(s) /\ Refs(x) = {}
<1>1. IsSeq(s)
  BY NestedShaped
<1>2. Refs(x) = {} /\ Vars(x) = {na + 1}
  BY DEF Refs, Owed, Aims, Vars
<1>3. ASSUME NEW y \in Entries(s)
      PROVE  na + 1 \notin Vars(y)
  <2>1. na + 1 \notin 1..na
    OBVIOUS
  <2> QED
    BY <2>1 DEF Awaits
<1>4. Nests(x, Entries(s))
  BY <1>2, <1>3 DEF Nests
<1> QED
  BY <1>1, <1>2, <1>4, NestedCons, ConsEntries

LEMMA UnusedAwaits ==
  ASSUME NEW c, NEW v, NEW fr, Unused(c, v, fr[3].declarations_block, fr), NEW na, v \in 1..na,
         NEW x, Vars(x) = {v}
  PROVE  Awaits(c, x, fr, na)
BY DEF Unused, Awaits

LEMMA GenDeclAssignmentLives ==
  ASSUME IInv, WiredInv, LiveInv, GenDeclAssignment
  PROVE  LiveInv'
<1> DEFINE v == n_allocas + 1
           x == [do |-> "declare", name |-> T.name, var |-> v, has_value |-> T.kids # <<>>]
           g == IF T.kids = <<>> THEN <<>> ELSE <<Gen(Kid(1))>>
           rest == Tail(todo)
           N == Entries(g) \union {x}
           c == Allocated(blocks, DeclarationsBlock, v, T.name)
<1>1. /\ Generating("Let") /\ n_allocas' = v /\ blocks' = c /\ ip' = ip
      /\ todo' = (g \o <<x>>) \o rest
      /\ SameScope /\ UNCHANGED <<generated, errors>>
  BY DEF GenDeclAssignment, SameRest, SameNames, Go
<1>2. "Let" \in ExprNode \union StmtNode
  BY DEF StmtNode
<1>3. Runs /\ todo # <<>> /\ ~AtTop(Instr) /\ Goes(Instr) /\ IsSeq(rest)
  BY <1>1, <1>2, GenGoes, GeneratingIs
<1>4. x.do = "declare" /\ x.var = v
  OBVIOUS
<1>5. Bares(g)
  <2>1. Gen(Kid(1)).do \notin Busy
    BY DEF Gen, Busy
  <2> QED
    BY <2>1, BareIs, BareOne, BareNone
<1> HIDE DEF x, g
<1>14. Vars(x) = {v} /\ x.do # "leave block"
  BY <1>4 DEF Vars
<1> SUFFICES ASSUME errors' = 0
             PROVE  LiveInv'
  BY DEF LiveInv
<1>6. state = Len(frames) /\ Situated(blocks, ip, todo, frames, generated, n_allocas)
  BY <1>1, <1>3, Within0
<1>7. /\ Situated(c, ip, todo, frames, generated, v)
      /\ Unused(c, v, frames[3].declarations_block, frames) /\ v \in 1..v
  <2>1. DeclarationsBlock = frames[Len(frames)].declarations_block
    BY <1>6 DEF DeclarationsBlock
  <2> QED
    BY <1>6, <2>1, SituatedAlloca
<1>8. /\ Nested(rest) /\ n_allocas \in Nat /\ \A y \in Entries(rest) : Awaits(blocks, y, frames, n_allocas)
  BY <1>6, SituatedIs DEF Penned
<1>9. Nested(Cons(x, rest)) /\ Entries(Cons(x, rest)) = {x} \union Entries(rest) /\ Refs(x) = {}
  <2> HIDE DEF rest
  <2> QED
    BY <1>4, <1>8, NestedDeclare
<1>10. todo' = g \o Cons(x, rest)
  <2>1. IsSeq(rest) /\ IsSeq(g) /\ IsSeq(<<x>>)
    BY <1>3, <1>5, OneIs DEF Bares
  <2> HIDE DEF rest
  <2>2. (g \o <<x>>) \o rest = g \o (<<x>> \o rest)
    BY <2>1, JoinsIs
  <2>3. <<x>> \o rest = Cons(x, rest)
    BY <2>1, Tuple1
  <2> QED
    BY <1>1, <2>2, <2>3
<1> HIDE DEF c, v
<1>11. Nested(todo') /\ Entries(todo') = N \union Entries(rest)
  <2>1. IsSeq(Cons(x, rest))
    BY <1>9, NestedShaped
  <2>2. Nested(todo') /\ Entries(todo') = Entries(g) \union Entries(Cons(x, rest))
    <3> HIDE DEF rest
    <3> QED
      BY <1>5, <1>9, <1>10, <2>1, NestedJoin DEF Bares
  <2> QED
    BY <1>9, <2>2
<1>12. \A y \in N : y.do # "leave block" /\ Awaits(c, y, frames, v) /\ Refs(y) = {}
  <2>1. Awaits(c, x, frames, v)
    BY <1>7, <1>14, UnusedAwaits
  <2>2. \A y \in Entries(g) : Bare(y)
    BY <1>5 DEF Bares, Entries
  <2>3. \A y \in Entries(g) : y.do # "leave block" /\ Awaits(c, y, frames, v) /\ Refs(y) = {}
    BY <2>2, BareAwaits
  <2> QED
    BY <1>9, <1>14, <2>1, <2>3
<1> HIDE DEF N
<1>13. Continued(c, c, ip, {}, 0, ip, todo, N, todo', frames, v)
  <2>1. Goes(Head(todo))
    BY <1>3 DEF Instr
  <2> QED
    BY <1>7, <1>11, <1>12, <2>1, WorkedSame DEF rest
<1>15. Lively(c, ip, todo', frames, v, generated) /\ Inside(Entries(todo'))
  BY ONLY <1>7, <1>13, WorksOn
<1>16. Lively(blocks', ip', todo', frames', n_allocas', generated')
  BY <1>1, <1>15 DEF SameScope
<1> QED
  BY <1>15, <1>16, LivesInside

LEMMA IfTrueLives ==
  ASSUME IInv, WiredInv, LiveInv, IfTrue
  PROVE  LiveInv'
<1> DEFINE v == n_allocas + 1
           n == Len(blocks)
           b1 == n + 1
           b2 == n + 2
           b3 == n + 3
           j == CondBr(Top, b1, b2)
           y == Gen(Kid(2))
           x == [do |-> "if false", no |-> b2, post |-> b3, result |-> v]
           z == IF Len(T.kids) = 3 THEN Gen(Kid(3)) ELSE Then("no value")
           w == [do |-> "post if", post |-> b3, result |-> v]
           bs == Allocated(blocks, DeclarationsBlock, v, "if_result")
           rest == Tail(todo)
           c == blocks'
           no == FALSE
<1>1. Doing("if true") /\ "if true" \in PlainDos
  BY DEF IfTrue, PlainDos
<1>2. Runs /\ todo # <<>> /\ IsSeq(rest) /\ ~AtTop(Instr) /\ Goes(Instr) /\ n \in Nat /\ n_allocas \in Nat
  BY <1>1, DoingPlain, Facts DEF Plain, Goes
<1>3. CASE Top = Null
  <2>1. Crash("null operand")
    BY <1>3 DEF IfTrue
  <2> QED
    BY <2>1, CrashLives
<1>4. CASE Top # Null
  <2>1. /\ c = With(bs, ip, j) \o <<BasicBlock(Fn, TRUE), BasicBlock(Fn, no), BasicBlock(Fn, no)>>
        /\ ip' = b1 /\ n_allocas' = v /\ SameScope /\ UNCHANGED <<generated, errors>>
        /\ todo' = ((<<y, x>> \o (IF Len(T.kids) = 3 THEN <<Gen(Kid(3))>> ELSE <<Then("no value")>>))
                     \o <<w>>) \o rest
    BY <1>4 DEF IfTrue, Go, SameRest, SameNames, New
  <2>2. todo' = ((<<y, x>> \o <<z>>) \o <<w>>) \o rest
    BY <2>1
  <2>3. /\ x.do = "if false" /\ x.no = b2 /\ x.post = b3 /\ x.result = v
        /\ w.do = "post if" /\ w.post = b3 /\ w.result = v
    OBVIOUS
  <2>4. y.do \notin Busy /\ z.do \notin Busy
    BY DEF Gen, Then, Busy
  <2>5. todo' = Cons(y, Cons(x, Cons(z, Cons(w, rest))))
    <3>1. IsSeq(rest)
      BY <1>2
    <3> HIDE DEF y, x, z, w, rest
    <3>2. ((<<y, x>> \o <<z>>) \o <<w>>) \o rest = Cons(y, Cons(x, Cons(z, Cons(w, rest))))
      BY ONLY <3>1, TwoOneOne
    <3> QED
      BY ONLY <2>2, <3>2
  <2>6. IsTerminator(j) /\ \A t \in ToSet(j.to) : t > n
    <3>1. b1 > n /\ b2 > n
      BY <1>2
    <3> QED
      BY <3>1, TwoTargets
  <2> SUFFICES ASSUME errors' = 0
               PROVE  LiveInv'
    BY DEF LiveInv
  <2>7. state = Len(frames) /\ Situated(blocks, ip, todo, frames, generated, n_allocas)
    BY <1>2, <2>1, Within0
  <2> HIDE DEF x, y, z, w, j, no
  <2>8. /\ Situated(bs, ip, todo, frames, generated, v) /\ Len(bs) = n /\ bs[ip].fn = Fn
        /\ Unused(bs, v, frames[3].declarations_block, frames) /\ v \in 1..v
    <3>1. DeclarationsBlock = frames[Len(frames)].declarations_block
      BY <2>7 DEF DeclarationsBlock
    <3> DEFINE d == DeclarationsBlock
    <3>2. d = frames[Len(frames)].declarations_block
      BY <3>1
    <3>3. bs = Allocated(blocks, d, n_allocas + 1, "if_result")
      OBVIOUS
    <3>6. Situated(blocks, ip, todo, frames, generated, n_allocas)
      BY <2>7
    <3> HIDE DEF d, bs, v, n, c, rest, b1, b2, b3
    <3>4. /\ Situated(bs, ip, todo, frames, generated, n_allocas + 1)
          /\ Unused(bs, n_allocas + 1, frames[3].declarations_block, frames)
          /\ Len(bs) = Len(blocks) /\ bs[ip].fn = blocks[ip].fn /\ n_allocas + 1 \in 1..(n_allocas + 1)
      BY ONLY <3>6, <3>2, <3>3, SituatedAlloca
    <3> QED
      BY <3>4 DEF Fn, v, n
  <2>9. Lower(Entries(rest), n, n_allocas)
    BY <2>7, LowerIs
  <2>10. Refs(x) = {b2, b3} /\ Refs(w) = {b3} /\ Vars(x) = {v} /\ Vars(w) = {v}
    <3>1. Refs(x) = {b2, b3} /\ Refs(w) = {b3}
      BY <2>3, IfFalseOwes, PostIfOwes DEF Refs
    <3> QED
      BY <2>3, <3>1 DEF Vars
  <2>11. b2 > n /\ b2 \in Nat /\ b3 > n /\ b3 \in Nat /\ v > n_allocas /\ v \in Nat
    BY <1>2
  <2> HIDE DEF b1, b2, b3, v
  <2>12. \A k \in {y, x, z, w} : Higher(k, n, n_allocas) /\ Awaits(bs, k, frames, v)
    <3>1. Higher(x, n, n_allocas) /\ Higher(w, n, n_allocas)
      BY <2>3, <2>10, <2>11 DEF Higher
    <3>2. Higher(y, n, n_allocas) /\ Higher(z, n, n_allocas) /\ Vars(y) = {} /\ Vars(z) = {}
      BY <2>4, BareHigher DEF Bare
    <3>3. Awaits(bs, x, frames, v) /\ Awaits(bs, w, frames, v)
      BY <2>8, <2>10, UnusedAwaits
    <3>4. Awaits(bs, y, frames, v) /\ Awaits(bs, z, frames, v)
      BY <3>2, NoVars
    <3> QED
      BY <3>1, <3>2, <3>3, <3>4
  <2>13. Creating(bs, ip, j, no, no, c)
    BY <2>1, <2>8 DEF Creating
  <2> HIDE DEF bs, n, c
  <2> DEFINE A == ToSet(j.to)
             N == {y, x, z, w}
             t == Cons(y, Cons(x, Cons(z, Cons(w, rest))))
  <2>14. Continued(bs, c, ip, A, 0, n + 1, todo, N, t, frames, v)
    <3>1. Goes(Head(todo)) /\ n_allocas \in Nat
      BY <1>2 DEF Instr
    <3>2. \A k \in {y, x, z, w} : Higher(k, Len(bs), n_allocas) /\ Awaits(bs, k, frames, v)
      BY <2>8, <2>12
    <3>3. \A k \in ToSet(j.to) : k > Len(bs)
      BY <2>6, <2>8
    <3>4. Lower(Entries(Tail(todo)), Len(bs), n_allocas)
      BY <2>8, <2>9
    <3>5. Continued(bs, c, ip, ToSet(j.to), 0, Len(bs) + 1, todo, {y, x, z, w},
                    Cons(y, Cons(x, Cons(z, Cons(w, Tail(todo))))), frames, v)
      BY <2>6, <2>8, <2>13, <3>1, <3>2, <3>3, <3>4, WorkedWeave
    <3> QED
      BY <2>8, <3>5
  <2> HIDE DEF A, N, t
  <2>15. Lively(c, n + 1, t, frames, v, generated) /\ Inside(Entries(t))
    BY ONLY <2>8, <2>14, WorksOn
  <2>16. Lively(blocks', ip', todo', frames', n_allocas', generated') /\ Inside(Entries(todo'))
    BY <2>1, <2>5, <2>15 DEF SameScope, t, c, b1
  <2> QED
    BY <2>16, LivesInside
<1> QED
  BY <1>3, <1>4

(* A block is entered.                                                     *)
LEMMA RefsRanged ==
  ASSUME NEW bs, NEW p, NEW s, NEW fr, NEW gen, InFunction(bs, p, s, fr, gen), NEW y \in Entries(s)
  PROVE  \A r \in Refs(y) : r \in 1..Len(bs)
<1>1. Sound(bs, bs[p].fn, s)
  BY DEF InFunction
<1>2. PICK k \in 1..Len(s) : y = s[k]
  BY DEF Entries
<1>3. Fits(bs, bs[p].fn, y, After(s, k))
  BY <1>1, <1>2 DEF Sound
<1> QED
  BY <1>3 DEF Fits, Refs

(* The step into a block, from p to the first basic block of its code.     *)
Enterings(bs, p, s, fr, y, fr2, c) ==
  /\ Goes(Head(s)) /\ Len(c) = Len(bs) + 3 /\ Beyond(bs, c, bs[p].fn)
  /\ Effect(bs, c, p, {Len(bs) + 1}, {p}, 0)
  /\ y.do = "leave block" /\ y.begin = Len(bs) + 1 /\ y.entry = Len(bs) + 2
  /\ y.end = Len(bs) + 3 /\ y.old = Len(fr) /\ Len(fr) >= 3
  /\ Len(fr2) = Len(fr) + 1 /\ (\A j \in 1..Len(fr) : fr2[j] = fr[j])
  /\ Owns(fr2[Len(fr) + 1]) = {}

LEMMA NestsLeave ==
  ASSUME NEW bs, NEW p, NEW s, NEW fr, NEW gen, NEW na, Situated(bs, p, s, fr, gen, na),
         NEW y, NEW fr2, NEW c, Enterings(bs, p, s, fr, y, fr2, c)
  PROVE  Nested(Cons(y, Tail(s))) /\ Entries(Cons(y, Tail(s))) = {y} \union Entries(Tail(s))
<1> DEFINE R == Entries(Tail(s))
           l == Len(bs)
<1>1. /\ InFunction(bs, p, s, fr, gen) /\ Penned(bs, p, Entries(s), fr, na) /\ na \in Nat
      /\ Entries(s) = {Head(s)} \union R /\ IsSeq(Tail(s)) /\ Nested(Tail(s))
      /\ l \in Nat /\ Len(fr) \in Nat
  BY SituatedIs
<1>11. /\ y.do = "leave block" /\ y.begin = Len(bs) + 1 /\ y.entry = Len(bs) + 2
       /\ y.end = Len(bs) + 3 /\ y.old = Len(fr)
  BY DEF Enterings
<1>2. Refs(y) = {l + 1, l + 2, l + 3} /\ Vars(y) = {}
  BY <1>11, LeaveBlockOwes DEF Refs, Vars
<1>3. Lower(R, l, na)
  BY LowerIs
<1>4. \A x \in R : \A r \in Refs(x) : r \in 1..l
  BY <1>1, RefsRanged
<1>5. \A x \in R : x.do = "leave block" => x.old < Len(fr)
  BY <1>1 DEF Penned, Opened
<1> HIDE DEF R, l
<1>6. \A x \in R : x.do = "leave block" => \A b \in Refs(y) : b > x.end
  <2>1. \A x \in R : x.do = "leave block" => x.end \in Nat /\ x.end <= l
    BY <1>3 DEF Lower
  <2>2. \A e \in Nat : e <= l => \A b \in {l + 1, l + 2, l + 3} : b > e
    <3>1. l \in Nat
      BY <1>1
    <3> QED
      BY ONLY <3>1
  <2> QED
    BY <1>2, <2>1, <2>2
<1>7. y.begin \in Nat /\ y.entry = y.begin + 1 /\ y.end = y.begin + 2 /\ y.old \in Nat
  <2>1. y.begin = l + 1 /\ y.entry = l + 2 /\ y.end = l + 3 /\ y.old = Len(fr)
    BY <1>11 DEF l
  <2>2. l \in Nat /\ Len(fr) \in Nat
    BY <1>1
  <2> QED
    BY ONLY <2>1, <2>2
<1>8. \A x \in R : \A b \in Refs(x) : b < y.begin
  <2>1. y.begin = l + 1 /\ \A b \in 1..l : b < l + 1
    <3>1. l \in Nat
      BY <1>1
    <3>2. \A b \in 1..l : b < l + 1
      BY ONLY <3>1
    <3> QED
      BY <1>11, <3>2 DEF l
  <2> QED
    BY <1>4, <2>1
<1>9. Nests(y, R)
  <2>1. y.old = Len(fr)
    BY <1>11
  <2>2. \A x \in R : x.do = "leave block" => x.old < y.old
    BY <1>5, <2>1
  <2> QED
    BY <1>2, <1>6, <1>7, <1>8, <1>11, <2>2 DEF Nests
<1>10. Entries(Cons(y, Tail(s))) = {y} \union R
  BY <1>1, ConsEntries DEF R
<1> QED
  BY <1>1, <1>9, <1>10, NestedCons DEF R

LEMMA EnteringEntered ==
  ASSUME NEW bs, NEW p, NEW s, NEW fr, NEW gen, NEW na, Situated(bs, p, s, fr, gen, na),
         NEW y, NEW fr2, NEW c, Enterings(bs, p, s, fr, y, fr2, c)
  PROVE  Entered(c, Len(bs) + 2, y, fr, fr2)
<1> DEFINE l == Len(bs)
           f == bs[p].fn
           d == fr[3].declarations_block
<1>1. /\ l \in Nat /\ Len(fr) \in Nat /\ InFunction(bs, p, s, fr, gen)
      /\ Penned(bs, p, Entries(s), fr, na)
  BY SituatedIs
<1>2. /\ Len(c) = l + 3 /\ Effect(bs, c, p, {l + 1}, {p}, 0) /\ y.begin = l + 1 /\ Beyond(bs, c, f)
      /\ y.do = "leave block" /\ y.old = Len(fr) /\ Len(fr) >= 3 /\ Len(fr2) = Len(fr) + 1
      /\ (\A j \in 1..Len(fr) : fr2[j] = fr[j]) /\ Owns(fr2[Len(fr) + 1]) = {}
  BY DEF Enterings
<1>3. d \in 1..l
  BY <1>1 DEF Penned, Prelude, IsFirst
<1>4. Ranged(bs)
  BY <1>1, InsideIs
<1> HIDE DEF l, f, d
<1>5. l + 1 \in (l + 1)..(l + 3) /\ l + 2 \in (l + 1)..(l + 3) /\ l + 1 \in Nat \ {0}
      /\ l + 2 = (l + 1) + 1 /\ l + 3 = (l + 1) + 2 /\ l + 2 # l + 1 /\ l + 2 \notin 1..l
      /\ \A k \in 1..l : k < l + 1
  BY ONLY <1>1
<1>6. c[l + 1].fn = f /\ c[l + 2].fn = f
  BY <1>2, <1>5 DEF Beyond, l
<1>7. \A k \in 1..Len(c) : l + 2 \notin Targets(Code0(c, k))
  <2>1. \A k \in 1..l : \A t \in Targets(Code0(bs, k)) : t \in 1..l
    BY <1>4 DEF Ranged, l
  <2>2. \A k \in 1..Len(c) : \A t \in Targets(Code0(c, k)) :
          (k \in 1..l /\ t \in Targets(Code0(bs, k))) \/ t \in {l + 1}
    BY <1>2 DEF Effect, JumpsOnly, l
  <2> QED
    BY <1>5, <2>1, <2>2
<1>8. l + 2 = Len(bs) + 2 /\ d = fr[3].declarations_block
  BY DEF l, d
<1> QED
  BY <1>1, <1>2, <1>3, <1>5, <1>6, <1>7, <1>8 DEF Entered

LEMMA EnteringLives ==
  ASSUME NEW bs, NEW p, NEW s, NEW fr, NEW gen, NEW na, Situated(bs, p, s, fr, gen, na),
         NEW y, NEW fr2, NEW c, Enterings(bs, p, s, fr, y, fr2, c),
         NEW A, A = {}, NEW q, q = Len(bs) + 2,
         Continued(bs, c, p, {Len(bs) + 1}, 0, q, s, A, Tail(s), fr, na)
  PROVE  /\ Lively(c, q, Cons(y, Tail(s)), fr2, na, gen)
         /\ Inside(Entries(Cons(y, Tail(s)))) /\ IsSeq(Cons(y, Tail(s)))
<1> DEFINE R == Entries(Tail(s))
           P2 == {y} \union R
           B == {Len(bs) + 1}
<1>1. /\ Lively(c, q, Tail(s), fr, na, gen) /\ Inside(R)
  BY ONLY Situated(bs, p, s, fr, gen, na), Continued(bs, c, p, {Len(bs) + 1}, 0, q, s, A, Tail(s), fr, na),
          WorksOn
<1>2. Nested(Tail(s)) /\ Outermost(fr) /\ Sited(c, na, gen) /\ Penned(c, q, R, fr, na)
  BY <1>1 DEF Lively
<1>3. Nested(Cons(y, Tail(s))) /\ Entries(Cons(y, Tail(s))) = P2
  <2>2. Nested(Cons(y, Tail(s))) /\ Entries(Cons(y, Tail(s))) = {y} \union Entries(Tail(s))
    BY ONLY Situated(bs, p, s, fr, gen, na), Enterings(bs, p, s, fr, y, fr2, c), NestsLeave
  <2> QED
    BY <2>2
<1>4. Entered(c, q, y, fr, fr2)
  BY EnteringEntered
<1>5. /\ InFunction(bs, p, s, fr, gen) /\ Penned(bs, p, Entries(s), fr, na) /\ na \in Nat
      /\ Len(bs) \in Nat /\ Len(fr) \in Nat /\ Entries(s) = {Head(s)} \union R
  BY SituatedIs
<1>6. Effect(bs, c, p, B, {p}, 0) /\ Goes(Head(s))
  BY DEF Enterings
<1>7. \A x \in P2 : \A r \in Refs(x) : From(bs, p, Entries(s), r)
  <2>1. Refs(y) = {Len(bs) + 1, Len(bs) + 2, Len(bs) + 3}
    <3>1. /\ y.do = "leave block" /\ y.begin = Len(bs) + 1 /\ y.entry = Len(bs) + 2
          /\ y.end = Len(bs) + 3
      BY DEF Enterings
    <3> QED
      BY ONLY <3>1, LeaveBlockOwes DEF Refs
  <2>2. \A r \in {Len(bs) + 1, Len(bs) + 2, Len(bs) + 3} : r > Len(bs)
    <3>1. Len(bs) \in Nat
      BY <1>5
    <3> QED
      BY ONLY <3>1
  <2>3. \A x \in R : \A r \in Refs(x) : From(bs, p, Entries(s), r)
    BY <1>5 DEF From
  <2> QED
    BY <2>1, <2>2, <2>3 DEF From
<1>8. From(bs, p, Entries(s), q) /\ \A t \in B : From(bs, p, Entries(s), t)
  <2>1. Len(bs) + 2 > Len(bs) /\ Len(bs) + 1 > Len(bs)
    <3>1. Len(bs) \in Nat
      BY <1>5
    <3> QED
      BY ONLY <3>1
  <2> QED
    BY <2>1 DEF From
<1> HIDE DEF B, P2
<1>9. ASSUME NEW v \in 1..na
      PROVE  Marked(c, "start", v) = {} \/ Owned(R, fr, v) \/ Gone(c, q, P2, v)
  <2>1. Lives(bs, p, Entries(s), fr, v)
    BY <1>5 DEF Penned
  <2>2. Marked(c, "start", v) = Marked(bs, "start", v)
    BY <1>6 DEF Effect, SameMarks
  <2>3. Owned(Entries(s), fr, v) => Owned(R, fr, v)
    BY <1>5, <1>6 DEF Owned, Goes
  <2>4. v # 0
    <3>1. v \in 1..na /\ na \in Nat
      BY <1>5, <1>9
    <3> QED
      BY ONLY <3>1
  <2>5. ASSUME Gone(bs, p, Entries(s), v)
        PROVE  Gone(c, q, P2, v)
    BY ONLY <1>6, <1>7, <1>8, <2>4, <2>5, GoneOn
  <2> QED
    BY <2>1, <2>2, <2>3, <2>5 DEF Lives
<1>10. Shaped(R)
  BY <1>2, NestedShaped
<1>11. P2 = {y} \union R
  BY DEF P2
<1>12. Penned(c, q, P2, fr2, na)
  BY ONLY <1>2, <1>4, <1>9, <1>10, <1>11, PennedEnter
<1>13. Outermost(fr2)
  <2>1. Len(fr2) = Len(fr) + 1 /\ (\A j \in 1..Len(fr) : fr2[j] = fr[j]) /\ Len(fr) >= 3
    BY DEF Enterings
  <2>2. \A j \in 1..Len(fr2) : j <= 2 => j \in 1..Len(fr)
    <3>1. Len(fr) \in Nat
      BY <1>5
    <3> QED
      BY ONLY <2>1, <3>1
  <2> QED
    BY <1>2, <2>1, <2>2 DEF Outermost
<1>14. Inside(P2)
  BY <1>1, <1>11 DEF Inside
<1> QED
  BY <1>2, <1>3, <1>12, <1>13, <1>14, NestedShaped DEF Lively

(* Bare instructions in front.                                             *)
LEMMA LivelyBares ==
  ASSUME NEW bs, NEW p, NEW s, NEW fr, NEW na, NEW gen, Lively(bs, p, s, fr, na, gen),
         Inside(Entries(s)), NEW b, Bares(b)
  PROVE  /\ Lively(bs, p, b \o s, fr, na, gen) /\ Inside(Entries(b \o s))
<1>1. Nested(s) /\ Outermost(fr) /\ Sited(bs, na, gen) /\ Penned(bs, p, Entries(s), fr, na)
  BY DEF Lively
<1>2. IsSeq(s)
  BY <1>1, NestedShaped
<1>3. Nested(b \o s) /\ Entries(b \o s) = Entries(b) \union Entries(s)
  BY <1>1, <1>2, NestedJoin DEF Bares
<1>4. \A x \in Entries(b) : Bare(x)
  BY DEF Bares, Entries
<1>5. Bared(Entries(s), Entries(b \o s))
  BY <1>3, <1>4 DEF Bared
<1>6. Penned(bs, p, Entries(b \o s), fr, na)
  BY <1>1, <1>5, PennedBare
<1>7. Inside(Entries(b \o s))
  BY <1>3 DEF Inside
<1> QED
  BY <1>1, <1>3, <1>6, <1>7 DEF Lively

(* The end of the block that is entered, and the frame it has.             *)
Leaver(y, n, i) ==
  /\ y.do = "leave block" /\ y.begin = n + 1 /\ y.entry = n + 2 /\ y.end = n + 3 /\ y.old = i
Deeper(fr, fr2) ==
  /\ Len(fr2) = Len(fr) + 1 /\ \A j \in 1..Len(fr) : fr2[j] = fr[j]
  /\ Owns(fr2[Len(fr) + 1]) = {}

LEMMA EnteringIs ==
  ASSUME NEW bs, NEW p, NEW s, NEW fr, NEW gen, NEW na, Situated(bs, p, s, fr, gen, na),
         Goes(Head(s)), NEW i2, NEW i3, NEW c, Creating(bs, p, Br(Len(bs) + 1), i2, i3, c),
         NEW y, Leaver(y, Len(bs), Len(fr)), NEW fr2, Deeper(fr, fr2), NEW u, u = Cons(y, Tail(s))
  PROVE  Lively(c, Len(bs) + 2, u, fr2, na, gen) /\ Inside(Entries(u)) /\ IsSeq(u)
<1> DEFINE j == Br(Len(bs) + 1)
           A == {Len(bs) + 1}
           N == {}
           q == Len(bs) + 2
           t == Tail(s)
<1>1. /\ InFunction(bs, p, s, fr, gen) /\ Len(fr) \in Nat /\ Nested(t) /\ Shape(bs)
      /\ p \in 1..Len(bs) /\ Len(bs) \in Nat
  BY SituatedIs
<1>2. IsTerminator(j) /\ \A k \in ToSet(j.to) : k \in A
  BY OneTarget
<1>3. \A k \in A : k > Len(bs)
  <2>1. Len(bs) + 1 > Len(bs)
    <3>1. Len(bs) \in Nat
      BY <1>1
    <3> QED
      BY ONLY <3>1
  <2> QED
    BY <2>1
<1>4. Len(fr) >= 3
  BY <1>1, FirstFrames
<1>5. Creating(bs, p, j, i2, i3, c)
  OBVIOUS
<1>6. \A x \in N : /\ x.do # "leave block" /\ Awaits(bs, x, fr, na)
                   /\ \A r \in Refs(x) : r > Len(bs)
  OBVIOUS
<1>7. Entries(t) = N \union Entries(Tail(s)) /\ (q = Len(bs) + 1 \/ q = Len(bs) + 2)
  OBVIOUS
<1>8. N = {} /\ q = Len(bs) + 2 /\ A = {Len(bs) + 1} /\ t = Tail(s)
  OBVIOUS
<1> HIDE DEF j, A, N, q, t
<1>9. Continued(bs, c, p, A, 0, q, s, N, t, fr, na)
  BY ONLY Situated(bs, p, s, fr, gen, na), Goes(Head(s)), <1>1, <1>2, <1>3, <1>5, <1>6, <1>7, WorkedCreates
<1>10. Effect(bs, c, p, A, {p}, 0) /\ Len(c) = Len(bs) + 3 /\ Beyond(bs, c, bs[p].fn)
  <2> DEFINE Q == {p}
  <2>1. p \in Q
    OBVIOUS
  <2> HIDE DEF Q
  <2>2. Effect(bs, c, p, A, Q, 0) /\ Len(c) = Len(bs) + 3 /\ Beyond(bs, c, bs[p].fn)
    BY ONLY <1>1, <1>2, <1>5, <2>1, CreatesEffect
  <2> QED
    BY <2>2 DEF Q
<1>11. Enterings(bs, p, s, fr, y, fr2, c)
  BY <1>4, <1>8, <1>10 DEF Enterings, Leaver, Deeper
<1>12. Continued(bs, c, p, {Len(bs) + 1}, 0, q, s, N, Tail(s), fr, na)
  BY <1>8, <1>9
<1>13. /\ Lively(c, q, Cons(y, Tail(s)), fr2, na, gen)
       /\ Inside(Entries(Cons(y, Tail(s)))) /\ IsSeq(Cons(y, Tail(s)))
  BY ONLY Situated(bs, p, s, fr, gen, na), <1>8, <1>11, <1>12, EnteringLives
<1> QED
  BY <1>8, <1>13

LEMMA EnterBlockLives ==
  ASSUME IInv, WiredInv, LiveInv, EnterBlock
  PROVE  LiveInv'
<1> DEFINE l == Len(blocks)
           j == Br(l + 1)
           frame == Len(frames) + 1
           r == Frame(Named, DeclarationsBlock)
           result == IF T.result = <<>> THEN <<Then("no value")>>
                     ELSE <<Gen(T.result[1]), Catch("result", frame)>>
           t == TryEach(T.kids)
           x == [do |-> "leave block", begin |-> l + 1, entry |-> l + 2, end |-> l + 3,
                 old |-> state]
           rest == Tail(todo)
           c == blocks'
           fr == frames'
           yes == TRUE
           no == FALSE
           b == <<t>> \o result
<1>1. /\ Generating("Block")
      /\ c = With(blocks, ip, j) \o <<BasicBlock(Fn, yes), BasicBlock(Fn, yes), BasicBlock(Fn, no)>>
      /\ ip' = l + 2 /\ fr = Append(frames, r) /\ state' = frame
      /\ todo' = ((<<t>> \o result) \o <<x>>) \o rest
      /\ UNCHANGED <<generated, errors, n_allocas>>
  BY DEF EnterBlock, Go, SameRest, SameNames, New
<1>2. "Block" \in ExprNode \union StmtNode
  BY DEF ExprNode
<1>3. Runs /\ todo # <<>> /\ ~AtTop(Instr) /\ Goes(Head(todo)) /\ IsSeq(rest)
  BY <1>1, <1>2, GenGoes, GeneratingIs DEF Instr
<1> SUFFICES ASSUME errors' = 0
             PROVE  LiveInv'
  BY DEF LiveInv
<1>4. state = Len(frames) /\ Situated(blocks, ip, todo, frames, generated, n_allocas)
  BY <1>1, <1>3, Within0
<1>5. Len(fr) = Len(frames) + 1 /\ (\A k \in 1..Len(frames) : fr[k] = frames[k])
        /\ fr[Len(frames) + 1] = r /\ Len(frames) \in Nat
  <2> DEFINE S == Scope(n_allocas)
  <2>1. frames \in Seq(S) /\ Len(frames) \in Nat
    BY Facts DEF Scoped
  <2> HIDE DEF S, r, fr
  <2>2. IsSeq(frames)
    BY <2>1, SeqIs
  <2>3. fr = Append(frames, r)
    BY <1>1
  <2> QED
    BY ONLY <2>1, <2>2, <2>3, AppendIs
<1>6. Owns(fr[Len(frames) + 1]) = {}
  <2>1. r.own = <<>>
    BY DEF Frame
  <2>2. Owns(r) = {}
    BY <2>1 DEF Owns
  <2> HIDE DEF r, fr
  <2> QED
    BY <1>5, <2>2
<1>7. Creating(blocks, ip, Br(Len(blocks) + 1), yes, no, c)
  BY <1>1 DEF Creating, Fn
<1>8. Leaver(x, Len(blocks), Len(frames)) /\ Deeper(frames, fr)
  <2>1. Leaver(x, Len(blocks), Len(frames))
    BY <1>4 DEF Leaver
  <2> HIDE DEF fr, r
  <2> QED
    BY <1>5, <1>6, <2>1 DEF Deeper
<1>9. Bares(b) /\ IsSeq(b)
  <2>1. t.do \notin Busy
    BY DEF TryEach, Busy
  <2>2. Bares(result)
    <3>1. CASE T.result = <<>>
      <4>1. Then("no value").do \notin Busy
        BY DEF Then, Busy
      <4> QED
        BY <3>1, <4>1, BareIs, BareOne
    <3>2. CASE T.result # <<>>
      <4>1. Gen(T.result[1]).do \notin Busy /\ Catch("result", frame).do \notin Busy
        BY DEF Gen, Catch, Busy
      <4> QED
        BY <3>2, <4>1, BareIs, BareTwo
    <3> QED
      BY <3>1, <3>2
  <2> HIDE DEF t, result
  <2>3. Bares(<<t>>)
    BY <2>1, BareIs, BareOne
  <2>4. Bares(<<t>> \o result)
    BY <2>2, <2>3, BareJoin
  <2> QED
    BY <2>4 DEF Bares
<1>10. IsSeq(<<x>>) /\ <<x>> \o rest = Cons(x, rest)
  <2> HIDE DEF x, rest
  <2> QED
    BY ONLY <1>3, Tuple1
<1>11. todo' = b \o Cons(x, rest)
  <2>1. todo' = (b \o <<x>>) \o rest
    BY <1>1
  <2> HIDE DEF b, x, rest
  <2>2. (b \o <<x>>) \o rest = b \o (<<x>> \o rest)
    BY ONLY <1>3, <1>9, <1>10, JoinsIs
  <2> QED
    BY <1>10, <2>1, <2>2
<1>12. /\ Lively(c, Len(blocks) + 2, Cons(x, rest), fr, n_allocas, generated)
       /\ Inside(Entries(Cons(x, rest)))
  <2>1. Len(fr) = Len(frames) + 1 /\ \A k \in 1..Len(frames) : fr[k] = frames[k]
    BY <1>5
  <2>2. Goes(Head(todo)) /\ Situated(blocks, ip, todo, frames, generated, n_allocas)
    BY <1>3, <1>4
  <2> HIDE DEF x, c, fr, yes, no, l, rest
  <2> DEFINE u == Cons(x, rest)
  <2>4. u = Cons(x, Tail(todo))
    BY DEF rest
  <2> HIDE DEF u, b
  <2>3. Lively(c, Len(blocks) + 2, u, fr, n_allocas, generated) /\ Inside(Entries(u))
    BY ONLY <1>7, <1>8, <2>2, <2>4, EnteringIs
  <2> QED
    BY <2>3 DEF u
<1> DEFINE u == Cons(x, rest)
<1>13. Lively(blocks', ip', todo', frames', n_allocas', generated') /\ Inside(Entries(todo'))
  <2>1. Lively(c, ip', u, fr, n_allocas', generated') /\ Inside(Entries(u))
    BY <1>1, <1>12
  <2>2. todo' = b \o u
    BY <1>11
  <2> HIDE DEF u, b, c, fr
  <2>3. /\ Lively(c, ip', b \o u, fr, n_allocas', generated') /\ Inside(Entries(b \o u))
    BY ONLY <1>9, <2>1, LivelyBares
  <2> QED
    BY <2>2, <2>3 DEF c, fr
<1> QED
  BY <1>13, LivesInside

(* Basic blocks that are there are linked: k goes on to A.                 *)
Links(bs, c, k, A) ==
  /\ Effect(bs, c, k, A, {k}, 0) /\ Len(c) = Len(bs)
  /\ SameMarks(bs, c, "load") /\ SameMarks(bs, c, "store")
Linking(bs, c, k, A, p, P, fr) ==
  /\ Links(bs, c, k, A) /\ Ranged(bs) /\ k # fr[3].declarations_block
  /\ k \in 1..Len(bs) /\ bs[k].fn = bs[p].fn
  /\ \A y \in P : y.do = "leave block" => k \in Region(y.begin, Len(bs)) \/ k = y.begin
  /\ \A t \in A : \E x \in P : t \in Refs(x)

LEMMA LinksAdd ==
  ASSUME NEW bs, NEW c, NEW k, NEW j, AddsOne(bs, c, k, j), IsTerminator(j), NEW A,
         \A t \in ToSet(j.to) : t \in A
  PROVE  Links(bs, c, k, A)
<1>1. j.op \notin {"start", "end", "alloca", "poison", "load", "store"}
  BY DEF IsTerminator, Terminators
<1>2. SameMarks(bs, c, "load") /\ SameMarks(bs, c, "store")
  <2>1. j.op # "load" /\ j.op # "store"
    BY <1>1
  <2> QED
    BY ONLY AddsOne(bs, c, k, j), <2>1, MarksOther
<1>3. Effect(bs, c, k, A, {k}, 0)
  <2> DEFINE Q == {k}
  <2>1. k \in Q
    OBVIOUS
  <2>2. j.op \notin {"start", "end", "alloca", "poison"} /\ (j.op \in {"load", "store"} => j.var = 0)
    BY <1>1
  <2> HIDE DEF Q
  <2>3. Effect(bs, c, k, A, Q, 0)
    BY ONLY <2>1, <2>2, AddsOne(bs, c, k, j), \A t \in ToSet(j.to) : t \in A, EffectOne
  <2> QED
    BY <2>3 DEF Q
<1>4. Len(c) = Len(bs)
  BY DEF AddsOne, Adds
<1> QED
  BY <1>2, <1>3, <1>4 DEF Links

LEMMA LinksInsert ==
  ASSUME NEW bs, Shape(bs), NEW b \in 1..Len(bs), NEW k, NEW A
  PROVE  Links(bs, Inserted(bs, b), k, A)
<1> DEFINE c == Inserted(bs, b)
<1>1. Len(c) = Len(bs) /\ \A i \in 1..Len(bs) : Code0(c, i) = Code0(bs, i)
  BY InsertedIs
<1>2. Effect(bs, c, k, A, {k}, 0)
  BY EffectInserted
<1> HIDE DEF c
<1>3. \A op, v : Marked(c, op, v) = Marked(bs, op, v)
  BY <1>1 DEF Marked
<1> QED
  BY <1>1, <1>2, <1>3 DEF Links, SameMarks, c

LEMMA PennedLink ==
  ASSUME NEW bs, NEW c, NEW k, NEW A, NEW p, NEW P, NEW fr, NEW na \in Nat,
         Linking(bs, c, k, A, p, P, fr), Penned(bs, p, P, fr, na), p \in 1..Len(bs)
  PROVE  Penned(c, p, P, fr, na)
<1> DEFINE d == fr[3].declarations_block
           Q == {k}
           u == 0
<1>0. Effect(bs, c, k, A, Q, u)
  BY DEF Linking, Links
<1>1. /\ Ranged(bs) /\ Len(c) = Len(bs) /\ k # d
      /\ SameMarks(bs, c, "load") /\ SameMarks(bs, c, "store")
      /\ k \in 1..Len(bs) /\ bs[k].fn = bs[p].fn
      /\ \A y \in P : y.do = "leave block" => k \in Region(y.begin, Len(bs)) \/ k = y.begin
      /\ \A t \in A : \E x \in P : t \in Refs(x)
  BY DEF Linking, Links
<1>2. /\ Prelude(bs, p, d) /\ Scopes(bs, P, fr, na)
      /\ \A y \in P : y.do = "leave block" => Opened(bs, p, y, fr)
      /\ \A x \in P : Awaits(bs, x, fr, na)
      /\ \A v \in 1..na : Lives(bs, p, P, fr, v)
  BY DEF Penned
<1>3. \A i \in 1..Len(bs) : i \in 1..Len(c) /\ c[i].fn = bs[i].fn
  <2> HIDE DEF d, Q, u
  <2>1. \A i \in 1..Len(bs) : i \in 1..Len(c) /\ c[i].fn = bs[i].fn
    BY ONLY <1>0, EffectIs
  <2> QED
    BY <2>1
<1>4. Spared(bs, c, Q, d)
  <2>1. IsFirst(bs, d) /\ bs[d].fn = bs[p].fn
    BY <1>2 DEF Prelude
  <2> QED
    BY <1>1, <1>3, <2>1 DEF Spared
<1>5. Len(bs) \in Nat
  <2> HIDE DEF d, Q, u
  <2>1. Len(bs) \in Nat
    BY ONLY <1>0, EffectIs
  <2> QED
    BY <2>1
<1>10. SameMarks(bs, c, "start") /\ SameMarks(bs, c, "end")
  BY <1>0 DEF Effect
<1>11. \A v : Accessors(c, v) = Accessors(bs, v)
  BY <1>1 DEF Accessors, SameMarks
<1>12. From(bs, p, P, p) /\ (\A t \in A : From(bs, p, P, t))
       /\ \A x \in P : \A r \in Refs(x) : From(bs, p, P, r)
  BY <1>1 DEF From
<1> HIDE DEF d, Q, u
<1>6. Prelude(c, p, d)
  <2>1. IsFirst(bs, d) /\ Stops(Code0(bs, d)) = {} /\ bs[d].fn = bs[p].fn /\ d # p
    BY <1>2 DEF Prelude
  <2>2. IsFirst(c, d) /\ c[d].fn = bs[d].fn
    BY ONLY <1>0, <2>1, FirstOn
  <2>3. Code0(c, d) = Code0(bs, d)
    BY ONLY <1>0, <1>4, <2>1, FirstSpared
  <2> QED
    BY <1>3, <2>1, <2>2, <2>3 DEF Prelude
<1>7. ASSUME NEW y \in P, y.do = "leave block"
      PROVE  Opened(c, p, y, fr)
  <2>1. Opened(bs, p, y, fr)
    BY <1>2, <1>7
  <2>2. /\ y.old < Len(fr) /\ d < y.begin /\ p \in Region(y.begin, Len(bs))
        /\ Walled(bs, y.begin, Len(bs))
        /\ \A v \in Owns(fr[y.old + 1]) :
             Held(bs, v, y.begin, Len(bs)) /\ Marked(bs, "end", v) = {}
    BY <2>1 DEF Opened, d
  <2>3. Beyond(bs, c, bs[y.begin].fn)
    BY <1>1, <1>5, BeyondNone
  <2>4. k \in Region(y.begin, Len(c)) \/ k = y.begin
    BY <1>1, <1>7
  <2>5. Walled(c, y.begin, Len(c))
    BY <1>0, <1>1, <2>2, <2>3, <2>4, WalledWide
  <2>6. \A v \in Owns(fr[y.old + 1]) :
          Held(c, v, y.begin, Len(c)) /\ Marked(c, "end", v) = {}
    BY <1>1, <1>10, <1>11, <2>2 DEF Held, SameMarks
  <2> QED
    BY <1>1, <2>2, <2>5, <2>6 DEF Opened, d
<1>13. u \notin 1..na
  BY DEF u
<1>8. ASSUME NEW x \in P
      PROVE  Awaits(c, x, fr, na)
  <2>1. Awaits(bs, x, fr, na)
    BY <1>2
  <2>2. x.do = "declare" => x.var # u
    BY <1>13, <2>1 DEF Awaits, Vars
  <2> QED
    BY <1>0, <1>4, <2>1, <2>2, AwaitsOn DEF d
<1>9. Scopes(c, P, fr, na)
  BY <1>0, <1>2, <1>4, ScopesOn DEF d
<1>14. ASSUME NEW v \in 1..na
       PROVE  Lives(c, p, P, fr, v)
  <2>1. Lives(bs, p, P, fr, v) /\ v # u
    BY <1>2, <1>13
  <2>2. ASSUME Gone(bs, p, P, v)
        PROVE  Gone(c, p, P, v)
    BY ONLY <1>0, <1>12, <2>1, <2>2, GoneOn
  <2> QED
    BY <1>10, <2>1, <2>2 DEF Lives, SameMarks
<1> QED
  BY <1>6, <1>7, <1>8, <1>9, <1>14 DEF Penned, d

LEMMA SitedLink ==
  ASSUME NEW bs, NEW c, NEW k, NEW A, NEW p, NEW P, NEW fr, NEW na \in Nat,
         Linking(bs, c, k, A, p, P, fr), Penned(bs, p, P, fr, na), p \in 1..Len(bs),
         NEW gen, Sited(bs, na, gen), \A t \in A : t \in 1..Len(bs)
  PROVE  Sited(c, na, gen) /\ Ranged(c) /\ Shape(c) /\ Len(c) = Len(bs)
<1> DEFINE d == fr[3].declarations_block
           Q == {k}
           u == 0
<1>0. Effect(bs, c, k, A, Q, u)
  BY DEF Linking, Links
<1>1. /\ Ranged(bs) /\ Len(c) = Len(bs) /\ k # d
      /\ k \in 1..Len(bs) /\ bs[k].fn = bs[p].fn
  BY DEF Linking, Links
<1>2. IsFirst(bs, d) /\ bs[d].fn = bs[p].fn
  BY DEF Penned, Prelude
<1>3. \A i \in 1..Len(bs) : i \in 1..Len(c) /\ c[i].fn = bs[i].fn
  <2> HIDE DEF d, Q, u
  <2>1. \A i \in 1..Len(bs) : i \in 1..Len(c) /\ c[i].fn = bs[i].fn
    BY ONLY <1>0, EffectIs
  <2> QED
    BY <2>1
<1>4. Spared(bs, c, Q, d)
  BY <1>1, <1>2, <1>3 DEF Spared
<1>5. /\ Fresh(bs, na) /\ \A v \in 1..na : HasAlloca(bs, v)
      /\ \A b \in 1..Len(bs) : bs[b].fn \in gen
  BY DEF Sited
<1>6. Shape(c)
  BY <1>0 DEF Effect
<1> HIDE DEF d, Q, u
<1>7. u \in 0..na /\ u \notin 1..na
  BY DEF u
<1>8. Fresh(c, na)
  BY ONLY <1>0, <1>5, <1>7, na \in Nat, FreshOn
<1>9. ASSUME NEW v \in 1..na
      PROVE  HasAlloca(c, v)
  <2>1. PICK e : AllocatedAt(bs, v, e)
    BY <1>5 DEF HasAlloca
  <2>2. v # u
    BY <1>7
  <2>3. v = u => e = d
    BY <2>2
  <2>4. AllocatedAt(c, v, e)
    BY ONLY <1>0, <1>4, <2>1, <2>3, AllocatedOn
  <2> QED
    BY <2>4 DEF HasAlloca
<1>10. Ranged(c)
  <2>1. \A i \in 1..Len(c) : \A t \in Targets(Code0(c, i)) :
          (i \in 1..Len(bs) /\ t \in Targets(Code0(bs, i))) \/ t \in A
    BY <1>0 DEF Effect, JumpsOnly
  <2> QED
    BY <1>1, <2>1 DEF Ranged
<1> QED
  BY <1>1, <1>3, <1>5, <1>6, <1>8, <1>9, <1>10 DEF Sited

(* The invariant, apart from the order of what is to be done.              *)
Kept(bs, p, P, fr, na, gen) ==
  /\ Shape(bs) /\ Ranged(bs) /\ Len(bs) \in Nat /\ p \in 1..Len(bs) /\ na \in Nat
  /\ Penned(bs, p, P, fr, na) /\ Sited(bs, na, gen)

LEMMA SituatedKept ==
  ASSUME NEW bs, NEW p, NEW s, NEW fr, NEW gen, NEW na, Situated(bs, p, s, fr, gen, na)
  PROVE  Kept(bs, p, Entries(s), fr, na, gen)
<1>1. /\ InFunction(bs, p, s, fr, gen) /\ na \in Nat /\ Len(bs) \in Nat /\ Shape(bs) /\ p \in 1..Len(bs)
      /\ Sited(bs, na, gen) /\ Penned(bs, p, Entries(s), fr, na)
  BY SituatedIs
<1>2. Ranged(bs)
  BY <1>1, InsideIs
<1> QED
  BY <1>1, <1>2 DEF Kept

(* Where code may be added, and where control may go on.                   *)
Spot(bs, k, p, P, fr) ==
  /\ k \in 1..Len(bs) /\ k # fr[3].declarations_block /\ bs[k].fn = bs[p].fn
  /\ \A y \in P : y.do = "leave block" => k \in Region(y.begin, Len(bs)) \/ k = y.begin
Aimed(bs, A, P) == \A t \in A : (\E x \in P : t \in Refs(x)) /\ t \in 1..Len(bs)

(* Each of the two jumps at the end of a block, and the insertion.         *)
LEMMA KeptLink ==
  ASSUME NEW bs, NEW p, NEW P, NEW fr, NEW na, NEW gen, Kept(bs, p, P, fr, na, gen),
         NEW c, NEW k, NEW A, Links(bs, c, k, A), Spot(bs, k, p, P, fr), Aimed(bs, A, P)
  PROVE  /\ Kept(c, p, P, fr, na, gen) /\ Len(c) = Len(bs)
         /\ \A i \in 1..Len(bs) : c[i].fn = bs[i].fn
<1>1. /\ Shape(bs) /\ Ranged(bs) /\ Len(bs) \in Nat /\ p \in 1..Len(bs) /\ na \in Nat
      /\ Penned(bs, p, P, fr, na) /\ Sited(bs, na, gen)
  BY DEF Kept
<1>2. Linking(bs, c, k, A, p, P, fr)
  BY <1>1 DEF Linking, Spot, Aimed
<1>3. Penned(c, p, P, fr, na)
  BY <1>1, <1>2, PennedLink
<1>4. Sited(c, na, gen) /\ Ranged(c) /\ Shape(c) /\ Len(c) = Len(bs)
  BY <1>1, <1>2, SitedLink DEF Aimed
<1>5. \A i \in 1..Len(bs) : c[i].fn = bs[i].fn
  BY DEF Links, Effect, Grows
<1> QED
  BY <1>1, <1>3, <1>4, <1>5 DEF Kept

LEMMA KeptJump ==
  ASSUME NEW bs, NEW p, NEW P, NEW fr, NEW na, NEW gen, Kept(bs, p, P, fr, na, gen),
         NEW k, Spot(bs, k, p, P, fr), NEW t, NEW x \in P, t \in Refs(x), t \in 1..Len(bs), NEW c, c = With(bs, k, Br(t))
  PROVE  /\ Kept(c, p, P, fr, na, gen) /\ Len(c) = Len(bs)
         /\ \A i \in 1..Len(bs) : c[i].fn = bs[i].fn
<1> DEFINE j == Br(t)
           A == {t}
<1>1. IsTerminator(j) /\ \A i \in ToSet(j.to) : i \in A
  BY OneTarget
<1>2. Aimed(bs, A, P)
  BY DEF Aimed
<1>3. c = With(bs, k, j)
  OBVIOUS
<1>4. Shape(bs) /\ k \in 1..Len(bs)
  BY DEF Kept, Spot
<1> HIDE DEF j, A
<1>5. AddsOne(bs, c, k, j)
  BY <1>3, <1>4, WithAdds DEF AddsOne
<1>6. Links(bs, c, k, A)
  BY ONLY <1>1, <1>5, LinksAdd
<1> QED
  BY ONLY Kept(bs, p, P, fr, na, gen), Spot(bs, k, p, P, fr), <1>2, <1>6, KeptLink

LEMMA KeptInside ==
  ASSUME NEW bs, NEW p, NEW P, NEW fr, NEW na, NEW gen, Kept(bs, p, P, fr, na, gen)
  PROVE  Spot(bs, p, p, P, fr)
BY DEF Spot, Kept, Penned, Prelude, Opened

LEMMA KeptInsert ==
  ASSUME NEW bs, NEW p, NEW P, NEW fr, NEW na, NEW gen, Kept(bs, p, P, fr, na, gen),
         NEW b \in 1..Len(bs)
  PROVE  LET c == Inserted(bs, b)
         IN  /\ Kept(c, p, P, fr, na, gen) /\ Len(c) = Len(bs) /\ c[b].inserted
             /\ \A i \in 1..Len(bs) : c[i].fn = bs[i].fn
<1> DEFINE c == Inserted(bs, b)
           A == {}
<1>1. Shape(bs) /\ p \in 1..Len(bs)
  BY DEF Kept
<1>2. c[b].inserted
  BY <1>1, InsertedIs
<1>3. Aimed(bs, A, P)
  BY DEF Aimed
<1> HIDE DEF A
<1>4. Links(bs, c, p, A)
  BY <1>1, LinksInsert
<1>5. Spot(bs, p, p, P, fr)
  BY KeptInside
<1> HIDE DEF c
<1>6. /\ Kept(c, p, P, fr, na, gen) /\ Len(c) = Len(bs) /\ \A i \in 1..Len(bs) : c[i].fn = bs[i].fn
  BY ONLY Kept(bs, p, P, fr, na, gen), <1>3, <1>4, <1>5, KeptLink
<1> QED
  BY <1>2, <1>6 DEF c

(* What is pending below the end of a block.                               *)
Departs(bs, p, x, P, R, fr) ==
  /\ x.begin \in Nat \ {0} /\ x.entry = x.begin + 1 /\ x.end = x.begin + 2 /\ x.old \in Nat
  /\ x.end <= Len(bs) /\ fr[3].declarations_block < x.begin
  /\ bs[x.begin].fn = bs[p].fn /\ bs[x.end].fn = bs[p].fn
  /\ x \in P /\ Refs(x) = {x.begin, x.entry, x.end} /\ P = {x} \union R
  /\ \A y \in R : y.do = "leave block" => /\ y.begin \in Nat /\ y.end = y.begin + 2
                                           /\ y.end < x.begin /\ y.old < x.old
  /\ \A y \in R : \A r \in Refs(y) : r < x.begin /\ r \in Nat
  /\ Shaped(R)

LEMMA LeavesIs ==
  ASSUME NEW bs, NEW p, NEW s, NEW fr, NEW gen, NEW na, Situated(bs, p, s, fr, gen, na),
         NEW x, x = Head(s), x.do = "leave block"
  PROVE  Departs(bs, p, x, Entries(s), Entries(Tail(s)), fr)
<1> DEFINE R == Entries(Tail(s))
<1>1. /\ InFunction(bs, p, s, fr, gen) /\ Nested(s) /\ Penned(bs, p, Entries(s), fr, na)
      /\ Nests(x, R) /\ Entries(s) = {x} \union R /\ s # <<>> /\ Nested(Tail(s))
  BY SituatedIs
<1>2. x \in Entries(s) /\ Opened(bs, p, x, fr)
  BY <1>1 DEF Penned
<1>3. Refs(x) = {x.begin, x.entry, x.end}
  <2>1. Owed(x) = {x.begin, x.end} /\ Aims(x) = {x.entry}
    BY ONLY x.do = "leave block", LeaveBlockOwes
  <2> QED
    BY ONLY <2>1 DEF Refs
<1>4. x.begin \in Nat /\ x.entry = x.begin + 1 /\ x.end = x.begin + 2 /\ x.old \in Nat
  BY <1>1 DEF Nests
<1>5. /\ fr[3].declarations_block < x.begin /\ p \in Region(x.begin, Len(bs))
      /\ Walled(bs, x.begin, Len(bs))
  BY <1>2 DEF Opened
<1>6. x.begin \in Nat \ {0} /\ x.begin + 2 <= Len(bs) /\ bs[p].fn = bs[x.begin].fn
  BY <1>5 DEF Walled
<1>7. bs[x.end].fn = bs[p].fn
  <2>1. Fits(bs, bs[p].fn, x, R)
    BY ONLY <1>1, x = Head(s), PopFits DEF R
  <2>2. x.end \in Owed(x)
    BY LeaveBlockOwes
  <2> QED
    BY <2>1, <2>2 DEF Fits
<1>8. Shaped(R)
  BY <1>1, NestedShaped
<1>9. \A y \in R : \A r \in Refs(y) : r < x.begin /\ r \in Nat
  <2>1. \A y \in R : \A r \in Refs(y) : r \in 1..Len(bs)
    BY <1>1, RefsRanged
  <2>2. \A y \in R : \A r \in Refs(y) : r < x.begin
    BY <1>1 DEF Nests
  <2>3. \A r \in 1..Len(bs) : r \in Nat
    <3>1. Len(bs) \in Nat
      BY SituatedIs
    <3> QED
      BY ONLY <3>1
  <2> QED
    BY <2>1, <2>2, <2>3
<1>10. \A y \in R : y.do = "leave block" => /\ y.begin \in Nat /\ y.end = y.begin + 2
                                            /\ y.end < x.begin /\ y.old < x.old
  <2> SUFFICES ASSUME NEW y \in R, y.do = "leave block"
               PROVE  y.begin \in Nat /\ y.end = y.begin + 2 /\ y.end < x.begin /\ y.old < x.old
    OBVIOUS
  <2>1. y.begin \in Nat /\ y.end = y.begin + 2
    BY <1>8 DEF Shaped
  <2>2. x.begin > y.end /\ y.old < x.old
    BY <1>1, <1>3 DEF Nests
  <2> QED
    BY <1>4, <2>1, <2>2
<1> QED
  BY <1>1, <1>2, <1>3, <1>4, <1>5, <1>6, <1>7, <1>8, <1>9, <1>10 DEF Departs

(* A block is left.                                                        *)
Parting(bs, p, x, d, u, c, fr, fr2) ==
  /\ x.do = "leave block" /\ x.old + 1 = Len(fr)
  /\ d = Inserted(With(With(bs, x.begin, Br(x.entry)), p, Br(x.end)), x.end)
  /\ IsSeq(u) /\ \A k \in 1..Len(u) : u[k].op = "end" /\ u[k].var \in Owns(fr[Len(fr)])
  /\ c = [d EXCEPT ![x.end].insts = @ \o u] /\ Drops(fr, fr2)

LEMMA LeavingLives ==
  ASSUME NEW bs, NEW p, NEW s, NEW fr, NEW gen, NEW na, Situated(bs, p, s, fr, gen, na),
         NEW x, x = Head(s), NEW d, NEW u, NEW c, NEW fr2, Parting(bs, p, x, d, u, c, fr, fr2)
  PROVE  Lively(c, x.end, Tail(s), fr2, na, gen) /\ Inside(Entries(Tail(s)))
<1> DEFINE P == Entries(s)
           R == Entries(Tail(s))
           d1 == With(bs, x.begin, Br(x.entry))
           d2 == With(d1, p, Br(x.end))
           l == Len(bs)
           own == Owns(fr[Len(fr)])
           b == x.begin
           e == x.end
           a == fr[3].declarations_block
<1>1. /\ InFunction(bs, p, s, fr, gen) /\ s # <<>> /\ na \in Nat /\ Nested(Tail(s)) /\ Outermost(fr)
      /\ l \in Nat /\ p \in 1..l /\ Len(fr) \in Nat
  BY SituatedIs
<1>2. /\ b \in Nat \ {0} /\ x.entry = b + 1 /\ e = b + 2 /\ x.old \in Nat
      /\ e <= l /\ a < b /\ bs[b].fn = bs[p].fn /\ bs[e].fn = bs[p].fn
      /\ x \in P /\ Refs(x) = {b, x.entry, e} /\ P = {x} \union R
      /\ \A y \in R : y.do = "leave block" => /\ y.begin \in Nat /\ y.end = y.begin + 2
                                               /\ y.end < b /\ y.old < x.old
      /\ \A y \in R : \A r \in Refs(y) : r < b /\ r \in Nat
      /\ Shaped(R)
  <2>1. x.do = "leave block"
    BY DEF Parting
  <2>2. Departs(bs, p, x, P, R, fr)
    BY <2>1, LeavesIs
  <2> QED
    BY <2>2 DEF Departs
<1>3. Inside(R)
  <2>1. x.do # "end function"
    BY DEF Parting
  <2> QED
    BY ONLY <1>1, <2>1, x = Head(s), PopFits DEF R
<1>4. Kept(bs, p, P, fr, na, gen)
  BY SituatedKept
<1>5. d = Inserted(d2, e) /\ d2 = With(d1, p, Br(e)) /\ d1 = With(bs, b, Br(x.entry))
  BY DEF Parting
<1>6. c = [d EXCEPT ![e].insts = @ \o u] /\ x.do = "leave block" /\ x.old + 1 = Len(fr)
       /\ Drops(fr, fr2) /\ IsSeq(u)
       /\ \A k \in 1..Len(u) : u[k].op = "end" /\ u[k].var \in own
  BY DEF Parting
<1>20. a = fr[3].declarations_block /\ e = x.end /\ b = x.begin
  OBVIOUS
<1> HIDE DEF P, d1, d2, l, own, b, e, a
<1>7. b \in 1..l /\ x.entry \in 1..l /\ e \in 1..l /\ a # b /\ \A k \in Nat : k + 2 < b => b \in Region(k, l)
  <2>1. /\ b \in Nat \ {0} /\ x.entry = b + 1 /\ e = b + 2 /\ e <= l /\ a < b /\ l \in Nat
    BY <1>1, <1>2
  <2>2. b \in 1..l /\ b + 1 \in 1..l /\ b + 2 \in 1..l /\ \A k \in Nat : k + 2 < b => b \in (k + 3)..l
    BY ONLY <2>1
  <2> QED
    BY <2>1, <2>2 DEF Region
<1>8. Spot(bs, b, p, P, fr)
  <2>1. \A y \in P : y.do = "leave block" => b \in Region(y.begin, l) \/ b = y.begin
    <3> SUFFICES ASSUME NEW y \in R, y.do = "leave block"
                 PROVE  b \in Region(y.begin, l)
      BY <1>2, <1>20
    <3>1. y.begin \in Nat /\ y.begin + 2 < b
      BY <1>2
    <3> QED
      BY <1>7, <3>1
  <2> QED
    BY <1>2, <1>7, <1>20, <2>1 DEF Spot, l
<1>9. Kept(d1, p, P, fr, na, gen) /\ Len(d1) = l /\ \A i \in 1..l : d1[i].fn = bs[i].fn
  <2>1. x \in P /\ x.entry \in Refs(x) /\ x.entry \in 1..Len(bs) /\ d1 = With(bs, b, Br(x.entry))
    BY <1>2, <1>5, <1>7 DEF l
  <2> DEFINE t == x.entry
  <2>2. x \in P /\ t \in Refs(x) /\ t \in 1..Len(bs) /\ d1 = With(bs, b, Br(t))
    BY <2>1
  <2> HIDE DEF t
  <2> QED
    BY ONLY <1>4, <1>8, <2>2, KeptJump DEF l
<1>10. Kept(d2, p, P, fr, na, gen) /\ Len(d2) = l /\ \A i \in 1..l : d2[i].fn = d1[i].fn
  <2>1. x \in P /\ e \in Refs(x) /\ e \in 1..Len(d1) /\ d2 = With(d1, p, Br(e))
    BY <1>2, <1>5, <1>7, <1>9
  <2>2. Spot(d1, p, p, P, fr)
    BY <1>9, KeptInside
  <2>3. /\ Kept(d2, p, P, fr, na, gen) /\ Len(d2) = Len(d1)
        /\ \A i \in 1..Len(d1) : d2[i].fn = d1[i].fn
    BY ONLY <1>9, <2>1, <2>2, KeptJump
  <2> QED
    BY <1>9, <2>3
<1>11. /\ Kept(d, p, P, fr, na, gen) /\ Len(d) = l /\ d[e].inserted
       /\ \A i \in 1..l : d[i].fn = d2[i].fn
  <2>1. e \in 1..Len(d2)
    BY <1>7, <1>10
  <2> QED
    BY <1>5, <1>10, <2>1, KeptInsert
<1>12. d[e].fn = d[p].fn
  <2>1. e \in 1..l /\ p \in 1..l
    BY <1>1, <1>7
  <2> QED
    BY <1>2, <1>9, <1>10, <1>11, <2>1
<1>13. Penned(d, p, P, fr, na) /\ Sited(d, na, gen) /\ Shape(d) /\ e \in 1..Len(d)
  BY <1>7, <1>11 DEF Kept
<1>14. Adds(d, c, e, u)
  BY <1>6, <1>13, ManyAdds
<1>15. Finishes(d, c, e, own)
  BY <1>6, <1>14 DEF Finishes
<1>16. Penned(c, e, R, fr2, na)
  <2>1. \A y \in R : y.do = "leave block" => y.old < x.old /\ y.end < e
    <3> SUFFICES ASSUME NEW y \in R, y.do = "leave block"
                 PROVE  y.old < x.old /\ y.end < e
      OBVIOUS
    <3>1. y.begin \in Nat /\ y.end = y.begin + 2 /\ y.end < b /\ y.old < x.old /\ e = b + 2 /\ b \in Nat
      BY <1>2
    <3> QED
      BY ONLY <3>1
  <2>2. Leaving(d, x, R, fr)
    BY <1>2, <1>6, <1>11, <1>20, <2>1 DEF Leaving
  <2>3. P = {x} \union R /\ Finishes(d, c, x.end, Owns(fr[Len(fr)])) /\ d[x.end].fn = d[p].fn
    BY <1>2, <1>12, <1>15, <1>20 DEF own
  <2> HIDE DEF R
  <2>4. Penned(c, x.end, R, fr2, na)
    BY ONLY <1>13, <2>2, <2>3, <1>6, PennedLeave
  <2> QED
    BY <1>20, <2>4
<1>17. Sited(c, na, gen)
  <2>1. IsFirst(d, a) /\ d[a].fn = d[p].fn
    BY <1>13, <1>20 DEF Penned, Prelude
  <2>2. a < e
    <3>1. a \in 1..Len(d)
      BY <2>1 DEF IsFirst
    <3>2. a \in 1..l /\ l \in Nat /\ b \in Nat /\ a < b /\ e = b + 2
      BY <1>1, <1>2, <1>11, <3>1
    <3> QED
      BY ONLY <3>2
  <2>3. \A k \in 1..Len(u) : u[k].op = "end" /\ u[k].var \in 1..na
    <3>1. Len(fr) \in 1..Len(fr)
      <4>1. Len(fr) \in Nat /\ x.old \in Nat /\ x.old + 1 = Len(fr)
        BY <1>1, <1>2, <1>6
      <4> QED
        BY ONLY <4>1
    <3>2. \A v \in own : v \in 1..na
      BY <1>13, <3>1 DEF Penned, Scopes, own
    <3> QED
      BY <1>6, <3>2
  <2>4. d[e].fn = d[a].fn /\ "end" \in {"start", "end"} /\ na \in Nat
    BY <1>1, <1>12, <2>1
  <2> DEFINE o == "end"
  <2>5. o \in {"start", "end"} /\ (\A k \in 1..Len(u) : u[k].op = o) /\ \A k \in 1..Len(u) : u[k].var \in 1..na
    BY <2>3
  <2> HIDE DEF o
  <2> QED
    BY ONLY <1>13, <1>14, <2>1, <2>2, <2>4, <2>5, SitedMarks
<1>18. Outermost(fr2)
  <2>1. Len(fr2) \in Nat /\ Len(fr) = Len(fr2) + 1 /\ \A j \in 1..Len(fr2) : fr2[j] = fr[j]
    BY <1>6 DEF Drops
  <2>2. \A j \in 1..Len(fr2) : j \in 1..Len(fr)
    BY ONLY <2>1
  <2> QED
    BY <1>1, <2>1, <2>2 DEF Outermost
<1> QED
  BY <1>1, <1>3, <1>16, <1>17, <1>18, <1>20 DEF Lively

LEMMA LeaveBlockLives ==
  ASSUME IInv, WiredInv, LiveInv, LeaveBlock
  PROVE  LiveInv'
<1> DEFINE x == Instr
           own == Last(frames).own
           u == [k \in 1..Len(own) |-> LifetimeEnd(own[k].var)]
           d == Inserted(With(With(blocks, x.begin, Br(x.entry)), ip, Br(x.end)), x.end)
           rest == Tail(todo)
           m == Len(frames) - 1
           c == blocks'
           fr2 == frames'
<1>1. /\ Doing("leave block") /\ c = [d EXCEPT ![x.end].insts = @ \o u]
      /\ ip' = x.end /\ fr2 = Front(frames) /\ state' = x.old /\ Go(<<>>)
      /\ UNCHANGED <<generated, errors, n_allocas>>
  BY DEF LeaveBlock, SameRest, SameNames
<1>2. /\ Runs /\ todo # <<>> /\ IsSeq(rest) /\ x.do = "leave block"
      /\ \E i1 \in Nat \ {0}, n1, f1, m1 \in Nat :
           Moves(Instr, Len(frames), Len(values), i1, n1)
  BY <1>1, Running
<1>3. x.old = m
  <2>1. PICK i1 \in Nat \ {0}, n1 \in Nat : Moves(Instr, Len(frames), Len(values), i1, n1)
    BY <1>2
  <2>2. Len(frames) = i1 + 1 /\ x.old = i1
    BY <1>2, <2>1, MovesLeave
  <2> QED
    BY ONLY <2>2, i1 \in Nat \ {0}
<1> SUFFICES ASSUME errors' = 0
             PROVE  LiveInv'
  BY DEF LiveInv
<1>4. ~AtTop(x)
  <2> HIDE DEF x
  <2> QED
    BY <1>2, LeaveBlockOwes
<1>5. Situated(blocks, ip, todo, frames, generated, n_allocas)
  BY <1>1, <1>2, <1>4, Within0
<1>6. /\ InFunction(blocks, ip, todo, frames, generated)
      /\ Len(frames) \in Nat
  BY <1>5, SituatedIs
<1>7. x.old \in Nat /\ x.old >= 3
  <2>1. InFunction(blocks, ip, todo, frames, generated) /\ todo # <<>>
    BY <1>2, <1>6
  <2>2. Fits(blocks, blocks[ip].fn, x, Entries(rest))
    BY ONLY <2>1, PopFits DEF Instr
  <2> QED
    BY <1>2, <2>2 DEF Fits
<1>8. Len(fr2) = m /\ \A k \in 1..m : fr2[k] = frames[k]
  <2>1. Len(frames) \in Nat \ {0} /\ Scoped(n_allocas, frames)
    BY Facts
  <2>2. fr2 = SubSeq(frames, 1, m)
    BY <1>1 DEF Front
  <2>3. IsSeq(frames)
    <3> DEFINE S == Scope(n_allocas)
    <3>1. frames \in Seq(S)
      BY <2>1 DEF Scoped
    <3> HIDE DEF S
    <3> QED
      BY <3>1, SeqIs
  <2>4. m \in Nat /\ 1 \in Nat /\ 1 <= 1 /\ 1 <= m + 1 /\ m <= Len(frames) /\ m - 1 + 1 = m
          /\ \A k \in 1..m : 1 + k - 1 = k
    BY ONLY <2>1
  <2> HIDE DEF m, fr2
  <2>5. /\ Len(SubSeq(frames, 1, m)) = m - 1 + 1
        /\ \A k \in 1..(m - 1 + 1) : SubSeq(frames, 1, m)[k] = frames[1 + k - 1]
    BY ONLY <2>3, <2>4, SubSeqIs
  <2> QED
    BY ONLY <2>2, <2>4, <2>5
<1>9. Drops(frames, fr2)
  <2>1. m \in Nat /\ m >= 3 /\ Len(frames) = m + 1
    <3>1. Len(frames) \in Nat /\ m \in Nat /\ m >= 3
      BY <1>3, <1>6, <1>7
    <3> QED
      BY <3>1
  <2> HIDE DEF m, fr2
  <2> QED
    BY <1>8, <2>1 DEF Drops
<1>10. IsSeq(u) /\ \A k \in 1..Len(u) : u[k].op = "end" /\ u[k].var \in Owns(frames[Len(frames)])
  <2> DEFINE l == Len(own)
  <2>1. l \in Nat
    <3>1. Len(frames) \in Nat \ {0} /\ Scoped(n_allocas, frames)
      BY Facts
    <3> DEFINE S == Scope(n_allocas)
    <3>2. frames \in Seq(S)
      BY <3>1 DEF Scoped
    <3> HIDE DEF S
    <3>3. Len(frames) \in 1..Len(frames)
      BY ONLY <3>1
    <3>4. Last(frames) \in S
      BY <3>2, <3>3, ElementOfSeq DEF Last
    <3>5. own \in Own(n_allocas)
      BY <3>4 DEF S, Scope
    <3> DEFINE E == [name : Name, var : 1..n_allocas]
    <3>6. own \in Seq(E)
      BY <3>5 DEF Own
    <3> HIDE DEF E, own
    <3> QED
      BY <3>6, SeqIs
  <2>2. u = [k \in 1..l |-> u[k]] /\ \A k \in 1..l : u[k] = LifetimeEnd(own[k].var)
    OBVIOUS
  <2>3. \A k \in 1..l : u[k].op = "end" /\ u[k].var = own[k].var
    BY <2>2 DEF LifetimeEnd
  <2>5. own = frames[Len(frames)].own
    BY DEF Last
  <2> HIDE DEF u
  <2>4. IsSeq(u) /\ Len(u) = l
    <3> HIDE DEF l
    <3> QED
      BY <2>1, <2>2, MapIs
  <2>6. \A k \in 1..l : own[k].var \in Owns(frames[Len(frames)])
    BY <2>5 DEF Owns
  <2> QED
    BY <2>3, <2>4, <2>6
<1>11. todo' = rest
  BY <1>1, <1>2, GoNone
<1>12. x = Head(todo)
  BY DEF Instr
<1>13. x.old + 1 = Len(frames)
  <2>1. Len(frames) \in Nat /\ x.old = m
    BY <1>3, <1>6
  <2> QED
    BY <2>1
<1> DEFINE dd == d
<1>14. Parting(blocks, ip, x, dd, u, c, frames, fr2)
  <2>1. dd = Inserted(With(With(blocks, x.begin, Br(x.entry)), ip, Br(x.end)), x.end)
    OBVIOUS
  <2>2. c = [dd EXCEPT ![x.end].insts = @ \o u]
    BY <1>1
  <2> HIDE DEF dd, u, c, fr2, x
  <2> QED
    BY <1>2, <1>9, <1>10, <1>13, <2>1, <2>2 DEF Parting
<1> HIDE DEF u, c, fr2, x, dd
<1>15. Lively(c, x.end, Tail(todo), fr2, n_allocas, generated) /\ Inside(Entries(Tail(todo)))
  BY ONLY <1>5, <1>12, <1>14, LeavingLives
<1>16. Lively(blocks', ip', todo', frames', n_allocas', generated') /\ Inside(Entries(todo'))
  BY <1>1, <1>11, <1>15 DEF c, fr2
<1> QED
  BY <1>16, LivesInside

(* A function ends.                                                        *)
LEMMA EndingLives ==
  ASSUME NEW bs, NEW p, NEW s, NEW fr, NEW gen, NEW na, Situated(bs, p, s, fr, gen, na),
         NEW x, x = Head(s), x.do = "end function", NEW v, v.op = "ret", v.to = <<>>,
         NEW c, c = With(With(bs, p, v), x.decls, Br(x.decls + 1))
  PROVE  /\ Nested(Tail(s)) /\ Sited(c, na, gen) /\ Stilled(c, na)
         /\ ~Inside(Entries(Tail(s)))
<1> DEFINE P == Entries(s)
           R == Entries(Tail(s))
           b1 == With(bs, p, v)
           d == x.decls
           j == Br(d + 1)
           A == {d + 1}
           Q == {d}
           N == {}
<1>1. /\ InFunction(bs, p, s, fr, gen) /\ s # <<>> /\ na \in Nat /\ Nested(Tail(s))
      /\ Shape(bs) /\ p \in 1..Len(bs) /\ Len(fr) \in Nat /\ P = {x} \union R
  BY SituatedIs
<1>2. Kept(bs, p, P, fr, na, gen)
  BY SituatedKept
<1>3. \A r \in R : AtTop(r)
  <2>1. Fits(bs, bs[p].fn, x, R)
    BY ONLY <1>1, x = Head(s), PopFits DEF R
  <2> QED
    BY <2>1 DEF Fits
<1>4. \A r \in R : r.do # "end function" /\ r.do # "leave block"
  BY <1>3 DEF AtTop
<1>5. d = fr[3].declarations_block
  <2>1. Framed(P, fr)
    BY <1>1 DEF InFunction
  <2>2. Len(fr) >= 3 /\ \A k \in 3..Len(fr) : fr[k].declarations_block = d
    BY <1>1, <2>1 DEF Framed
  <2>3. 3 \in 3..Len(fr)
    <3>1. Len(fr) \in Nat /\ Len(fr) >= 3
      BY <1>1, <2>2
    <3> QED
      BY ONLY <3>1
  <2> QED
    BY <2>2, <2>3
<1>6. c = With(b1, d, j) /\ b1 = With(bs, p, v) /\ d + 1 \in Refs(x)
  BY EndFunctionOwes DEF Refs
<1>7. IsTerminator(j) /\ \A t \in ToSet(j.to) : t \in A
  BY OneTarget
<1>8. IsTerminator(v) /\ \A t \in ToSet(v.to) : t \in N
  <2>1. \A t \in ToSet(v.to) : FALSE
    BY NoTargets
  <2> QED
    BY <2>1 DEF IsTerminator, Terminators
<1>9. (\A y \in P : y.do # "leave block") /\ ~Inside(R)
  BY <1>1, <1>4 DEF Inside
<1>10. (\A t \in A : \E y \in P : t \in Refs(y)) /\ d \in Q
  BY <1>1, <1>6
<1>11. Aimed(bs, N, P)
  BY DEF Aimed
<1> HIDE DEF P, b1, d, j, A, Q, N
<1>12. AddsOne(bs, b1, p, v)
  BY <1>1, <1>6, WithAdds DEF AddsOne
<1>13. Kept(b1, p, P, fr, na, gen)
  <2>1. Links(bs, b1, p, N)
    BY ONLY <1>8, <1>12, LinksAdd
  <2>2. Spot(bs, p, p, P, fr)
    BY <1>2, KeptInside
  <2> QED
    BY ONLY <1>2, <1>11, <2>1, <2>2, KeptLink
<1>14. /\ IsFirst(b1, d) /\ Stops(Code0(b1, d)) = {} /\ Penned(b1, p, P, fr, na)
       /\ Shape(b1) /\ d \in 1..Len(b1) /\ Sited(b1, na, gen)
  BY <1>5, <1>13 DEF Kept, Penned, Prelude, IsFirst
<1>15. AddsOne(b1, c, d, j)
  BY <1>6, <1>14, WithAdds DEF AddsOne
<1>16. Effect(b1, c, d, A, Q, 0)
  <2>1. Links(b1, c, d, A)
    BY ONLY <1>7, <1>15, LinksAdd
  <2> QED
    BY <2>1 DEF Links, Q
<1>17. Stilled(c, na)
  BY ONLY <1>1, <1>9, <1>10, <1>14, <1>16, StilledEnd
<1>18. Sited(c, na, gen)
  <2>1. Effect(b1, c, d, A, {d}, 0)
    BY <1>16 DEF Q
  <2> QED
    BY ONLY <1>1, <1>7, <1>14, <1>15, <2>1, SitedEnd
<1> QED
  BY <1>1, <1>9, <1>17, <1>18

LEMMA EndFunctionLives ==
  ASSUME IInv, WiredInv, LiveInv, EndFunction
  PROVE  LiveInv'
<1> DEFINE x == Instr
           v == Ret(OrZero(Top))
           rest == Tail(todo)
           c == blocks'
           fr2 == frames'
<1>1. /\ Doing("end function") /\ c = With(With(blocks, ip, v), x.decls, Br(x.decls + 1))
      /\ fr2 = Front(frames) /\ state' = x.old /\ Go(<<>>)
      /\ UNCHANGED <<generated, errors, n_allocas>>
  BY DEF EndFunction, SameRest, SameNames
<1>2. /\ Runs /\ todo # <<>> /\ IsSeq(rest) /\ x.do = "end function"
      /\ \E i1 \in Nat \ {0}, n1, f1, m1 \in Nat :
           Moves(Instr, Len(frames), Len(values), i1, n1)
  BY <1>1, Running
<1> SUFFICES ASSUME errors' = 0
             PROVE  LiveInv'
  BY DEF LiveInv
<1>4. ~AtTop(x)
  <2> HIDE DEF x
  <2> QED
    BY <1>2, EndFunctionOwes
<1>5. Situated(blocks, ip, todo, frames, generated, n_allocas)
  BY <1>1, <1>2, <1>4, Within0
<1>6. Outermost(frames) /\ Len(frames) \in Nat /\ InFunction(blocks, ip, todo, frames, generated)
  BY <1>5, SituatedIs
<1>7. Outermost(fr2)
  <2> DEFINE m == Len(frames) - 1
  <2>1. Len(frames) \in Nat \ {0} /\ Scoped(n_allocas, frames)
    BY Facts
  <2>2. fr2 = SubSeq(frames, 1, m)
    BY <1>1 DEF Front
  <2>3. IsSeq(frames)
    <3> DEFINE S == Scope(n_allocas)
    <3>1. frames \in Seq(S)
      BY <2>1 DEF Scoped
    <3> HIDE DEF S
    <3> QED
      BY <3>1, SeqIs
  <2>4. m \in Nat /\ 1 \in Nat /\ 1 <= 1 /\ 1 <= m + 1 /\ m <= Len(frames) /\ m - 1 + 1 = m
          /\ \A k \in 1..m : 1 + k - 1 = k /\ k \in 1..Len(frames)
    BY ONLY <2>1
  <2> HIDE DEF m, fr2
  <2>5. /\ Len(SubSeq(frames, 1, m)) = m - 1 + 1
        /\ \A k \in 1..(m - 1 + 1) : SubSeq(frames, 1, m)[k] = frames[1 + k - 1]
    BY ONLY <2>3, <2>4, SubSeqIs
  <2>6. Len(fr2) = m /\ \A k \in 1..m : fr2[k] = frames[k] /\ k \in 1..Len(frames)
    BY ONLY <2>2, <2>4, <2>5
  <2> QED
    BY <1>6, <2>6 DEF Outermost
<1>10. v.op = "ret" /\ v.to = <<>>
  BY OrZeroIs DEF Ret
<1>11. todo' = rest
  BY <1>1, <1>2, GoNone
<1>12. x = Head(todo)
  BY DEF Instr
<1> HIDE DEF v, c, fr2, x
<1>13. /\ Nested(Tail(todo)) /\ Sited(c, n_allocas, generated) /\ Stilled(c, n_allocas)
       /\ ~Inside(Entries(Tail(todo)))
  BY ONLY <1>1, <1>2, <1>5, <1>10, <1>12, EndingLives
<1>14. /\ Nested(todo') /\ Outermost(frames') /\ Sited(blocks', n_allocas', generated')
       /\ ~Inside(Entries(todo')) /\ Stilled(blocks', n_allocas')
  BY <1>1, <1>7, <1>11, <1>13 DEF c, fr2
<1> QED
  BY <1>14 DEF LiveInv

(* A variable is declared: it is stored at p, if it has a value.           *)
LEMMA DeclareFree ==
  ASSUME NEW bs, NEW p, NEW s, NEW fr, NEW gen, NEW na, Situated(bs, p, s, fr, gen, na),
         NEW x, x = Head(s), x.do = "declare", NEW v, v = x.var,
         NEW c, MayAccess(bs, c, p, v), NEW R, R = Entries(Tail(s))
  PROVE  /\ Kept(c, p, R, fr, na, gen) /\ Free(c, p, R, fr, na, v) /\ Len(c) = Len(bs)
         /\ Inside(R) /\ Nested(Tail(s)) /\ Outermost(fr)
<1> DEFINE P == Entries(s)
           A == {}
           Q == {p, p}
           d == fr[3].declarations_block
<1>1. /\ InFunction(bs, p, s, fr, gen) /\ s # <<>> /\ na \in Nat /\ Len(fr) \in Nat
      /\ Nested(s) /\ Nested(Tail(s)) /\ Outermost(fr) /\ IsSeq(Tail(s))
      /\ Shape(bs) /\ p \in 1..Len(bs) /\ Len(bs) \in Nat
      /\ Nests(x, R) /\ P = {x} \union R /\ Penned(bs, p, P, fr, na)
  BY SituatedIs
<1>2. /\ v \in 1..na /\ Marked(bs, "start", v) = {} /\ AllocatedAt(bs, v, d)
      /\ Accessors(bs, v) = {} /\ Marked(bs, "end", v) = {}
      /\ \A j \in 1..Len(fr) : v \notin Owns(fr[j])
  <2>1. Awaits(bs, x, fr, na)
    BY <1>1 DEF Penned
  <2>2. v \in Vars(x)
    BY DEF Vars
  <2> QED
    BY <2>1, <2>2 DEF Awaits
<1>3. \A y \in R : v \notin Vars(y)
  <2>1. v \in Vars(x)
    BY DEF Vars
  <2> QED
    BY <1>1, <2>1 DEF Nests
<1>4. Effect(bs, c, p, A, Q, v) /\ Len(c) = Len(bs)
  <2>1. Maybe(bs, c, p, v)
    BY <1>1, MaybeIs
  <2> QED
    BY <2>1, MaybeEffect
<1>5. Beyond(bs, c, bs[p].fn)
  BY <1>1, <1>4, BeyondNone
<1>6. Accessible(bs, A \union R, fr, na, v)
  <2>1. v \in 0..na
    BY ONLY <1>1, <1>2
  <2>2. \A y \in R : y.do = "declare" => y.var # v
    BY <1>3 DEF Vars
  <2> QED
    BY <1>2, <2>1, <2>2 DEF Accessible
<1>7. Worked(bs, c, p, A, v, p, x, R, A, fr, na)
  <2>1. p \in 1..Len(c) /\ c[p].fn = bs[p].fn
    BY <1>1, <1>4, EffectIs
  <2>2. x.do # "leave block" /\ x.do # "end function"
    OBVIOUS
  <2>3. (\A t \in A : FALSE) /\ Q = {p, p}
    OBVIOUS
  <2> HIDE DEF A, Q
  <2> QED
    BY <1>4, <1>5, <1>6, <2>1, <2>2, <2>3 DEF Worked
<1>8. A \union R = R /\ <<>> \o Tail(s) = Tail(s)
  BY <1>1, NoneLeft
<1> HIDE DEF A, Q, P
<1>9. Continued(bs, c, p, A, v, p, s, A, Tail(s), fr, na)
  BY <1>1, <1>7, <1>8 DEF Continued
<1>10. Lively(c, p, Tail(s), fr, na, gen) /\ Inside(R)
  BY <1>9, WorksOn
<1>11. Spared(bs, c, Q, d) /\ Ranged(bs)
  <2>1. Steps(bs, c, p, A, {p, p}, v, p, P, p, A \union R, fr, na)
    BY ONLY <1>1, <1>7, WorkedSteps, x = Head(s), R = Entries(Tail(s)) DEF P
  <2> QED
    BY <2>1 DEF Steps, Q, d
<1>12. AllocatedAt(c, v, d)
  BY ONLY <1>2, <1>4, <1>11, AllocatedOn
<1>13. Marked(c, "start", v) = {} /\ Marked(c, "end", v) = {} /\ \A k \in Accessors(c, v) : k = p
  BY <1>2, <1>4 DEF Effect, SameMarks, Accesses, Q
<1>14. Free(c, p, R, fr, na, v)
  BY <1>2, <1>3, <1>12, <1>13 DEF Free, d
<1>15. Kept(c, p, R, fr, na, gen)
  <2>1. Shape(c) /\ Len(c) \in Nat /\ p \in 1..Len(c)
    BY <1>1, <1>4 DEF Effect
  <2>2. Ranged(c)
    BY <1>4, <1>11 DEF Effect, JumpsOnly, Ranged, A
  <2> QED
    BY <1>1, <1>10, <2>1, <2>2 DEF Lively, Kept
<1> QED
  BY <1>1, <1>4, <1>10, <1>14, <1>15

(* The block that is left next is that of the last frame.                  *)
LEMMA DeclareLast ==
  ASSUME NEW bs, NEW p, NEW s, NEW fr, NEW gen, NEW na, Situated(bs, p, s, fr, gen, na),
         Head(s).do = "declare", NEW R, R = Entries(Tail(s)),
         NEW k, k = Min({j \in 1..Len(s) : s[j].do = "leave block"}), NEW y, y = s[k]
  PROVE  InnermostIs(R, y, Len(fr)) /\ Len(fr) >= 4
<1> DEFINE n == Len(fr)
<1>1. /\ InFunction(bs, p, s, fr, gen) /\ s # <<>> /\ n \in Nat /\ Nested(s)
      /\ Entries(s) = {Head(s)} \union R /\ Penned(bs, p, Entries(s), fr, na)
  BY SituatedIs
<1>2. IsSeq(s) /\ Sound(bs, bs[p].fn, s)
  BY <1>1 DEF InFunction, Sound
<1>3. BlockIn(R)
  <2>1. Fits(bs, bs[p].fn, Head(s), R)
    BY ONLY <1>1, PopFits, R = Entries(Tail(s))
  <2>2. InBlock(Head(s))
    BY DEF InBlock
  <2> QED
    BY <2>1, <2>2 DEF Fits
<1>4. BlockIn(Entries(s))
  BY <1>1, <1>3 DEF BlockIn
<1>5. /\ k \in 1..Len(s) /\ y.do = "leave block" /\ y \in Entries(s)
  BY <1>2, <1>4, Innermost
<1>6. \A j \in 1..Len(s) : s[j].do = "leave block" => k <= j
  <2> DEFINE K == {j \in 1..Len(s) : s[j].do = "leave block"}
  <2>1. Len(s) \in Nat
    BY <1>2, ListIs
  <2>2. \A j \in 1..Len(s) : j \in Int /\ 1 <= j
    BY ONLY <2>1
  <2>3. K \in SUBSET Int /\ K # {} /\ 1 \in Int /\ \A j \in K : 1 <= j
    <3>1. \A j \in K : j \in Int /\ 1 <= j
      BY <2>2
    <3>2. k \in K
      BY <1>5
    <3> HIDE DEF K
    <3> QED
      BY ONLY <3>1, <3>2
  <2>4. \A j \in K : Min(K) <= j
    <3> HIDE DEF K
    <3> QED
      BY <2>3, LeastOf
  <2> QED
    BY <2>4
<1>7. ASSUME NEW z \in Entries(s), z.do = "leave block", z # y
      PROVE  z.old < y.old /\ z.old \in Nat
  <2>1. PICK j \in 1..Len(s) : z = s[j]
    BY <1>7 DEF Entries
  <2>2. j # k /\ k <= j
    BY <1>6, <1>7, <2>1
  <2>3. j \in (k + 1)..Len(s)
    <3>1. Len(s) \in Nat
      BY <1>2, ListIs
    <3>2. k \in 1..Len(s) /\ j \in 1..Len(s)
      BY <1>5
    <3> QED
      BY ONLY <2>2, <3>1, <3>2
  <2>4. z \in After(s, k)
    BY <2>1, <2>3 DEF After
  <2>5. Nests(y, After(s, k))
    BY <1>1, <1>5 DEF Nested
  <2>6. z.old < y.old
    BY <1>5, <1>7, <2>4, <2>5 DEF Nests
  <2>7. Shaped(Entries(s))
    BY <1>1, NestedShaped
  <2> QED
    BY <1>7, <2>6, <2>7 DEF Shaped
<1>8. y.old \in Nat /\ y.old >= 3
  <2>1. Fits(bs, bs[p].fn, y, After(s, k))
    BY <1>2, <1>5 DEF Sound
  <2> QED
    BY <1>5, <2>1 DEF Fits
<1>9. y.old < n
  BY <1>1, <1>5 DEF Penned, Opened
<1>10. n >= 4 /\ n \in 1..Len(fr)
  BY ONLY <1>1, <1>8, <1>9
<1>11. PICK z \in Entries(s) : z.do = "leave block" /\ z.old = n - 1
  BY <1>1, <1>10 DEF Penned, Scopes
<1>12. y.old = n - 1
  <2>1. CASE z = y
    BY <1>11, <2>1
  <2>2. CASE z # y
    <3>1. z.old < y.old /\ z.old = n - 1
      BY <1>7, <1>11, <2>2
    <3> QED
      BY ONLY <1>1, <1>8, <1>9, <3>1
  <2> QED
    BY <2>1, <2>2
<1>13. y.old + 1 = n
  BY ONLY <1>1, <1>12
<1>14. y \in R
  BY <1>1, <1>5
<1>15. ASSUME NEW w \in R, w.do = "leave block", w # y
       PROVE  w.old \in Nat /\ w.old + 1 # n
  <2>1. w.old < y.old /\ w.old \in Nat
    BY <1>1, <1>7, <1>15
  <2> QED
    BY ONLY <1>1, <1>8, <1>13, <2>1
<1> QED
  BY <1>5, <1>8, <1>10, <1>13, <1>14, <1>15 DEF InnermostIs

(* The lifetime of the variable starts.                                    *)
Declares(bs, p, s, x, b1, k, y, i, c, fr, fr2) ==
  /\ x = Head(s) /\ x.do = "declare" /\ MayAccess(bs, b1, p, x.var)
  /\ k = Min({j \in 1..Len(s) : s[j].do = "leave block"}) /\ y = s[k]
  /\ i.op = "start" /\ i.var = x.var /\ c = With(b1, y.begin, i)
  /\ Len(fr) >= 4 => Gets(fr, fr2, x.var)

LEMMA DeclaringLives ==
  ASSUME NEW bs, NEW p, NEW s, NEW fr, NEW gen, NEW na, Situated(bs, p, s, fr, gen, na),
         NEW x, NEW b1, NEW k, NEW y, NEW i, NEW c, NEW fr2,
         Declares(bs, p, s, x, b1, k, y, i, c, fr, fr2)
  PROVE  Lively(c, p, Tail(s), fr2, na, gen) /\ Inside(Entries(Tail(s)))
<1> DEFINE R == Entries(Tail(s))
           b == y.begin
           d == fr[3].declarations_block
           v == x.var
<1>0. /\ x = Head(s) /\ x.do = "declare" /\ MayAccess(bs, b1, p, v)
      /\ k = Min({j \in 1..Len(s) : s[j].do = "leave block"}) /\ y = s[k]
      /\ i.op = "start" /\ i.var = v /\ c = With(b1, y.begin, i)
      /\ Len(fr) >= 4 => Gets(fr, fr2, v)
  BY DEF Declares
<1>1. /\ Kept(b1, p, R, fr, na, gen) /\ Free(b1, p, R, fr, na, v) /\ Len(b1) = Len(bs)
      /\ Inside(R) /\ Nested(Tail(s)) /\ Outermost(fr)
  BY <1>0, DeclareFree
<1>2. InnermostIs(R, y, Len(fr)) /\ Len(fr) >= 4
  BY <1>0, DeclareLast
<1>3. Gets(fr, fr2, v)
  BY <1>0, <1>2
<1>4. /\ Shape(b1) /\ Len(b1) \in Nat /\ p \in 1..Len(b1) /\ na \in Nat
      /\ Penned(b1, p, R, fr, na) /\ Sited(b1, na, gen)
  BY <1>1 DEF Kept
<1>5. Opened(b1, p, y, fr)
  BY <1>2, <1>4 DEF Penned, InnermostIs
<1>6. /\ d < b /\ b \in Nat \ {0} /\ b + 2 <= Len(b1) /\ b1[p].fn = b1[b].fn
  BY <1>5 DEF Opened, Walled
<1>7. IsFirst(b1, d) /\ b1[b].fn = b1[d].fn
  BY <1>4, <1>6 DEF Penned, Prelude
<1>8. b \in 1..Len(b1)
  BY ONLY <1>4, <1>6
<1>9. AddsOne(b1, c, b, i)
  BY <1>0, <1>4, <1>8, WithAdds DEF AddsOne
<1>10. Starts(b1, c, b, v)
  BY <1>0, <1>9 DEF Starts
<1> HIDE DEF R, d, v
<1>11. Penned(c, p, R, fr2, na)
  BY <1>1, <1>2, <1>3, <1>4, <1>10, PennedStart
<1>12. Sited(c, na, gen)
  <2> DEFINE t == <<i>>
             o == "start"
  <2>1. Adds(b1, c, b, t)
    BY <1>9 DEF AddsOne
  <2>2. v \in 1..na
    BY <1>1 DEF Free
  <2>3. t[1] = i /\ \A j \in 1..Len(t) : j = 1
    <3>1. Len(t) = 1
      OBVIOUS
    <3>2. \A j \in 1..1 : j = 1
      OBVIOUS
    <3> QED
      BY <3>1, <3>2
  <2>4. o \in {"start", "end"} /\ i.op = o /\ i.var = v
    BY <1>0
  <2> HIDE DEF t, b, o
  <2>5. \A j \in 1..Len(t) : t[j].op = o /\ t[j].var \in 1..na
    BY <2>2, <2>3, <2>4
  <2>6. d < b /\ IsFirst(b1, d) /\ b1[b].fn = b1[d].fn
    BY <1>6, <1>7 DEF b
  <2> QED
    BY ONLY <1>4, <2>1, <2>4, <2>5, <2>6, SitedMarks
<1>13. Outermost(fr2)
  <2>1. Len(fr) \in Nat /\ Len(fr2) = Len(fr)
    BY <1>3 DEF Gets
  <2>2. \A j \in 1..Len(fr) : j <= 2 => j # Len(fr)
    BY ONLY <1>2, <2>1
  <2> QED
    BY <1>1, <1>3, <2>1, <2>2 DEF Gets, Outermost
<1> QED
  BY <1>1, <1>11, <1>12, <1>13 DEF Lively, R

LEMMA DeclaredGets ==
  ASSUME NEW v \in Nat, NEW fr, Scoped(v, fr), NEW x \in Name, NEW a \in 1..v, Len(fr) >= 4
  PROVE  Gets(fr, Declared(fr, x, a), a)
<1> DEFINE n == Len(fr)
           S == Scope(v)
           r == fr[n]
           e == [name |-> x, var |-> a]
           own2 == Append(r.own, e)
           named2 == [r.named EXCEPT ![x] = a]
           r2 == [[r EXCEPT !.named = named2] EXCEPT !.own = own2]
           fr2 == Declared(fr, x, a)
<1>1. fr \in Seq(S)
  BY DEF Scoped
<1>2. n \in Nat /\ n >= 4 /\ n \in 1..n /\ fr \in [1..n -> S] /\ r \in S
  <2> HIDE DEF S
  <2>1. Len(fr) \in Nat /\ fr \in [1..Len(fr) -> S]
    BY <1>1, LenProperties
  <2>2. Len(fr) \in 1..Len(fr)
    BY <2>1
  <2> QED
    BY <2>1, <2>2
<1>3. r = [named |-> r.named, declarations_block |-> r.declarations_block, own |-> r.own]
        /\ r.own \in Own(v)
  BY <1>2 DEF Scope
<1>4. fr2 = [fr EXCEPT ![n] = r2]
  BY <1>2, <1>3 DEF Declared
<1>5. r2.own = own2
  <2> DEFINE r1 == [r EXCEPT !.named = named2]
  <2> HIDE DEF own2, named2, r
  <2>1. PICK p, d, w : r = [named |-> p, declarations_block |-> d, own |-> w]
    BY <1>3
  <2>2. r1 = [named |-> named2, declarations_block |-> d, own |-> w]
    BY ONLY <2>1
  <2>3. r2 = [r1 EXCEPT !.own = own2]
    OBVIOUS
  <2> HIDE DEF r1, r2
  <2>4. r2 = [named |-> named2, declarations_block |-> d, own |-> own2]
    BY ONLY <2>2, <2>3
  <2> QED
    BY ONLY <2>4
<1>6. Owns(r2) = Owns(r) \union {a}
  <2> DEFINE W == 1..v
             E == [name : Name, var : W]
             l == Len(r.own)
  <2>1. r.own \in Seq(E) /\ e \in E /\ e.var = a
    BY <1>3 DEF Own
  <2> HIDE DEF E, e
  <2>2. /\ Len(own2) = l + 1 /\ own2[l + 1] = e /\ l \in Nat
        /\ \A k \in 1..l : own2[k] = r.own[k]
    BY <2>1, AppendProperties, LenProperties
  <2> HIDE DEF own2, r2, r, l
  <2>3. \A k \in 1..(l + 1) : k \in 1..l \/ k = l + 1
    BY ONLY <2>2
  <2>4. l + 1 \in 1..(l + 1) /\ \A k \in 1..l : k \in 1..(l + 1)
    BY ONLY <2>2
  <2>5. Owns(r2) = {own2[k].var : k \in 1..(l + 1)} /\ Owns(r) = {r.own[k].var : k \in 1..l}
    BY <1>5, <2>2 DEF Owns, l
  <2>6. ASSUME NEW w \in Owns(r2)
        PROVE  w \in Owns(r) \union {a}
    <3>1. PICK k \in 1..(l + 1) : w = own2[k].var
      BY <2>5
    <3>2. CASE k \in 1..l
      BY <2>2, <2>5, <3>1, <3>2
    <3>3. CASE k = l + 1
      BY <2>1, <2>2, <3>1, <3>3
    <3> QED
      BY <2>3, <3>1, <3>2, <3>3
  <2>7. ASSUME NEW w \in Owns(r) \union {a}
        PROVE  w \in Owns(r2)
    <3>1. CASE w = a
      BY <2>1, <2>2, <2>4, <2>5, <3>1
    <3>2. CASE w \in Owns(r)
      <4>1. PICK k \in 1..l : w = r.own[k].var
        BY <2>5, <3>2
      <4>2. k \in 1..(l + 1) /\ own2[k] = r.own[k]
        BY <2>2, <2>4
      <4> QED
        BY <2>5, <4>1, <4>2
    <3> QED
      BY <3>1, <3>2
  <2> QED
    BY <2>6, <2>7
<1>7. \A j \in 1..n : fr2[j].declarations_block = fr[j].declarations_block
  <2>1. Len(fr) # 0
    BY <1>2
  <2> QED
    BY <2>1, DeclaredDecls
<1>8. Len(fr2) = n
  <2>1. Len(fr) # 0
    BY <1>2
  <2> QED
    BY <2>1, ScopedDeclare
<1> HIDE DEF r2
<1>9. \A j \in 1..n : fr2[j] = IF j = n THEN r2 ELSE fr[j]
  BY <1>2, <1>4
<1>10. Owns(fr2[n]) = Owns(fr[n]) \union {a} /\ \A j \in 1..n : j # n => Owns(fr2[j]) = Owns(fr[j])
  BY <1>2, <1>6, <1>9
<1> HIDE DEF fr2
<1> QED
  BY <1>2, <1>7, <1>8, <1>10 DEF Gets, fr2

LEMMA DeclareLives ==
  ASSUME IInv, WiredInv, LiveInv, Declare
  PROVE  LiveInv'
<1> DEFINE x == Instr
           n == x.name
           v == x.var
           begin == Min({k \in 1..Len(todo) : todo[k].do = "leave block"})
           y == todo[begin]
           i == LifetimeStart(v)
           b1 == IF x.has_value THEN With(blocks, ip, Store(v, Top)) ELSE blocks
           c == blocks'
           fr2 == frames'
<1>1. Doing("declare")
  BY DEF Declare
<1>2. /\ Runs /\ x.do = "declare" /\ IsSeq(Tail(todo)) /\ todo # <<>>
      /\ Refers(Len(blocks), n_allocas, Instr)
  BY <1>1, Running
<1>3. CASE Crash("null operand")
  <2>1. "null operand" # "running"
    OBVIOUS
  <2> QED
    BY <1>3, <2>1, CrashLives
<1>4. CASE ~Crash("null operand")
  <2>1. /\ c = With(b1, y.begin, i)
        /\ fr2 = [frames EXCEPT ![state].named[n] = v,
                                ![Len(frames)].own = Append(@, [name |-> n, var |-> v])]
        /\ Go(<<>>) /\ UNCHANGED <<state, ip, generated, errors, n_allocas>>
    BY <1>4 DEF Declare, SameRest, SameNames
  <2> SUFFICES ASSUME errors = 0
               PROVE  LiveInv'
    BY <2>1 DEF LiveInv
  <2>2. ~AtTop(x)
    <3> HIDE DEF x
    <3> QED
      BY <1>2 DEF AtTop
  <2>3. state = Len(frames) /\ Situated(blocks, ip, todo, frames, generated, n_allocas)
    BY <1>2, <2>2, Within0
  <2>4. MayAccess(blocks, b1, ip, v)
    BY DEF MayAccess, Store
  <2>5. Len(frames) >= 4 => Gets(frames, fr2, v)
    <3>1. n \in Name /\ v \in 1..n_allocas
      BY <1>2 DEF Refers
    <3>2. n_allocas \in Nat /\ Scoped(n_allocas, frames)
      BY Facts
    <3>3. fr2 = Declared(frames, n, v)
      BY <2>1, <2>3 DEF Declared
    <3> HIDE DEF fr2, n, v
    <3> QED
      BY <3>1, <3>2, <3>3, DeclaredGets
  <2>6. i.op = "start" /\ i.var = v
    BY DEF LifetimeStart
  <2>7. todo' = Tail(todo)
    BY <1>2, <2>1, GoNone
  <2>8. x = Head(todo)
    BY DEF Instr
  <2>9. begin = Min({j \in 1..Len(todo) : todo[j].do = "leave block"}) /\ y = todo[begin] /\ v = x.var
    OBVIOUS
  <2> HIDE DEF x, v, begin, y, i, b1, c, fr2
  <2>12. Declares(blocks, ip, todo, x, b1, begin, y, i, c, frames, fr2)
    BY <1>2, <2>1, <2>4, <2>5, <2>6, <2>8, <2>9 DEF Declares
  <2>10. Lively(c, ip, Tail(todo), fr2, n_allocas, generated) /\ Inside(Entries(Tail(todo)))
    BY ONLY <2>3, <2>12, DeclaringLives
  <2>11. Lively(blocks', ip', todo', frames', n_allocas', generated') /\ Inside(Entries(todo'))
    BY <2>1, <2>7, <2>10 DEF c, fr2
  <2> QED
    BY <2>11, LivesInside
<1> QED
  BY <1>3, <1>4

(* The basic blocks a function begins with.                                *)
LEMMA NewBlockCode ==
  ASSUME NEW f, NEW i, NEW n \in Nat, NEW u, u = [k \in 1..n |-> u[k]],
         \A k \in 1..n : ~IsTerminator(u[k])
  PROVE  LET r == [BasicBlock(f, i) EXCEPT !.insts = u]
         IN  r.fn = f /\ r.inserted = i /\ r.insts = u /\ Len(u) = n /\ Stops(u) = {}
<1> DEFINE e == <<>>
           q == [fn |-> f, inserted |-> i, insts |-> e]
           r == [q EXCEPT !.insts = u]
<1>1. [BasicBlock(f, i) EXCEPT !.insts = u] = r
  BY DEF BasicBlock
<1>2. r = [fn |-> f, inserted |-> i, insts |-> u]
  <2> HIDE DEF e
  <2> QED
    BY SMTT(30)
<1> HIDE DEF r
<1>3. r.fn = f /\ r.inserted = i /\ r.insts = u
  BY <1>2
<1>4. IsSeq(u) /\ Len(u) = n
  BY MapIs
<1>5. Stops(u) = {}
  BY <1>4 DEF Stops
<1> QED
  BY <1>1, <1>3, <1>4, <1>5

(* The first two basic blocks of a function.                               *)
Beginnings(d1, d2, f, na, n) ==
  /\ d1.fn = f /\ d1.inserted /\ d2.fn = f
  /\ Stops(d1.insts) = {} /\ Stops(d2.insts) = {}
  /\ \A k \in 1..Len(d1.insts) : /\ d1.insts[k].op \in {"alloca", "poison"}
                                 /\ d1.insts[k].var \in (na + 1)..(na + n)
  /\ \A op \in {"alloca", "poison"}, v \in (na + 1)..(na + n) :
       \E k \in 1..Len(d1.insts) : d1.insts[k].op = op /\ d1.insts[k].var = v
  /\ \A k \in 1..Len(d2.insts) : /\ d2.insts[k].op = "store"
                                 /\ d2.insts[k].var \in (na + 1)..(na + n)

LEMMA BegunIs ==
  ASSUME NEW bs, IsSeq(bs), NEW f, NEW na \in Nat, NEW n \in Nat,
         NEW d1, NEW d2, Beginnings(d1, d2, f, na, n), NEW c, c = bs \o <<d1, d2>>
  PROVE  Begun(bs, c, f, na, n)
<1> DEFINE s == <<d1, d2>>
           l == Len(bs)
<1>1. IsSeq(s) /\ Len(s) = 2 /\ s[1] = d1 /\ s[2] = d2
  <2>1. s = [k \in 1..2 |-> s[k]] /\ 2 \in Nat
    OBVIOUS
  <2>2. s[1] = d1 /\ s[2] = d2
    OBVIOUS
  <2> HIDE DEF s
  <2> QED
    BY <2>1, <2>2, MapIs
<1>2. /\ c = bs \o s /\ Len(c) = l + 2 /\ l \in Nat
      /\ \A k \in 1..l : c[k] = bs[k]
      /\ c[l + 1] = d1 /\ c[l + 2] = d2
  <2>1. c = bs \o s
    OBVIOUS
  <2> HIDE DEF s
  <2>2. /\ Len(c) = Len(bs) + Len(s) /\ Len(bs) \in Nat
        /\ \A k \in 1..Len(bs) : c[k] = bs[k]
        /\ \A k \in 1..Len(s) : c[Len(bs) + k] = s[k]
    BY <1>1, <2>1, JoinIs
  <2>3. 1 \in 1..Len(s) /\ 2 \in 1..Len(s)
    BY <1>1
  <2> QED
    BY <1>1, <2>1, <2>2, <2>3
<1> HIDE DEF s
<1>3. Code0(c, Len(bs) + 1) = d1.insts /\ Code0(c, Len(bs) + 2) = d2.insts
  BY <1>2 DEF Code0
<1>4. c[Len(bs) + 1].fn = f /\ c[Len(bs) + 1].inserted /\ c[Len(bs) + 2].fn = f
  BY <1>2 DEF Beginnings
<1>5. /\ Len(bs) \in Nat /\ na \in Nat /\ n \in Nat /\ Len(c) = Len(bs) + 2
      /\ \A k \in 1..Len(bs) : c[k] = bs[k]
  BY <1>2
<1> DEFINE e1 == Code0(c, Len(bs) + 1)
           e2 == Code0(c, Len(bs) + 2)
<1>6. Beginnings(d1, d2, f, na, n) /\ e1 = d1.insts /\ e2 = d2.insts
  BY <1>3
<1> HIDE DEF e1, e2
<1>7. /\ Stops(e1) = {} /\ Stops(e2) = {}
      /\ \A k \in 1..Len(e1) : e1[k].op \in {"alloca", "poison"} /\ e1[k].var \in (na + 1)..(na + n)
      /\ \A op \in {"alloca", "poison"}, v \in (na + 1)..(na + n) :
           \E k \in 1..Len(e1) : e1[k].op = op /\ e1[k].var = v
      /\ \A k \in 1..Len(e2) : e2[k].op = "store" /\ e2[k].var \in (na + 1)..(na + n)
  BY ONLY <1>6 DEF Beginnings
<1> QED
  BY <1>4, <1>5, <1>7, Zenon DEF Begun, e1, e2

(* A function begins.                                                      *)
Commences(bs, c, f, na, n, gen, s, fr, fr2, x) ==
  /\ Begun(bs, c, f, na, n) /\ Sited(bs, na, gen) /\ f \notin gen /\ Stilled(bs, na)
  /\ Nested(s) /\ (\A r \in Entries(s) : AtTop(r)) /\ Outermost(fr)
  /\ Len(fr) = 2 /\ Len(fr2) = 3 /\ (\A j \in 1..2 : fr2[j] = fr[j])
  /\ fr2[3].declarations_block = Len(bs) + 1
  /\ \A v \in Owns(fr2[3]) : v \in (na + 1)..(na + n)
  /\ x.do = "end function" /\ x.decls = Len(bs) + 1

LEMMA CommencesLives ==
  ASSUME NEW bs, NEW c, NEW f, NEW na, NEW n, NEW gen, NEW s, NEW fr, NEW fr2, NEW x,
         Commences(bs, c, f, na, n, gen, s, fr, fr2, x), NEW q, q = Len(bs) + 2,
         NEW u, u = Cons(x, s)
  PROVE  Lively(c, q, u, fr2, na + n, gen \union {f}) /\ Inside(Entries(u)) /\ IsSeq(u)
<1> DEFINE R == Entries(s)
           P == Entries(u)
<1>1. /\ Begun(bs, c, f, na, n) /\ Sited(bs, na, gen) /\ f \notin gen /\ Stilled(bs, na)
      /\ Nested(s) /\ (\A r \in R : AtTop(r)) /\ Outermost(fr)
      /\ Len(fr) = 2 /\ Len(fr2) = 3 /\ (\A j \in 1..2 : fr2[j] = fr[j])
      /\ fr2[3].declarations_block = Len(bs) + 1
      /\ \A v \in Owns(fr2[3]) : v \in (na + 1)..(na + n)
      /\ x.do = "end function" /\ x.decls = Len(bs) + 1
  BY DEF Commences
<1>2. IsSeq(s)
  BY <1>1 DEF Nested
<1>3. P = {x} \union R /\ IsSeq(u)
  <2>1. P = {x} \union R
    BY <1>2, ConsEntries
  <2>2. IsSeq(u)
    BY <1>2, ConsIs DEF Cons
  <2> QED
    BY <2>1, <2>2
<1>4. Len(bs) \in Nat /\ na \in Nat /\ n \in Nat
  BY <1>1 DEF Begun
<1>5. Refs(x) = {Len(bs) + 1, Len(bs) + 1 + 1} /\ Vars(x) = {} /\ x.do # "leave block"
  <2> DEFINE b == Len(bs) + 1
  <2>1. Owed(x) = {x.decls} /\ Aims(x) = {x.decls + 1} /\ x.decls = b
    BY <1>1, EndFunctionOwes
  <2> HIDE DEF b
  <2>2. Refs(x) = {b, b + 1}
    BY <2>1 DEF Refs
  <2>3. Vars(x) = {} /\ x.do # "leave block"
    BY <1>1 DEF Vars
  <2> QED
    BY <2>2, <2>3 DEF b
<1>6. \A r \in R : Refs(r) = {} /\ Vars(r) = {} /\ r.do # "leave block"
  BY <1>1, TopBare DEF Bare
<1>7. \A y \in P : /\ y.do # "leave block" /\ Vars(y) = {}
                   /\ \A r \in Refs(y) : r > Len(bs)
  <2>1. \A r \in Refs(x) : r > Len(bs)
    <3>1. Len(bs) + 1 > Len(bs) /\ Len(bs) + 1 + 1 > Len(bs)
      BY ONLY <1>4
    <3> QED
      BY <1>5, <3>1
  <2> QED
    BY <1>3, <1>5, <1>6, <2>1
<1>8. Nests(x, R)
  BY <1>5, <1>6 DEF Nests
<1>9. Nested(u)
  BY <1>1, <1>2, <1>8, NestedCons
<1>10. Owns(fr2[1]) = {} /\ Owns(fr2[2]) = {}
  <2>1. 1 \in 1..2 /\ 2 \in 1..2 /\ 1 <= 2 /\ 2 <= 2
    OBVIOUS
  <2>2. 1 \in 1..Len(fr) /\ 2 \in 1..Len(fr)
    BY <1>1, <2>1
  <2> QED
    BY <1>1, <2>1, <2>2 DEF Outermost
<1>11. Outermost(fr2)
  <2>1. \A j \in 1..3 : j <= 2 => j = 1 \/ j = 2
    OBVIOUS
  <2> QED
    BY <1>1, <1>10, <2>1 DEF Outermost
<1>12. Sited(c, na + n, gen \union {f})
  BY <1>1, SitedBegin
<1>13. Inside(P)
  BY <1>1, <1>3 DEF Inside
<1> HIDE DEF P, R
<1>14. Penned(c, Len(bs) + 2, P, fr2, na + n)
  BY <1>1, <1>7, <1>10, PennedBegin
<1> QED
  BY <1>3, <1>9, <1>11, <1>12, <1>13, <1>14 DEF Lively, P

LEMMA GenFunctionDefLives ==
  ASSUME IInv, WiredInv, LiveInv, GenFunctionDef
  PROVE  LiveInv'
<1> DEFINE bad == T.name \in generated
           n == Len(T.params)
           na == n_allocas
           params == [k \in 1..n |-> [name |-> T.params[k], var |-> na + k]]
           latest(z) == {p \in 1..n : T.params[p] = z}
           named == [z \in Name |-> IF latest(z) = {} THEN Named[z]
                                    ELSE na + Max(latest(z))]
           r == [Frame(named, New(1)) EXCEPT !.own = params]
           u1 == [k \in 1..(2 * n) |->
                    IF k % 2 = 1 THEN Alloca(na + (k + 1) \div 2, T.params[(k + 1) \div 2])
                                 ELSE Poison(na + k \div 2)]
           u2 == [k \in 1..n |-> Store(named[T.params[k]], Constant)]
           yes == TRUE
           d1 == [BasicBlock(T.name, yes) EXCEPT !.insts = u1]
           d2 == [BasicBlock(T.name, yes) EXCEPT !.insts = u2]
           y == Gen(Kid(1))
           x == [do |-> "end function", decls |-> New(1), old |-> state]
           rest == Tail(todo)
           c == blocks'
           fr == frames'
<1>1. Generating("Fn")
  BY DEF GenFunctionDef
<1>2. Runs /\ todo # <<>> /\ T \in Trees /\ T.node = "Fn" /\ IsSeq(rest) /\ AtTop(Instr)
  <2>1. T \in Trees /\ T.node = "Fn" /\ Runs /\ IsSeq(rest)
    BY <1>1, AtStmt
  <2>2. todo # <<>> /\ Instr.do = "gen" /\ Instr.tree.node = "Fn"
    BY <1>1 DEF Generating, Doing
  <2> QED
    BY <2>1, <2>2 DEF AtTop
<1>3. CASE bad
  <2>1. Throw
    BY <1>3 DEF GenFunctionDef
  <2> QED
    BY <2>1, ThrowLives
<1>4. CASE ~bad
  <2>1. /\ c = blocks \o <<d1, d2>>
        /\ ip' = New(2) /\ generated' = generated \union {T.name} /\ n_allocas' = na + n
        /\ fr = Append(frames, r)
        /\ todo' = <<y, x>> \o rest
        /\ errors' = errors
    BY <1>4 DEF GenFunctionDef, Go
  <2> SUFFICES ASSUME errors = 0
               PROVE  LiveInv'
    BY <2>1 DEF LiveInv
  <2>2. /\ Outermost(frames) /\ Sited(blocks, na, generated) /\ Stilled(blocks, na)
        /\ Nested(rest) /\ \A q \in Entries(rest) : AtTop(q)
    BY <1>2, AtTopLives
  <2>3. Len(frames) = 2
    <3>1. Settled({Instr}, Len(frames)) /\ Instr.do = "gen"
      BY <1>1, <1>2, Outward DEF Generating, Doing
    <3> QED
      BY <3>1 DEF Settled
  <2>4. T.params \in Seq(Name) /\ Kid(1) \in Exprs
    <3>1. T.node \in {"ExprStmt", "Return", "Fn"}
      BY <1>2
    <3> QED
      BY <1>2, <3>1, KidsAre, OneKid DEF Kid
  <2>5. n \in Nat /\ \A k \in 1..n : T.params[k] \in Name
    BY <2>4, LenProperties, ElementOfSeq
  <2>6. na \in Nat /\ IsSeq(frames) /\ IsSeq(blocks) /\ Len(blocks) \in Nat
    <3> DEFINE S == Scope(n_allocas)
    <3>1. frames \in Seq(S) /\ Len(blocks) \in Nat /\ na \in Nat
      BY Facts DEF Scoped
    <3> HIDE DEF S
    <3>2. IsSeq(frames)
      BY <3>1, SeqIs
    <3>3. Graph(blocks, {}, {}, Cardinality(generated))
      BY <1>2, Outward
    <3>4. IsSeq(blocks)
      BY <3>3 DEF Graph, Shape
    <3> QED
      BY <3>1, <3>2, <3>4
  <2>7. \A k \in 1..n : named[T.params[k]] \in (na + 1)..(na + n)
    <3> SUFFICES ASSUME NEW k \in 1..n
                 PROVE  named[T.params[k]] \in (na + 1)..(na + n)
      OBVIOUS
    <3> DEFINE z == T.params[k]
               K == latest(z)
    <3>1. k \in K /\ z \in Name
      BY <2>5
    <3>2. K # {} /\ n \in Int /\ \A p \in K : p \in 1..n /\ p \in Int /\ p <= n
      BY <2>5, <3>1
    <3>3. named[z] = na + Max(K)
      BY <3>1, <3>2
    <3> HIDE DEF K, z, n, named
    <3>4. Max(K) \in K
      <4>1. K \in SUBSET Int
        BY <3>2
      <4> QED
        BY <3>2, <4>1, GreatestOf
    <3>5. Max(K) \in 1..n
      BY <3>2, <3>4
    <3>6. na + Max(K) \in (na + 1)..(na + n)
      BY ONLY <2>5, <2>6, <3>5
    <3> QED
      BY <3>3, <3>6 DEF z
  <2>9. /\ u1 = [k \in 1..(2 * n) |-> u1[k]]
        /\ \A k \in 1..(2 * n) : k % 2 = 1 => u1[k].op = "alloca" /\ u1[k].var = na + (k + 1) \div 2
        /\ \A k \in 1..(2 * n) : k % 2 # 1 => u1[k].op = "poison" /\ u1[k].var = na + k \div 2
    BY DEF Alloca, Poison
  <2>8. /\ d1.fn = T.name /\ d1.inserted = yes /\ d1.insts = u1 /\ Len(u1) = 2 * n /\ Stops(u1) = {}
    <3> HIDE DEF u1, n, yes
    <3>1. 2 * n \in Nat /\ \A k \in 1..(2 * n) : ~IsTerminator(u1[k])
      <4> DEFINE l == 2 * n
      <4>1. /\ \A k \in 1..l : k % 2 = 1 => u1[k].op = "alloca"
            /\ \A k \in 1..l : k % 2 # 1 => u1[k].op = "poison"
        BY <2>9
      <4> HIDE DEF l
      <4>2. \A k \in 1..l : u1[k].op \in {"alloca", "poison"}
        BY ONLY <4>1
      <4>3. \A k \in 1..l : ~IsTerminator(u1[k])
        BY ONLY <4>2 DEF IsTerminator, Terminators
      <4>4. 2 * n \in Nat
        BY ONLY <2>5
      <4> QED
        BY <4>3, <4>4 DEF l
    <3> DEFINE l == 2 * n
    <3>2. l \in Nat /\ u1 = [k \in 1..l |-> u1[k]] /\ \A k \in 1..l : ~IsTerminator(u1[k])
      BY <2>9, <3>1
    <3> HIDE DEF l
    <3>3. /\ d1.fn = T.name /\ d1.inserted = yes /\ d1.insts = u1 /\ Len(u1) = l /\ Stops(u1) = {}
      BY <3>2, NewBlockCode
    <3> QED
      BY <3>3 DEF l
  <2>10. /\ d2.fn = T.name /\ d2.insts = u2 /\ Len(u2) = n /\ Stops(u2) = {}
         /\ \A k \in 1..n : u2[k].op = "store" /\ u2[k].var \in (na + 1)..(na + n)
    <3> HIDE DEF named
    <3>1. u2 = [k \in 1..n |-> u2[k]] /\ \A k \in 1..n : ~IsTerminator(u2[k])
      BY DEF Store, IsTerminator, Terminators
    <3>2. \A k \in 1..n : u2[k].op = "store" /\ u2[k].var \in (na + 1)..(na + n)
      BY <2>7 DEF Store
    <3> HIDE DEF u2, n, yes
    <3> QED
      BY <2>5, <3>1, <3>2, NewBlockCode
  <2>11. yes
    OBVIOUS
  <2>12. r.declarations_block = Len(blocks) + 1 /\ r.own = params
    <3> DEFINE b == New(1)
               e == <<>>
    <3>1. b = Len(blocks) + 1
      BY DEF New
    <3>2. r = [[named |-> named, declarations_block |-> b, own |-> e] EXCEPT !.own = params]
      BY DEF Frame
    <3> HIDE DEF named, params, b, e
    <3>3. [[named |-> named, declarations_block |-> b, own |-> e] EXCEPT !.own = params]
            = [named |-> named, declarations_block |-> b, own |-> params]
      OBVIOUS
    <3> HIDE DEF r
    <3> QED
      BY <3>1, <3>2, <3>3
  <2>13. Len(params) = n /\ \A k \in 1..n : params[k].var \in (na + 1)..(na + n)
    <3>1. params = [k \in 1..n |-> params[k]] /\ \A k \in 1..n : params[k].var = na + k
      OBVIOUS
    <3>2. \A k \in 1..n : na + k \in (na + 1)..(na + n)
      BY ONLY <2>5, <2>6
    <3> HIDE DEF params, n
    <3>3. Len(params) = n
      BY <2>5, <3>1, MapIs
    <3> QED
      BY <3>1, <3>2, <3>3
  <2>14. x.do = "end function" /\ x.decls = Len(blocks) + 1
    BY DEF New
  <2>15. ip' = Len(blocks) + 2
    BY <2>1 DEF New
  <2>16. y.do = "gen"
    BY DEF Gen
  <2> HIDE DEF yes, d1, d2, r, x, y, bad, n, u1, u2, named, params, latest
  <2>17. Owns(r) = {params[k].var : k \in 1..n}
    BY <2>12, <2>13 DEF Owns
  <2>18. Len(fr) = 3 /\ fr[3] = r /\ \A j \in 1..2 : fr[j] = frames[j]
    <3>1. Len(fr) = Len(frames) + 1 /\ fr[Len(frames) + 1] = r
            /\ \A j \in 1..Len(frames) : fr[j] = frames[j]
      BY <2>1, <2>6, AppendIs
    <3> QED
      BY ONLY <2>3, <3>1
  <2> DEFINE f == T.name
             u == Cons(x, rest)
  <2>19. Beginnings(d1, d2, f, na, n)
    <3>1. \A k \in 1..(2 * n) : u1[k].op \in {"alloca", "poison"} /\ u1[k].var \in (na + 1)..(na + n)
      <4> SUFFICES ASSUME NEW k \in 1..(2 * n)
                   PROVE  u1[k].op \in {"alloca", "poison"} /\ u1[k].var \in (na + 1)..(na + n)
        OBVIOUS
      <4>1. CASE k % 2 = 1
        <5>1. (k + 1) \div 2 \in 1..n
          BY ONLY <2>5, <4>1, k \in 1..(2 * n)
        <5>2. na + (k + 1) \div 2 \in (na + 1)..(na + n)
          BY ONLY <2>5, <2>6, <5>1
        <5> QED
          BY <2>9, <4>1, <5>2
      <4>2. CASE k % 2 # 1
        <5>1. k \div 2 \in 1..n
          BY ONLY <2>5, <4>2, k \in 1..(2 * n)
        <5>2. na + k \div 2 \in (na + 1)..(na + n)
          BY ONLY <2>5, <2>6, <5>1
        <5> QED
          BY <2>9, <4>2, <5>2
      <4> QED
        BY <4>1, <4>2
    <3>2. ASSUME NEW v \in (na + 1)..(na + n)
          PROVE  /\ \E k \in 1..(2 * n) : u1[k].op = "alloca" /\ u1[k].var = v
                 /\ \E k \in 1..(2 * n) : u1[k].op = "poison" /\ u1[k].var = v
      <4> DEFINE i == v - na
                 k1 == 2 * i - 1
                 k2 == 2 * i
      <4>1. /\ k1 \in 1..(2 * n) /\ k1 % 2 = 1 /\ na + (k1 + 1) \div 2 = v
            /\ k2 \in 1..(2 * n) /\ k2 % 2 # 1 /\ na + k2 \div 2 = v
        BY ONLY <2>5, <2>6, v \in (na + 1)..(na + n)
      <4> HIDE DEF k1, k2
      <4> QED
        BY <2>9, <4>1
    <3> QED
      BY <2>8, <2>10, <2>11, <3>1, <3>2 DEF Beginnings
  <2>20. Begun(blocks, c, f, na, n)
    BY <2>1, <2>5, <2>6, <2>19, BegunIs
  <2>21. Commences(blocks, c, f, na, n, generated, rest, frames, fr, x)
    <3> HIDE DEF f, c, fr, rest
    <3>1. f \notin generated
      BY <1>4 DEF bad, f
    <3>2. \A v \in Owns(fr[3]) : v \in (na + 1)..(na + n)
      BY <2>13, <2>17, <2>18
    <3>3. fr[3].declarations_block = Len(blocks) + 1
      BY <2>12, <2>18
    <3> QED
      BY <2>2, <2>3, <2>14, <2>18, <2>20, <3>1, <3>2, <3>3 DEF Commences
  <2>22. todo' = <<y>> \o u
    <3>1. IsSeq(rest)
      BY <1>2
    <3> HIDE DEF rest
    <3>2. <<y, x>> \o rest = Cons(y, Cons(x, rest))
      BY ONLY <3>1, Tuple2
    <3> QED
      BY ONLY <2>1, <3>2 DEF Cons
  <2> HIDE DEF u, f, c, fr, rest
  <2> DEFINE gen == generated \union {f}
             m == na + n
             q == ip'
  <2>23. Lively(c, q, u, fr, m, gen) /\ Inside(Entries(u))
    <3>1. q = Len(blocks) + 2 /\ u = Cons(x, rest)
      BY <2>15 DEF u
    <3> HIDE DEF q
    <3> QED
      BY <2>21, <3>1, CommencesLives
  <2> DEFINE b == <<y>>
  <2>24. Bares(b)
    <3>1. y.do \notin Busy
      BY <2>16 DEF Busy
    <3> QED
      BY <3>1, BareIs, BareOne
  <2>26. gen = generated' /\ m = n_allocas' /\ todo' = b \o u
    BY <2>1, <2>22 DEF f
  <2> HIDE DEF gen, m, q, b
  <2>25. Lively(c, q, b \o u, fr, m, gen) /\ Inside(Entries(b \o u))
    BY <2>23, <2>24, LivelyBares
  <2>27. Lively(blocks', ip', todo', frames', n_allocas', generated') /\ Inside(Entries(todo'))
    BY <2>25, <2>26 DEF c, fr, q
  <2> QED
    BY <2>27, LivesInside
<1> QED
  BY <1>3, <1>4

(* Every step keeps the variables where they live.                         *)
LEMMA StepLives ==
  ASSUME IInv, WiredInv, LiveInv, [Next]_vars
  PROVE  LiveInv'
<1>1. CASE EndOfTry
  BY <1>1, EndOfTryLives
<1>2. CASE GenConstant
  BY <1>2, GenConstantLives
<1>3. CASE GenOperator
  BY <1>3, GenOperatorLives
<1>4. CASE CreateOperator
  BY <1>4, CreateOperatorLives
<1>5. CASE NextOperand
  BY <1>5, NextOperandLives
<1>6. CASE GenVarRef
  BY <1>6, GenVarRefLives
<1>7. CASE GenFunctionCall
  BY <1>7, GenFunctionCallLives
<1>8. CASE CreateCall
  BY <1>8, CreateCallLives
<1>9. CASE EnterBlock
  BY <1>9, EnterBlockLives
<1>10. CASE NextStatement
  BY <1>10, NextStatementLives
<1>11. CASE NoValue
  BY <1>11, NoValueLives
<1>12. CASE LeaveBlock
  BY <1>12, LeaveBlockLives
<1>13. CASE GenIf
  BY <1>13, GenIfLives
<1>14. CASE IfTrue
  BY <1>14, IfTrueLives
<1>15. CASE IfFalse
  BY <1>15, IfFalseLives
<1>16. CASE PostIf
  BY <1>16, PostIfLives
<1>17. CASE GenWhile
  BY <1>17, GenWhileLives
<1>18. CASE LoopBody
  BY <1>18, LoopBodyLives
<1>19. CASE PostWhile
  BY <1>19, PostWhileLives
<1>20. CASE GenExprStmt
  BY <1>20, GenExprStmtLives
<1>21. CASE Drop
  BY <1>21, DropLives
<1>22. CASE GenReturn
  BY <1>22, GenReturnLives
<1>23. CASE CreateRet
  BY <1>23, CreateRetLives
<1>24. CASE GenAssignment
  BY <1>24, GenAssignmentLives
<1>25. CASE Assign
  BY <1>25, AssignLives
<1>26. CASE GenDeclAssignment
  BY <1>26, GenDeclAssignmentLives
<1>27. CASE Declare
  BY <1>27, DeclareLives
<1>28. CASE GenFunctionDef
  BY <1>28, GenFunctionDefLives
<1>29. CASE EndFunction
  BY <1>29, EndFunctionLives
<1>30. CASE Prototypes
  BY <1>30, PrototypesLives
<1>31. CASE NextDefinition
  BY <1>31, NextDefinitionLives
<1>32. CASE GlobalCodegen
  BY <1>32, GlobalCodegenLives
<1>33. CASE VerifyModule
  BY <1>33, VerifyModuleLives
<1>34. CASE UNCHANGED vars
  BY <1>34, StutterLives
<1> QED
  BY <1>1, <1>2, <1>3, <1>4, <1>5, <1>6, <1>7, <1>8, <1>9, <1>10, <1>11,
     <1>12, <1>13, <1>14, <1>15, <1>16, <1>17, <1>18, <1>19, <1>20, <1>21,
     <1>22, <1>23, <1>24, <1>25, <1>26, <1>27, <1>28, <1>29, <1>30, <1>31,
     <1>32, <1>33, <1>34
     DEF Next

LEMMA LiveAlways == Spec => [](IInv /\ WiredInv /\ LiveInv)
<1>1. Init => IInv /\ WiredInv /\ LiveInv
  BY InitInv, InitWires, InitLives
<1>2. IInv /\ WiredInv /\ LiveInv /\ [Next]_vars => IInv' /\ WiredInv' /\ LiveInv'
  BY StepInv, StepWires, StepLives
<1> QED
  BY <1>1, <1>2, PTL DEF Spec

-----------------------------------------------------------------------------
(* What is reached: n steps from the basic blocks `from`.                  *)
Step(X, avoid) == X \union ((UNION {Successors(b) : b \in X}) \ avoid)
IsRun(r, from, avoid, m) ==
  r = [n \in 0..m |-> IF n = 0 THEN from \ avoid ELSE Step(r[n - 1], avoid)]

LEMMA ReachedIs ==
  ASSUME NEW from, NEW avoid
  PROVE  Reached(from, avoid) = (CHOOSE r : IsRun(r, from, avoid, Len(blocks)))[Len(blocks)]
BY DEF Reached, IsRun, Step

LEMMA RunIs ==
  ASSUME NEW from, NEW avoid, NEW m \in Nat
  PROVE  \E r : IsRun(r, from, avoid, m)
<1> DEFINE S == {n \in Nat : \E r : IsRun(r, from, avoid, n)}
           X == from \ avoid
<1>1. 0 \in S
  <2> DEFINE r == [n \in 0..0 |-> X]
  <2>1. r = [n \in 0..0 |-> IF n = 0 THEN X ELSE Step(r[n - 1], avoid)]
    <3>1. \A n \in 0..0 : n = 0
      OBVIOUS
    <3> HIDE DEF X
    <3> QED
      BY <3>1
  <2> HIDE DEF r
  <2>2. IsRun(r, from, avoid, 0)
    BY <2>1 DEF IsRun
  <2> QED
    BY <2>2
<1>2. ASSUME NEW n \in Nat, n \in S
      PROVE  n + 1 \in S
  <2>1. PICK r : IsRun(r, from, avoid, n)
    BY <1>2
  <2> DEFINE D == 0..n
             E == 0..(n + 1)
             last == Step(r[n], avoid)
             q == [k \in E |-> IF k = n + 1 THEN last ELSE r[k]]
  <2>2. r = [k \in D |-> IF k = 0 THEN X ELSE Step(r[k - 1], avoid)]
    BY <2>1 DEF IsRun
  <2>3. \A k \in E : /\ k \in D \/ k = n + 1
                     /\ k # 0 => k - 1 \in D /\ k - 1 \in E /\ k - 1 # n + 1
    OBVIOUS
  <2>4. n + 1 # 0 /\ (n + 1) - 1 = n /\ \A k \in D : k # n + 1
    OBVIOUS
  <2> HIDE DEF D, E, X, last
  <2>5. \A k \in D : r[k] = IF k = 0 THEN X ELSE Step(r[k - 1], avoid)
    BY <2>2
  <2>6. \A k \in E : q[k] = IF k = n + 1 THEN last ELSE r[k]
    OBVIOUS
  <2>7. q = [k \in E |-> q[k]]
    OBVIOUS
  <2> HIDE DEF q
  <2>8. ASSUME NEW k \in E
        PROVE  q[k] = IF k = 0 THEN X ELSE Step(q[k - 1], avoid)
    <3>1. CASE k = n + 1
      <4>1. k - 1 = n /\ k # 0 /\ q[k] = last
        BY <2>4, <2>6, <3>1
      <4>2. q[n] = r[n]
        BY <2>3, <2>6, <4>1
      <4> QED
        BY <4>1, <4>2 DEF last
    <3>2. CASE k # n + 1
      <4>1. k \in D /\ q[k] = r[k]
        BY <2>3, <2>6, <3>2
      <4>2. CASE k = 0
        BY <2>5, <4>1, <4>2
      <4>3. CASE k # 0
        <5>1. q[k - 1] = r[k - 1]
          BY <2>3, <2>6, <4>3
        <5> QED
          BY <2>5, <4>1, <4>3, <5>1
      <4> QED
        BY <4>2, <4>3
    <3> QED
      BY <3>1, <3>2
  <2>9. q = [k \in E |-> IF k = 0 THEN X ELSE Step(q[k - 1], avoid)]
    BY <2>7, <2>8
  <2>10. IsRun(q, from, avoid, n + 1)
    BY <2>9 DEF IsRun, E, X
  <2> QED
    BY <2>10
<1> HIDE DEF S
<1>3. Nat \subseteq S
  BY ONLY <1>1, <1>2, Induction
<1> QED
  BY <1>3 DEF S

(* What control does not leave but for `avoid`.                            *)
LEMMA ReachedWithin ==
  ASSUME NEW from, NEW avoid, NEW Y, Len(blocks) \in Nat,
         \A x \in from : x \in avoid \/ x \in Y,
         \A b \in Y : \A t \in Successors(b) : t \in avoid \/ t \in Y
  PROVE  \A b \in Reached(from, avoid) : b \in Y
<1> DEFINE m == Len(blocks)
           r == CHOOSE q : IsRun(q, from, avoid, m)
           S == {n \in Nat : n \in 0..m => \A b \in r[n] : b \in Y}
<1>1. IsRun(r, from, avoid, m)
  BY RunIs
<1>2. Reached(from, avoid) = r[m]
  BY ReachedIs
<1> HIDE DEF r
<1> DEFINE D == 0..m
           X == from \ avoid
<1>3. r = [n \in D |-> IF n = 0 THEN X ELSE Step(r[n - 1], avoid)]
  BY <1>1 DEF IsRun
<1>4. 0 \in D /\ m \in D /\ \A n \in Nat : n + 1 \in D => n \in D /\ n + 1 # 0 /\ (n + 1) - 1 = n
  OBVIOUS
<1> HIDE DEF D, X
<1>5. \A n \in D : r[n] = IF n = 0 THEN X ELSE Step(r[n - 1], avoid)
  BY <1>3
<1>6. 0 \in S
  <2>1. r[0] = X
    BY <1>4, <1>5
  <2>2. \A b \in X : b \in Y
    BY DEF X
  <2> QED
    BY <2>1, <2>2
<1>7. ASSUME NEW n \in Nat, n \in S
      PROVE  n + 1 \in S
  <2> SUFFICES ASSUME n + 1 \in D
               PROVE  \A b \in r[n + 1] : b \in Y
    BY DEF D
  <2>1. n \in D /\ r[n + 1] = Step(r[n], avoid)
    BY <1>4, <1>5
  <2>2. \A b \in r[n] : b \in Y
    BY <1>7, <2>1 DEF D
  <2> QED
    BY <2>1, <2>2 DEF Step
<1> HIDE DEF S
<1>8. Nat \subseteq S
  BY ONLY <1>6, <1>7, Induction
<1>9. m \in S
  BY <1>8
<1> QED
  BY <1>2, <1>4, <1>9 DEF S, D

(* What the cleanup pass leaves of a basic block.                          *)
LEMMA CleanedKeeps ==
  ASSUME NEW u, IsSeq(u)
  PROVE  /\ \A i \in ToSet(Cleaned(u)) : \E k \in 1..Len(u) : i = u[k]
         /\ ~Late(u) => \A k \in 1..Len(u) : u[k] \in ToSet(Cleaned(u))
         /\ Stops(u) # {} => ToSet(Last(Cleaned(u)).to) \subseteq Targets(u)
<1> DEFINE S == Stops(u)
           m == Min(S)
           v == SubSeq(u, 1, m)
           w == Cleaned(u)
<1>1. SelectInSeq(u, IsTerminator) = IF S # {} THEN Min(S) ELSE 0
  BY DEF SelectInSeq, Stops
<1>2. Len(u) \in Nat /\ ToSet(u) = {u[k] : k \in 1..Len(u)}
  <2>1. Len(u) \in Nat /\ DOMAIN u = 1..Len(u)
    BY ListIs
  <2> QED
    BY <2>1 DEF ToSet
<1>3. CASE S = {}
  <2>1. w = u
    BY <1>1, <1>3 DEF Cleaned
  <2> QED
    BY <1>2, <1>3, <2>1
<1>4. CASE S # {}
  <2>1. m \in S /\ \A k \in S : m <= k
    <3>1. S \in SUBSET Int /\ S # {} /\ 1 \in Int /\ \A k \in S : 1 <= k
      BY <1>2, <1>4 DEF Stops
    <3> HIDE DEF S
    <3> QED
      BY ONLY <3>1, LeastOf
  <2>2. m \in 1..Len(u)
    BY <2>1 DEF Stops
  <2>3. m \in Nat /\ m # 0 /\ m \in 1..m /\ m <= Len(u) /\ \A k \in 1..m : k \in 1..Len(u)
    <3> HIDE DEF m
    <3> QED
      BY ONLY <1>2, <2>2
  <2>4. w = v
    BY <1>1, <1>4, <2>3 DEF Cleaned
  <2> HIDE DEF S, m
  <2>5. IsSeq(v) /\ Len(v) = m /\ \A k \in 1..m : v[k] = u[k]
    <3>1. 1 \in Nat /\ 1 <= 1 /\ 1 <= m + 1 /\ m - 1 + 1 = m /\ \A k \in 1..m : 1 + k - 1 = k
      BY ONLY <2>3
    <3>2. IsSeq(v) /\ Len(v) = m - 1 + 1 /\ \A k \in 1..(m - 1 + 1) : v[k] = u[1 + k - 1]
      BY <2>3, <3>1, SubSeqIs
    <3> HIDE DEF v
    <3> QED
      BY <3>1, <3>2
  <2> HIDE DEF v
  <2>6. ToSet(v) = {v[k] : k \in 1..m}
    <3>1. DOMAIN v = 1..Len(v)
      BY <2>5, ListIs
    <3> QED
      BY <2>5, <3>1 DEF ToSet
  <2>7. \A i \in ToSet(v) : \E k \in 1..Len(u) : i = u[k]
    BY <2>3, <2>5, <2>6
  <2>8. ASSUME ~Late(u)
        PROVE  \A k \in 1..Len(u) : u[k] \in ToSet(v)
    <3>1. m = Len(u)
      BY <2>1, <2>8 DEF Late, S
    <3> QED
      BY <2>5, <2>6, <3>1
  <2>9. ToSet(Last(v).to) \subseteq Targets(u)
    <3>1. Last(v) = u[m]
      BY <2>3, <2>5 DEF Last
    <3> QED
      BY <2>1, <3>1 DEF Targets, S
  <2> QED
    BY <2>4, <2>7, <2>8, <2>9
<1> QED
  BY <1>3, <1>4

LEMMA HavingIs ==
  ASSUME Shape(blocks), NEW op, NEW v
  PROVE  /\ \A b \in Having(op, v) : b \in Marked(blocks, op, v)
         /\ \A b \in Marked(blocks, op, v) : ~Late(Code0(blocks, b)) => b \in Having(op, v)
<1>1. ASSUME NEW b \in Having(op, v)
      PROVE  b \in Marked(blocks, op, v)
  <2> DEFINE u == blocks[b].insts
  <2>1. b \in 1..Len(blocks) /\ \E i \in ToSet(Code(b)) : i.op = op /\ i.var = v
    BY DEF Having
  <2>2. PICK i \in ToSet(Code(b)) : i.op = op /\ i.var = v
    BY <2>1
  <2>3. IsSeq(u) /\ Code(b) = Cleaned(u)
    BY <2>1 DEF Shape, IsBlock, Code
  <2> HIDE DEF u
  <2>4. PICK k \in 1..Len(u) : i = u[k]
    BY <2>2, <2>3, CleanedKeeps
  <2> QED
    BY <2>1, <2>2, <2>4 DEF Marked, Code0, u
<1>2. ASSUME NEW b \in Marked(blocks, op, v), ~Late(Code0(blocks, b))
      PROVE  b \in Having(op, v)
  <2> DEFINE u == blocks[b].insts
  <2>1. b \in 1..Len(blocks) /\ \E k \in 1..Len(u) : u[k].op = op /\ u[k].var = v
    BY DEF Marked, Code0
  <2>2. PICK k \in 1..Len(u) : u[k].op = op /\ u[k].var = v
    BY <2>1
  <2>3. IsSeq(u) /\ Code(b) = Cleaned(u) /\ ~Late(u)
    BY <1>2, <2>1 DEF Shape, IsBlock, Code, Code0
  <2> HIDE DEF u
  <2>4. u[k] \in ToSet(Code(b))
    BY <2>3, CleanedKeeps
  <2> QED
    BY <2>1, <2>2, <2>4 DEF Having
<1> QED
  BY <1>1, <1>2

LEMMA SuccessorsAre ==
  ASSUME Shape(blocks), NEW b \in 1..Len(blocks), Stops(Code0(blocks, b)) # {}
  PROVE  \A t \in Successors(b) : t \in Targets(Code0(blocks, b))
<1> DEFINE u == blocks[b].insts
<1>1. IsSeq(u) /\ Code(b) = Cleaned(u) /\ Code0(blocks, b) = u
  BY DEF Shape, IsBlock, Code, Code0
<1> HIDE DEF u
<1>2. ToSet(Last(Cleaned(u)).to) \subseteq Targets(u)
  BY <1>1, CleanedKeeps
<1> QED
  BY <1>1, <1>2 DEF Successors

(* Every access of v is live.                                              *)
Living(v) ==
  \A b \in Having("load", v) \union Having("store", v) :
    LET first == FirstBlock(blocks[b].fn)
        dead  == {first} \union UNION {Successors(e) : e \in Having("end", v)}
    IN  /\ first \in Having("alloca", v) /\ Having("poison", v) = {first}
        /\ Having("start", v) # {} =>
             b \notin Reached(dead, Having("start", v)) \union Having("end", v)

LEMMA ModuleLives ==
  ASSUME NEW n, Graph(blocks, {}, {}, n), NEW na, Stilled(blocks, na),
         NEW gen, Sited(blocks, na, gen), NEW v \in 1..na
  PROVE  Living(v)
<1> SUFFICES ASSUME NEW b \in Having("load", v) \union Having("store", v)
             PROVE  LET first == FirstBlock(blocks[b].fn)
                        dead  == {first} \union UNION {Successors(e) : e \in Having("end", v)}
                    IN  /\ first \in Having("alloca", v) /\ Having("poison", v) = {first}
                        /\ Having("start", v) # {} =>
                             b \notin Reached(dead, Having("start", v)) \union Having("end", v)
  BY DEF Living
<1> DEFINE first == FirstBlock(blocks[b].fn)
           starts == Having("start", v)
           ends == Having("end", v)
           dead == {first} \union UNION {Successors(e) : e \in ends}
           l == Len(blocks)
<1>1. Shape(blocks) /\ Joined(blocks, {}, {}) /\ l \in Nat
  BY ListIs DEF Graph, Shape
<1>2. b \in Accessors(blocks, v) /\ b \in 1..l
  BY <1>1, HavingIs DEF Accessors, Marked
<1>3. PICK d : AllocatedAt(blocks, v, d)
  BY DEF Sited, HasAlloca
<1>4. /\ d \in 1..l /\ blocks[d].inserted /\ blocks[b].fn = blocks[d].fn
      /\ \A k \in 1..l : blocks[k].fn = blocks[d].fn => d <= k
      /\ Makes(blocks, d, v) /\ ~Late(Code0(blocks, d))
  BY <1>2, <1>3 DEF AllocatedAt, IsFirst
<1>5. first = d
  <2> DEFINE B == Body(blocks[b].fn)
  <2>1. d \in B /\ \A k \in B : d <= k
    BY <1>4 DEF Body
  <2>2. B \in SUBSET Int
    <3>1. \A k \in 1..l : k \in Int
      BY ONLY <1>1
    <3>2. \A k \in B : k \in 1..l
      BY DEF Body
    <3> QED
      BY <3>1, <3>2
  <2> HIDE DEF B
  <2>3. Min(B) = d
    BY <2>1, <2>2, MinIs
  <2> QED
    BY <2>3 DEF FirstBlock, B
<1>6. first \in Having("alloca", v) /\ Having("poison", v) = {first}
  <2>1. d \in Marked(blocks, "alloca", v) /\ Marked(blocks, "poison", v) = {d}
    BY <1>4 DEF Makes
  <2>2. d \in Having("alloca", v) /\ d \in Having("poison", v)
    BY <1>1, <1>4, <2>1, HavingIs
  <2>3. \A k \in Having("poison", v) : k = d
    BY <1>1, <2>1, HavingIs
  <2> QED
    BY ONLY <1>5, <2>2, <2>3
<1>7. ASSUME starts # {}
      PROVE  b \notin Reached(dead, starts) /\ b \notin ends
  <2>1. \A k \in starts : k \in Marked(blocks, "start", v)
    BY <1>1, HavingIs
  <2>2. PICK a, m : Left(blocks, v, a, m)
    BY <1>7, <2>1 DEF Stilled
  <2> DEFINE Z == Region(a, m)
             Y == {x \in 1..l : blocks[x].inserted /\ x \notin Z /\ x # a}
  <2>3. /\ Walled(blocks, a, m) /\ blocks[a + 2].inserted /\ b \in Z
        /\ \A k \in Marked(blocks, "start", v) : k = a
        /\ \A k \in Marked(blocks, "end", v) : k = a + 2
    BY <1>2, <2>2 DEF Left, Held
  <2>4. /\ a \in Nat \ {0} /\ m \in Nat /\ a + 2 <= m /\ m <= l
        /\ \A k \in Z : blocks[k].fn = blocks[a].fn
        /\ \A k \in 1..l : \A t \in Targets(Code0(blocks, k)) : t \in Z => k \in Z \/ k = a
    BY <2>3 DEF Walled
  <2>5. starts = {a}
    BY <1>7, <2>1, <2>3
  <2>6. \A e \in ends : e = a + 2
    BY <1>1, <2>3, HavingIs
  <2>7. /\ a \in 1..l /\ a + 2 \in 1..l /\ a + 2 # a
    BY ONLY <1>1, <2>4
  <2>8. a + 2 \notin Z
    BY ONLY <2>4 DEF Region
  <2>9. b \notin ends
    BY <2>3, <2>6, <2>8
  <2>10. d \notin Z
    <3>1. blocks[a].fn = blocks[d].fn
      BY <1>4, <2>3, <2>4
    <3>2. d <= a
      BY <1>4, <2>7, <3>1
    <3>3. d \in Nat
      BY ONLY <1>1, <1>4
    <3> QED
      BY ONLY <2>4, <3>2, <3>3 DEF Region
  <2>11. ASSUME NEW k \in 1..l, blocks[k].inserted, k \notin Z, k # a, NEW t \in Successors(k)
         PROVE  t \in {a} \/ t \in Y
    <3>1. Stops(Code0(blocks, k)) # {}
      BY <1>1, <2>11 DEF Joined, Closed
    <3>2. t \in Targets(Code0(blocks, k))
      BY <1>1, <3>1, SuccessorsAre
    <3>3. t \in 1..l /\ blocks[t].inserted
      BY <1>1, <3>2 DEF Joined
    <3>4. t \notin Z
      BY <2>4, <2>11, <3>2
    <3> QED
      BY <3>3, <3>4
  <2>12. d \in {a} \/ d \in Y
    BY <1>4, <2>10
  <2>13. \A x \in dead : x \in {a} \/ x \in Y
    <3>1. ASSUME NEW e \in ends, NEW x \in Successors(e)
          PROVE  x \in {a} \/ x \in Y
      <4>1. e = a + 2
        BY <2>6
      <4> QED
        BY <2>3, <2>7, <2>8, <2>11, <4>1
    <3> HIDE DEF Y
    <3> QED
      BY <1>5, <2>12, <3>1
  <2>14. \A k \in Y : \A t \in Successors(k) : t \in {a} \/ t \in Y
    BY <2>11
  <2>15. b \notin Y
    BY <2>3
  <2> HIDE DEF Y, dead, starts
  <2>16. \A k \in Reached(dead, starts) : k \in Y
    BY <1>1, <2>5, <2>13, <2>14, ReachedWithin
  <2> QED
    BY <2>9, <2>15, <2>16
<1> QED
  BY <1>6, <1>7

(* What is left when all functions are generated.                          *)
AtEnd == /\ Graph(blocks, {}, {}, Cardinality(generated))
         /\ Stilled(blocks, n_allocas) /\ Sited(blocks, n_allocas, generated)
EndInv == GeneratedWithoutErrors => AtEnd

LEMMA EndIs == EndInv => AccessesAreLive
<1>1. ASSUME AtEnd
      PROVE  \A v \in 1..n_allocas : Living(v)
  BY <1>1, ModuleLives DEF AtEnd
<1> QED
  BY <1>1 DEF EndInv, AccessesAreLive, Living

LEMMA SameEnd ==
  ASSUME UNCHANGED <<blocks, n_allocas, generated>>, AtEnd
  PROVE  AtEnd'
BY DEF AtEnd

LEMMA VerifyModuleEnds ==
  ASSUME IInv, WiredInv, LiveInv, VerifyModule
  PROVE  EndInv'
<1> DEFINE ok == \A fn \in generated : Verified(fn)
<1>1. /\ Doing("verify") /\ UNCHANGED <<blocks, n_allocas, generated>>
      /\ errors' = (IF ok THEN errors ELSE OneMore(errors))
      /\ outcome' = (IF ok THEN "done" ELSE "could not compile")
  BY DEF VerifyModule, SameNames
<1> HIDE DEF ok
<1> SUFFICES ASSUME GeneratedWithoutErrors'
             PROVE  AtEnd'
  BY DEF EndInv
<1>2. errors = 0
  <2>1. errors \in 0..MaxErrors
    BY DEF IInv, Counted
  <2>2. /\ outcome' = "done" => errors' = errors
        /\ outcome' = "could not compile" => errors' = OneMore(errors)
    BY <1>1
  <2> QED
    BY <2>1, <2>2, FirstError
<1>3. Runs /\ todo # <<>> /\ AtTop(Instr)
  <2>1. Runs /\ Instr.do = "verify" /\ todo # <<>>
    BY <1>1, DoingIs
  <2> QED
    BY <2>1 DEF AtTop
<1>4. Graph(blocks, {}, {}, Cardinality(generated))
  BY <1>2, <1>3, Outward
<1>5. Stilled(blocks, n_allocas) /\ Sited(blocks, n_allocas, generated)
  BY <1>2, <1>3, AtTopLives
<1> QED
  BY <1>1, <1>4, <1>5, SameEnd DEF AtEnd

LEMMA StepEnds ==
  ASSUME IInv, WiredInv, LiveInv, EndInv, [Next]_vars
  PROVE  EndInv'
<1>1. CASE VerifyModule
  BY <1>1, VerifyModuleEnds
<1>2. CASE Next /\ ~VerifyModule
  <2>1. ~Finished'
    BY <1>2, OnlyVerifies
  <2> QED
    BY <2>1 DEF Finished, EndInv, GeneratedWithoutErrors
<1>3. CASE UNCHANGED vars
  <2>1. UNCHANGED <<blocks, n_allocas, generated, outcome, errors>>
    BY <1>3 DEF vars, control, module
  <2>2. GeneratedWithoutErrors' = GeneratedWithoutErrors
    BY <2>1 DEF GeneratedWithoutErrors
  <2> QED
    BY <2>1, <2>2, SameEnd DEF EndInv
<1> QED
  BY <1>1, <1>2, <1>3

(* Whatever a program generates, if nothing is reported, then once it is   *)
(* cleaned every variable that is accessed is allocated in the first basic *)
(* block of its function, and no path through the basic blocks, whatever   *)
(* branches, returns and loops it takes, accesses a variable before its    *)
(* lifetime starts or after it has ended.                                  *)
THEOREM CodegenAccessesAreLive == Spec => []AccessesAreLive
<1>1. Init => IInv /\ WiredInv /\ LiveInv /\ EndInv
  <2>1. Init => ~Finished
    BY DEF Init, Finished
  <2>2. ~Finished => EndInv
    BY DEF Finished, EndInv, GeneratedWithoutErrors
  <2> QED
    BY <2>1, <2>2, InitInv, InitWires, InitLives
<1>2. IInv /\ WiredInv /\ LiveInv /\ EndInv /\ [Next]_vars
        => IInv' /\ WiredInv' /\ LiveInv' /\ EndInv'
  BY StepInv, StepWires, StepLives, StepEnds
<1>3. EndInv => AccessesAreLive
  BY EndIs
<1> QED
  BY <1>1, <1>2, <1>3, PTL DEF Spec
=============================================================================
