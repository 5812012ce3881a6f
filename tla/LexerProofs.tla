---------------------------- MODULE LexerProofs ----------------------------
(***************************************************************************)
(* For every source of any length and any width of the literals, tokenize  *)
(* keeps its state well typed and records for its tokens pieces of the     *)
(* source that stay inside it and end in order (IInv), none of which is    *)
(* in a comment, and the lines on which they begin (CommentInv).           *)
(***************************************************************************)
EXTENDS Lexer, SequenceTheorems, FiniteSetTheorems, TLAPS

(* s holds, apart from eof, only tokens that start inside the source, end  *)
(* at n at the latest, and end one after the other.                        *)
Ordered(s, n) ==
  /\ \A k \in 1..Len(s) :
       s[k].type # "eof" => 0 <= s[k].start /\ EndOf(s[k]) <= n
  /\ \A j, k \in 1..Len(s) :
       (j < k /\ s[j].type # "eof" /\ s[k].type # "eof") =>
         EndOf(s[j]) < EndOf(s[k])

(* The position all recorded tokens have ended by: a pending zero will be  *)
(* pushed with its end at i, a run with its end beyond start.              *)
Reached ==
  IF pc \in {"word", "number"} THEN start
  ELSE IF last_was_zero /\ pc # "done" THEN i - 1 ELSE i

IInv ==
  /\ TypeOK
  /\ Ordered(result, Reached)
  /\ hex_mode => i >= 2
  /\ last_was_zero => i >= 1
  /\ pc \in {"word", "number"} => /\ start <= i
                                  /\ ~last_was_zero
                                  /\ hex_mode => start >= 2
  /\ pc = "word" => (start < i \/ InWord)
  /\ pc = "number" => (start < i \/ InNumber)

-----------------------------------------------------------------------------
(* A token of the vector has integer start and end.                        *)
LEMMA TokenBounds ==
  ASSUME NEW s \in Seq(TokenSet), NEW k \in 1..Len(s)
  PROVE  s[k] \in TokenSet /\ s[k].start \in Int /\ EndOf(s[k]) \in Int
<1>1. s[k] \in TokenSet
  OBVIOUS
<1>2. s[k].start \in Int /\ s[k].length \in Nat
  BY <1>1 DEF TokenSet
<1> QED
  BY <1>1, <1>2 DEF EndOf

(* Raising the bound keeps a vector ordered.                               *)
LEMMA OrderedMonotonic ==
  ASSUME NEW s \in Seq(TokenSet), NEW n \in Int, NEW m \in Int, n <= m,
         Ordered(s, n)
  PROVE  Ordered(s, m)
<1>1. ASSUME NEW k \in 1..Len(s), s[k].type # "eof"
      PROVE  0 <= s[k].start /\ EndOf(s[k]) <= m
  <2>1. EndOf(s[k]) \in Int
    BY TokenBounds
  <2>2. 0 <= s[k].start /\ EndOf(s[k]) <= n
    BY <1>1 DEF Ordered
  <2> QED
    BY <2>1, <2>2
<1> QED
  BY <1>1 DEF Ordered

(* Pushing a token that ends beyond n keeps the vector ordered.            *)
LEMMA AppendOrdered ==
  ASSUME NEW s \in Seq(TokenSet), NEW t \in TokenSet, NEW n \in Int, NEW m \in Int,
         Ordered(s, n), n < EndOf(t), EndOf(t) <= m, 0 <= t.start
  PROVE  Append(s, t) \in Seq(TokenSet) /\ Ordered(Append(s, t), m)
<1> DEFINE r == Append(s, t)
<1>1. r \in Seq(TokenSet) /\ Len(r) = Len(s) + 1 /\ Len(s) \in Nat
  OBVIOUS
<1>2. \A k \in 1..Len(s) : r[k] = s[k]
  OBVIOUS
<1>3. r[Len(s) + 1] = t
  OBVIOUS
<1>4. EndOf(t) \in Int
  BY DEF TokenSet, EndOf
<1>5. ASSUME NEW k \in 1..Len(s), s[k].type # "eof"
      PROVE  0 <= s[k].start /\ EndOf(s[k]) <= n /\ EndOf(s[k]) < EndOf(t)
                /\ EndOf(s[k]) <= m
  BY <1>4, <1>5, TokenBounds DEF Ordered
<1> HIDE DEF r
<1>6. ASSUME NEW k \in 1..Len(r), r[k].type # "eof"
      PROVE  0 <= r[k].start /\ EndOf(r[k]) <= m
  BY <1>1, <1>2, <1>3, <1>5, <1>6
<1>7. ASSUME NEW j \in 1..Len(r), NEW k \in 1..Len(r), j < k,
             r[j].type # "eof", r[k].type # "eof"
      PROVE  EndOf(r[j]) < EndOf(r[k])
  <2>1. j \in 1..Len(s) /\ r[j] = s[j]
    BY <1>1, <1>2, <1>7
  <2>2. CASE k = Len(s) + 1
    BY <1>3, <1>5, <1>7, <2>1, <2>2
  <2>3. CASE k \in 1..Len(s)
    BY <1>2, <1>7, <2>1, <2>3 DEF Ordered
  <2> QED
    BY <1>1, <2>2, <2>3
<1>8. Ordered(r, m)
  BY <1>6, <1>7 DEF Ordered
<1> QED
  BY <1>1, <1>8 DEF r

(* Pushing eof keeps the vector ordered up to the same position.           *)
LEMMA AppendEofOrdered ==
  ASSUME NEW s \in Seq(TokenSet), NEW t \in TokenSet, NEW n \in Int,
         Ordered(s, n), t.type = "eof"
  PROVE  Append(s, t) \in Seq(TokenSet) /\ Ordered(Append(s, t), n)
<1> DEFINE r == Append(s, t)
<1>1. r \in Seq(TokenSet) /\ Len(r) = Len(s) + 1 /\ Len(s) \in Nat
  OBVIOUS
<1>2. \A k \in 1..Len(s) : r[k] = s[k]
  OBVIOUS
<1>3. r[Len(s) + 1] = t
  OBVIOUS
<1> HIDE DEF r
<1>4. \A k \in 1..Len(r) : r[k].type # "eof" => k \in 1..Len(s) /\ r[k] = s[k]
  BY <1>1, <1>2, <1>3
<1>5. Ordered(r, n)
  BY <1>4 DEF Ordered
<1> QED
  BY <1>1, <1>5 DEF r

(* Removing the last token keeps the vector typed and ordered.             *)
LEMMA FrontOrdered ==
  ASSUME NEW s \in Seq(TokenSet), s # <<>>, NEW n \in Int, Ordered(s, n)
  PROVE  Front(s) \in Seq(TokenSet) /\ Ordered(Front(s), n)
<1> DEFINE r == SubSeq(s, 1, Len(s) - 1)
<1>1. Len(s) \in Nat \ {0}
  OBVIOUS
<1>2. \A k \in 1..(Len(s) - 1) : s[k] \in TokenSet
  BY <1>1
<1>3. /\ r \in Seq(TokenSet)
      /\ Len(r) = IF 1 <= Len(s) - 1 THEN (Len(s) - 1) - 1 + 1 ELSE 0
      /\ \A k \in 1..((Len(s) - 1) - 1 + 1) : r[k] = s[1 + k - 1]
  BY <1>1, <1>2, SubSeqProperties
<1> HIDE DEF r
<1>4. \A k \in 1..Len(r) : k \in 1..Len(s) /\ r[k] = s[k]
  BY <1>1, <1>3
<1>5. Ordered(r, n)
  BY <1>4 DEF Ordered
<1> QED
  BY <1>3, <1>5 DEF r, Front

-----------------------------------------------------------------------------
(* What the actions share.  A pending zero becomes a token that ends at i. *)
LEMMA FlushedOrdered ==
  ASSUME IInv, pc = "scan"
  PROVE  Flushed \in Seq(TokenSet) /\ Ordered(Flushed, i)
<1>1. CASE last_was_zero
  <2> DEFINE t == Token("number", zero_at, i - 1, 1, 0)
  <2>1. t \in TokenSet /\ t.start = i - 1 /\ EndOf(t) = i
    BY <1>1 DEF IInv, TypeOK, TokenSet, Token, TokenTypes, EndOf
  <2>2. i \in Int /\ i >= 1 /\ Ordered(result, i - 1) /\ result \in Seq(TokenSet)
    BY <1>1 DEF IInv, TypeOK, Reached
  <2> HIDE DEF t
  <2>3. Append(result, t) \in Seq(TokenSet) /\ Ordered(Append(result, t), i)
    BY <2>1, <2>2, AppendOrdered
  <2> QED
    BY <1>1, <2>3 DEF Flushed, t
<1>2. CASE ~last_was_zero
  BY <1>2 DEF IInv, TypeOK, Reached, Flushed
<1> QED
  BY <1>1, <1>2

(* A step of the scanning loop that leaves the vector and the pending zero *)
(* alone and moves on by one character preserves the invariant.            *)
LEMMA SkipPreserves ==
  ASSUME IInv, Scanning, i' = i + 1, UNCHANGED <<src, result, run, zero_at, pc>>,
         line' \in Nat, is_comment' \in BOOLEAN,
         UNCHANGED <<last_was_slash, last_was_zero, hex_mode>>
  PROVE  IInv'
<1>1. i' \in 0..Len(src) /\ i \in Nat
  BY DEF IInv, TypeOK, Scanning, AtEnd
<1>2. TypeOK'
  BY <1>1 DEF IInv, TypeOK, run
<1>3. Reached \in Int /\ Reached' \in Int /\ Reached <= Reached'
  BY <1>1 DEF Reached, Scanning
<1>4. Ordered(result, Reached')
  BY <1>3, OrderedMonotonic DEF IInv, TypeOK
<1> QED
  BY <1>1, <1>2, <1>4 DEF IInv, Scanning

(* Starting a word or a number preserves the invariant if the character    *)
(* under the cursor belongs to it.                                         *)
LEMMA StartRunPreserves ==
  ASSUME IInv, Lexeme, NEW where \in {"word", "number"}, StartRun(where),
         where = "word" => WordChar(Cur),
         where = "number" => NumberChar(Cur)
  PROVE  IInv'
<1>1. Flushed \in Seq(TokenSet) /\ Ordered(Flushed, i)
  BY FlushedOrdered DEF Lexeme, Lexing, Scanning
<1>2. TypeOK'
  <2>1. last_was_slash' \in BOOLEAN /\ last_was_zero' \in BOOLEAN
    BY DEF StartRun, LeaveZeroAndSlash
  <2>2. num' \in 0..(NumberModulus - 1)
    BY ModulusAssumption DEF StartRun
  <2>3. result' \in Seq(TokenSet)
    BY <1>1 DEF StartRun, LeaveZeroAndSlash
  <2> QED
    BY <2>1, <2>2, <2>3 DEF IInv, TypeOK, StartRun
<1>3. Reached' = i
  BY DEF Reached, StartRun
<1>4. Ordered(result', Reached')
  BY <1>1, <1>3 DEF StartRun, LeaveZeroAndSlash
<1>5. (InWord' <=> where = "word") /\ (InNumber' <=> where = "number")
  BY DEF StartRun, InWord, InNumber, WordChar, NumberChar, Cur, AtEnd, Lexeme,
         Lexing, Scanning
<1> QED
  BY <1>2, <1>4, <1>5
     DEF IInv, TypeOK, StartRun, LeaveZeroAndSlash

-----------------------------------------------------------------------------
LEMMA InitInv == Init => IInv
<1> SUFFICES ASSUME Init PROVE IInv
  OBVIOUS
<1>1. PICK n \in 0..MaxLen : src \in [1..n -> Char]
  BY LenAssumption DEF Init, BoundedSeq, SeqOf
<1>2. src \in Seq(Char) /\ Len(src) \in Nat
  BY <1>1, LenAssumption
<1>3. 0 \in 0..Len(src) /\ 0 \in 0..(NumberModulus - 1)
  BY <1>2, ModulusAssumption
<1>4. <<>> \in Seq(TokenSet) /\ Len(<<>>) = 0
  OBVIOUS
<1>5. TypeOK
  BY <1>2, <1>3, <1>4 DEF Init, TypeOK
<1>6. Ordered(result, Reached)
  BY <1>4 DEF Init, Ordered
<1> QED
  BY <1>5, <1>6 DEF IInv, Init

(* One case per action; the scanning actions that only move on are alike.  *)
LEMMA StepInv == IInv /\ [Next]_vars => IInv'
<1> SUFFICES ASSUME IInv, [Next]_vars PROVE IInv'
  OBVIOUS
<1>1. CASE BeginComment
  <2>1. CASE result = <<>>
    <3>1. UNCHANGED <<src, i, line, flags, result, run, zero_at>> /\ pc' = "undefined"
             /\ pc = "scan"
      BY <1>1, <2>1 DEF BeginComment, Scanning, flags
    <3>2. Reached' = Reached
      BY <3>1 DEF Reached, flags
    <3> QED
      BY <3>1, <3>2 DEF IInv, TypeOK, flags, run
  <2>2. CASE result # <<>>
    <3>1. /\ result' = Front(result) /\ is_comment' = TRUE /\ i' = i + 1
          /\ UNCHANGED <<src, line, last_was_slash, last_was_zero, hex_mode, run,
                         zero_at, pc>>
          /\ Scanning
      BY <1>1, <2>2 DEF BeginComment
    <3>2. i' \in 0..Len(src) /\ i \in Nat
      BY <3>1 DEF IInv, TypeOK, Scanning, AtEnd
    <3>3. Reached \in Int /\ Reached' \in Int /\ Reached <= Reached'
      BY <3>1, <3>2 DEF Reached, Scanning
    <3>4. result' \in Seq(TokenSet) /\ Ordered(result', Reached)
      BY <2>2, <3>1, <3>3, FrontOrdered DEF IInv, TypeOK
    <3>5. Ordered(result', Reached')
      BY <3>3, <3>4, OrderedMonotonic
    <3>6. TypeOK'
      BY <3>1, <3>2, <3>4 DEF IInv, TypeOK, run
    <3> QED
      BY <3>1, <3>2, <3>5, <3>6 DEF IInv, Scanning
  <2> QED
    BY <2>1, <2>2
<1>2. CASE SkipSpace
  BY <1>2, SkipPreserves DEF SkipSpace, flags, IInv, TypeOK
<1>3. CASE NewLine
  <2>1. /\ Scanning /\ i' = i + 1
        /\ UNCHANGED <<src, result, run, zero_at, pc>>
        /\ UNCHANGED <<last_was_slash, last_was_zero, hex_mode>>
    BY <1>3 DEF NewLine
  <2>2. line' \in Nat /\ is_comment' \in BOOLEAN
    <3>1. line' = line + 1 /\ line \in Nat
      BY <1>3 DEF NewLine, IInv, TypeOK
    <3>2. line' \in Nat
      BY <3>1
    <3>3. is_comment' \in BOOLEAN
      BY <1>3 DEF NewLine
    <3> QED
      BY <3>2, <3>3
  <2> QED
    BY <2>1, <2>2, SkipPreserves
<1>4. CASE SkipComment
  BY <1>4, SkipPreserves DEF SkipComment, flags, IInv, TypeOK
<1>5. CASE HexPrefix
  <2>1. /\ i' \in 0..Len(src) /\ i \in Nat /\ i >= 1 /\ i' = i + 1
        /\ last_was_zero /\ ~last_was_zero' /\ hex_mode' /\ pc = "scan" /\ pc' = "scan"
        /\ UNCHANGED <<src, line, is_comment, last_was_slash, result, start, num,
                       zero_at>>
    BY <1>5 DEF HexPrefix, Lexing, Scanning, AtEnd, IInv, TypeOK, run
  <2>2. Reached = i - 1 /\ Reached' = i + 1
    BY <2>1 DEF Reached
  <2>3. hex_mode' \in BOOLEAN /\ last_was_zero' \in BOOLEAN
    BY <1>5 DEF HexPrefix
  <2>4. TypeOK'
    BY <2>1, <2>3 DEF IInv, TypeOK
  <2>5. Ordered(result', Reached')
    BY <2>1, <2>2, OrderedMonotonic DEF IInv, TypeOK
  <2> QED
    BY <2>1, <2>4, <2>5 DEF IInv
<1>6. CASE ReadZero
  <2>1. /\ i' \in 0..Len(src) /\ i \in Nat /\ i' = i + 1 /\ zero_at' = i
        /\ result' = Flushed /\ last_was_zero' = TRUE /\ pc = "scan" /\ pc' = "scan"
        /\ UNCHANGED <<src, line, is_comment, last_was_slash, hex_mode, start, num>>
    BY <1>6 DEF ReadZero, Lexeme, Lexing, Scanning, AtEnd, IInv, TypeOK, run
  <2>2. Reached' = i
    BY <2>1 DEF Reached
  <2>3. result' \in Seq(TokenSet) /\ Ordered(result', Reached')
    BY <2>1, <2>2, FlushedOrdered
  <2>4. TypeOK'
    BY <2>1, <2>3 DEF IInv, TypeOK
  <2> QED
    BY <2>1, <2>3, <2>4 DEF IInv
<1>7. CASE StartWord
  <2>1. Lexeme /\ StartRun("word") /\ WordChar(Cur)
    BY <1>7 DEF StartWord, WordChar
  <2> QED
    BY <2>1, StartRunPreserves
<1>8. CASE StartNumber
  <2>1. Lexeme /\ StartRun("number") /\ NumberChar(Cur)
    BY <1>8 DEF StartNumber
  <2> QED
    BY <2>1, StartRunPreserves
<1>9. CASE ReadSingle
  <2> DEFINE t == Token(Cur, i, i, 1, 0)
  <2>1. /\ i' \in 0..Len(src) /\ i \in Nat /\ i' = i + 1 /\ Cur \in Single
        /\ result' = Append(Flushed, t)
        /\ ~last_was_zero' /\ ~hex_mode' /\ pc = "scan" /\ pc' = "scan"
        /\ UNCHANGED <<src, line, is_comment, start, num, zero_at>>
    BY <1>9 DEF ReadSingle, Lexeme, Lexing, Scanning, AtEnd, IInv, TypeOK, run
  <2>2. last_was_zero' \in BOOLEAN /\ last_was_slash' \in BOOLEAN /\ hex_mode' \in BOOLEAN
    BY <1>9 DEF ReadSingle
  <2>3. t \in TokenSet /\ t.start = i /\ EndOf(t) = i + 1
    BY <2>1 DEF IInv, TypeOK, TokenSet, Token, TokenTypes, Single, EndOf
  <2>4. Flushed \in Seq(TokenSet) /\ Ordered(Flushed, i)
    BY <2>1, FlushedOrdered
  <2> HIDE DEF t
  <2>5. result' \in Seq(TokenSet) /\ Ordered(result', i + 1)
    BY <2>1, <2>3, <2>4, AppendOrdered
  <2>6. Reached' = i + 1
    BY <2>1 DEF Reached
  <2>7. TypeOK'
    BY <2>1, <2>2, <2>5 DEF IInv, TypeOK
  <2> QED
    BY <2>1, <2>5, <2>6, <2>7 DEF IInv
<1>10. CASE SkipOther
  <2>1. /\ i' \in 0..Len(src) /\ i \in Nat /\ i' = i + 1 /\ result' = Flushed
        /\ ~last_was_zero' /\ ~hex_mode' /\ pc = "scan" /\ pc' = "scan"
        /\ UNCHANGED <<src, line, is_comment, start, num, zero_at>>
    BY <1>10 DEF SkipOther, LeaveZeroAndSlash, Lexeme, Lexing, Scanning, AtEnd,
                 IInv, TypeOK, run
  <2>2. last_was_zero' \in BOOLEAN /\ last_was_slash' \in BOOLEAN /\ hex_mode' \in BOOLEAN
    BY <1>10 DEF SkipOther, LeaveZeroAndSlash
  <2>3. result' \in Seq(TokenSet) /\ Ordered(result', i)
    BY <2>1, FlushedOrdered
  <2>4. Ordered(result', Reached')
    BY <2>1, <2>3, OrderedMonotonic DEF Reached
  <2>5. TypeOK'
    BY <2>1, <2>2, <2>3 DEF IInv, TypeOK
  <2> QED
    BY <2>1, <2>4, <2>5 DEF IInv
<1>11. CASE WordStep
  <2>1. /\ i' \in 0..Len(src) /\ i \in Nat /\ i' = i + 1 /\ pc = "word" /\ pc' = "word"
        /\ UNCHANGED <<src, line, flags, result, start, num, zero_at>>
    BY <1>11 DEF WordStep, InWord, AtEnd, IInv, TypeOK, run
  <2>2. Reached' = Reached
    BY <2>1 DEF Reached
  <2> QED
    BY <2>1, <2>2 DEF IInv, TypeOK, flags
<1>12. CASE WordEnd
  <2> DEFINE t == Token("word", start, start, i - start, 0)
  <2>1. /\ i \in Nat /\ start \in Nat /\ start < i /\ ~last_was_zero /\ pc = "word"
        /\ pc' = "scan" /\ result' = Append(result, t)
        /\ UNCHANGED <<src, i, line, flags, start, num, zero_at>>
    BY <1>12 DEF WordEnd, IInv, TypeOK, run
  <2>2. t \in TokenSet /\ t.start = start /\ EndOf(t) = i
    BY <2>1 DEF IInv, TypeOK, TokenSet, Token, TokenTypes, EndOf
  <2>3. Ordered(result, start) /\ result \in Seq(TokenSet)
    BY <2>1 DEF IInv, TypeOK, Reached
  <2> HIDE DEF t
  <2>4. result' \in Seq(TokenSet) /\ Ordered(result', i)
    BY <2>1, <2>2, <2>3, AppendOrdered
  <2>5. Reached' = i
    BY <2>1 DEF Reached, flags
  <2> QED
    BY <2>1, <2>4, <2>5 DEF IInv, TypeOK, flags
<1>13. CASE NumberStep
  <2>1. /\ i' \in 0..Len(src) /\ i \in Nat /\ i' = i + 1 /\ pc = "number"
        /\ pc' = "number" /\ UNCHANGED <<src, line, flags, result, start, zero_at>>
    BY <1>13 DEF NumberStep, InNumber, AtEnd, IInv, TypeOK
  <2>2. Reached' = Reached
    BY <2>1 DEF Reached
  <2>3. DigitValue[Cur] \in Nat
    BY <1>13 DEF NumberStep, InNumber, NumberChar, DigitValue, Digit
  <2>4. (IF hex_mode THEN 16 ELSE 10) * num + DigitValue[Cur] \in Nat
    <3>1. num \in Nat
      BY ModulusAssumption DEF IInv, TypeOK
    <3>2. 16 * num \in Nat /\ 10 * num \in Nat
      BY <3>1
    <3> QED
      BY <2>3, <3>1, <3>2
  <2>5. num' \in 0..(NumberModulus - 1)
    <3> DEFINE v == (IF hex_mode THEN 16 ELSE 10) * num + DigitValue[Cur]
    <3>1. num' = v % NumberModulus /\ v \in Nat
      BY <1>13, <2>4 DEF NumberStep
    <3> HIDE DEF v
    <3> QED
      BY <3>1, ModulusAssumption
  <2>6. TypeOK'
    BY <2>1, <2>5 DEF IInv, TypeOK, flags
  <2> QED
    BY <2>1, <2>2, <2>6 DEF IInv, TypeOK, flags
<1>14. CASE NumberEnd
  <2> DEFINE prefix == IF hex_mode THEN 2 ELSE 0
             t == Token("number", start, start - prefix, i - start + prefix, num)
  <2>1. /\ i \in Nat /\ start \in Nat /\ start < i /\ ~last_was_zero /\ pc = "number"
        /\ hex_mode => start >= 2
        /\ pc' = "scan" /\ ~hex_mode' /\ result' = Append(result, t)
        /\ UNCHANGED <<src, i, line, is_comment, last_was_slash, last_was_zero,
                       start, num, zero_at>>
    BY <1>14 DEF NumberEnd, IInv, TypeOK, run
  <2>2. t \in TokenSet /\ t.start >= 0 /\ EndOf(t) = i
    BY <2>1, ModulusAssumption DEF IInv, TypeOK, TokenSet, Token, TokenTypes, EndOf
  <2>3. Ordered(result, start) /\ result \in Seq(TokenSet)
    BY <2>1 DEF IInv, TypeOK, Reached
  <2> HIDE DEF t
  <2>4. result' \in Seq(TokenSet) /\ Ordered(result', i)
    BY <2>1, <2>2, <2>3, AppendOrdered
  <2>5. Reached' = i
    BY <2>1 DEF Reached
  <2>6. hex_mode' \in BOOLEAN
    BY <1>14 DEF NumberEnd
  <2>7. TypeOK'
    BY <2>1, <2>4, <2>6 DEF IInv, TypeOK
  <2> QED
    BY <2>1, <2>4, <2>5, <2>7 DEF IInv
<1>15. CASE Finish
  <2> DEFINE t == Token("eof", i, 0, 0, 0)
  <2>1. /\ i \in Nat /\ pc = "scan" /\ pc' = "done" /\ result' = Append(Flushed, t)
        /\ UNCHANGED <<src, i, line, flags, start, num, zero_at>>
    BY <1>15 DEF Finish, IInv, TypeOK, run
  <2>2. t \in TokenSet /\ t.type = "eof"
    BY <2>1 DEF IInv, TypeOK, TokenSet, Token, TokenTypes
  <2>3. Flushed \in Seq(TokenSet) /\ Ordered(Flushed, i)
    BY <2>1, FlushedOrdered
  <2> HIDE DEF t
  <2>4. result' \in Seq(TokenSet) /\ Ordered(result', i)
    BY <2>1, <2>2, <2>3, AppendEofOrdered
  <2>5. Reached' = i
    BY <2>1 DEF Reached
  <2> QED
    BY <2>1, <2>4, <2>5 DEF IInv, TypeOK, flags
<1>16. CASE UNCHANGED vars
  <2>1. /\ UNCHANGED <<src, i, line, result, start, num, zero_at, pc>>
        /\ UNCHANGED <<is_comment, last_was_slash, last_was_zero, hex_mode>>
    BY <1>16 DEF vars
  <2>2. TypeOK' /\ Reached' = Reached
    BY <2>1 DEF IInv, TypeOK, Reached
  <2>3. (InWord' <=> InWord) /\ (InNumber' <=> InNumber)
    BY <2>1 DEF InWord, InNumber, WordChar, NumberChar, AtEnd, Cur
  <2> QED
    BY <2>1, <2>2, <2>3 DEF IInv
<1> QED
  BY <1>1, <1>2, <1>3, <1>4, <1>5, <1>6, <1>7, <1>8, <1>9, <1>10, <1>11, <1>12,
     <1>13, <1>14, <1>15, <1>16 DEF Next

-----------------------------------------------------------------------------
(* tokenize keeps its state well typed: the cursor never passes the end of *)
(* the source, in the scanning loop or in the two inner loops.             *)
THEOREM LexerTypeOK == Spec => []TypeOK
<1>1. IInv => TypeOK
  BY DEF IInv
<1> QED
  BY InitInv, StepInv, <1>1, PTL DEF Spec

(* Every text recorded for a token lies inside the source buffer, and the  *)
(* tokens of the vector end in the order of the source.                    *)
THEOREM LexerSpansOrdered == Spec => []SpansOrdered
<1>1. IInv => SpansOrdered
  <2> SUFFICES ASSUME IInv PROVE SpansOrdered
    OBVIOUS
  <2>1. result \in Seq(TokenSet) /\ Reached \in Int /\ Reached <= Len(src)
    BY DEF IInv, TypeOK, Reached
  <2>2. Ordered(result, Len(src))
    BY <2>1, OrderedMonotonic DEF IInv, TypeOK
  <2> QED
    BY <2>2 DEF Ordered, SpansOrdered, Lexemes
<1> QED
  BY InitInv, StepInv, <1>1, PTL DEF Spec

-----------------------------------------------------------------------------
(* What lines and comments are, of any text s, with the positions of line  *)
(* feeds and slashes for its characters.                                   *)
Feed(s, p)  == s[p] = "nl"
Slash(s, p) == s[p] = "/"
Commented(s, p) ==
  \E q \in 1..p :
    Slash(s, q) /\ Slash(s, q + 1) /\ \A r \in q..(p + 1) : ~Feed(s, r)
LineAt(s, p) == 1 + Cardinality({q \in 1..p : Feed(s, q)})

(* What NoTokenFromComment and LineOfToken say of a token.                 *)
Sound(s, t) ==
  t.type # "eof" =>
    /\ ~Commented(s, t.at)
    /\ ~(t.type = "number" /\ t.num = 0) => t.line = LineAt(s, t.at)

(* Whatever the flags are: the character behind a slash finds it noted, or *)
(* a comment begun; behind a character of a comment is_comment is set; and *)
(* a run was begun on this line outside of comments and has no slash.      *)
CommentInv ==
  /\ \A k \in 1..Len(result) : Sound(src, result[k])
  /\ line = LineAt(src, i)
  /\ last_was_zero => ~Commented(src, zero_at)
  /\ pc = "scan" =>
       /\ i >= 1 /\ Slash(src, i) => is_comment \/ last_was_slash
       /\ Commented(src, i - 1) => is_comment
  /\ pc \in {"word", "number"} =>
       /\ ~is_comment /\ line = LineAt(src, start)
       /\ ~Commented(src, start) /\ ~Commented(src, i - 1)
       /\ i > start => ~Slash(src, i)

-----------------------------------------------------------------------------
(* A line feed begins a line, every other character stays on its own.      *)
LEMMA LineStep ==
  ASSUME NEW s, NEW p \in Nat
  PROVE  /\ LineAt(s, p) \in Nat
         /\ LineAt(s, p + 1) = IF Feed(s, p + 1) THEN LineAt(s, p) + 1 ELSE LineAt(s, p)
<1> DEFINE F(n) == {q \in 1..n : Feed(s, q)}
<1>1. IsFiniteSet(1..p)
  BY FS_Interval
<1>2. F(p) \in SUBSET (1..p)
  OBVIOUS
<1>3. IsFiniteSet(F(p))
  BY <1>1, <1>2, FS_Subset
<1>4. Cardinality(F(p)) \in Nat
  BY <1>3, FS_CardinalityType
<1>5. p + 1 \notin F(p)
  OBVIOUS
<1>6. \A q : q \in 1..(p + 1) <=> q \in 1..p \/ q = p + 1
  OBVIOUS
<1>7. F(p + 1) = IF Feed(s, p + 1) THEN F(p) \union {p + 1} ELSE F(p)
  BY <1>6
<1>8. LineAt(s, p) = 1 + Cardinality(F(p)) /\ LineAt(s, p + 1) = 1 + Cardinality(F(p + 1))
  BY DEF LineAt
<1> HIDE DEF F
<1>9. Cardinality(F(p) \union {p + 1}) = Cardinality(F(p)) + 1
  BY <1>3, <1>5, FS_AddElement
<1> QED
  BY <1>4, <1>7, <1>8, <1>9

(* Vectors of sound tokens stay so when one is pushed or dropped.          *)
LEMMA AppendSound ==
  ASSUME NEW s, NEW v \in Seq(TokenSet), NEW t \in TokenSet,
         \A k \in 1..Len(v) : Sound(s, v[k]), Sound(s, t)
  PROVE  \A k \in 1..Len(Append(v, t)) : Sound(s, Append(v, t)[k])
<1> DEFINE r == Append(v, t)
<1>1. /\ Len(v) \in Nat /\ Len(r) = Len(v) + 1 /\ r[Len(v) + 1] = t
      /\ \A k \in 1..Len(v) : r[k] = v[k]
  OBVIOUS
<1> HIDE DEF r
<1>2. \A k \in 1..Len(r) : k \in 1..Len(v) \/ k = Len(v) + 1
  BY <1>1
<1> QED
  BY <1>1, <1>2 DEF r

LEMMA FrontSound ==
  ASSUME NEW s, NEW v \in Seq(TokenSet), v # <<>>, \A k \in 1..Len(v) : Sound(s, v[k])
  PROVE  \A k \in 1..Len(Front(v)) : Sound(s, Front(v)[k])
<1> DEFINE r == SubSeq(v, 1, Len(v) - 1)
<1>1. Len(v) \in Nat \ {0}
  OBVIOUS
<1>2. \A k \in 1..(Len(v) - 1) : v[k] \in TokenSet
  BY <1>1
<1>3. /\ Len(r) = IF 1 <= Len(v) - 1 THEN (Len(v) - 1) - 1 + 1 ELSE 0
      /\ \A k \in 1..((Len(v) - 1) - 1 + 1) : r[k] = v[1 + k - 1]
  BY <1>1, <1>2, SubSeqProperties
<1> HIDE DEF r
<1>4. \A k \in 1..Len(r) : k \in 1..Len(v) /\ r[k] = v[k]
  BY <1>1, <1>3
<1> QED
  BY <1>4 DEF r, Front

(* The character under the cursor is in a comment only when the flags say  *)
(* so, or it is the second slash itself.                                   *)
LEMMA InCommentIsNoted ==
  ASSUME IInv, CommentInv, Scanning, Commented(src, i)
  PROVE  Cur # "nl" /\ (is_comment \/ SecondSlash)
<1>1. i \in Nat
  BY DEF IInv, TypeOK
<1>2. PICK q \in 1..i :
        Slash(src, q) /\ Slash(src, q + 1) /\ \A r \in q..(i + 1) : ~Feed(src, r)
  BY DEF Commented
<1>3. Cur # "nl"
  <2>1. i + 1 \in q..(i + 1)
    BY <1>1
  <2> QED
    BY <1>2, <2>1 DEF Feed, Cur
<1>4. CASE q = i
  <2>1. i >= 1 /\ Slash(src, i) /\ Slash(src, i + 1)
    BY <1>1, <1>2, <1>4
  <2>2. is_comment \/ last_was_slash
    BY <2>1 DEF CommentInv, Scanning
  <2>3. Cur = "/"
    BY <2>1 DEF Slash, Cur
  <2> QED
    BY <1>3, <2>2, <2>3 DEF SecondSlash
<1>5. CASE q # i
  <2>1. q \in 1..(i - 1) /\ \A r \in q..((i - 1) + 1) : r \in q..(i + 1)
    BY <1>1, <1>5
  <2>2. Commented(src, i - 1)
    BY <1>2, <2>1 DEF Commented
  <2>3. is_comment
    BY <2>2 DEF CommentInv, Scanning
  <2> QED
    BY <1>3, <2>3
<1> QED
  BY <1>4, <1>5

LEMMA LexingOutside ==
  ASSUME IInv, CommentInv, Lexing
  PROVE  ~Commented(src, i)
BY InCommentIsNoted DEF Lexing

LEMMA FlushedSound ==
  ASSUME IInv, CommentInv
  PROVE  \A k \in 1..Len(Flushed) : Sound(src, Flushed[k])
<1>1. /\ result \in Seq(TokenSet) /\ \A k \in 1..Len(result) : Sound(src, result[k])
      /\ last_was_zero => ~Commented(src, zero_at)
  BY DEF IInv, TypeOK, CommentInv
<1>2. CASE last_was_zero
  <2> DEFINE t == Token("number", zero_at, i - 1, 1, 0)
  <2>1. t \in TokenSet
    BY DEF IInv, TypeOK, TokenSet, Token, TokenTypes
  <2>2. Sound(src, t)
    BY <1>1, <1>2 DEF Sound, Token
  <2> HIDE DEF t
  <2>3. \A k \in 1..Len(Append(result, t)) : Sound(src, Append(result, t)[k])
    BY <1>1, <2>1, <2>2, AppendSound
  <2> QED
    BY <1>2, <2>3 DEF Flushed, t
<1>3. CASE ~last_was_zero
  BY <1>1, <1>3 DEF Flushed
<1> QED
  BY <1>2, <1>3

(* One step of the scanning loop over the character under the cursor.      *)
LEMMA MoveOn ==
  ASSUME IInv, CommentInv, Scanning, i' = i + 1, src' = src, pc' = "scan",
         \A k \in 1..Len(result') : Sound(src, result'[k]),
         line' = IF Cur = "nl" THEN line + 1 ELSE line,
         last_was_zero' => ~Commented(src, zero_at'),
         Cur = "/" => is_comment' \/ last_was_slash',
         Cur # "nl" /\ (is_comment \/ SecondSlash) => is_comment'
  PROVE  CommentInv'
<1>1. i \in Nat /\ line = LineAt(src, i) /\ line \in Nat
  BY DEF IInv, TypeOK, CommentInv
<1>2. line' = LineAt(src, i')
  <2>1. Cur = "nl" <=> Feed(src, i + 1)
    BY DEF Feed, Cur
  <2> QED
    BY <1>1, <2>1, LineStep
<1>3. Slash(src, i') => is_comment' \/ last_was_slash'
  BY DEF Slash, Cur
<1>4. Commented(src, i' - 1) => is_comment'
  <2>1. i' - 1 = i
    BY <1>1
  <2> QED
    BY <2>1, InCommentIsNoted
<1> QED
  BY <1>2, <1>3, <1>4 DEF CommentInv

(* A run begins where no comment is, and holds neither slash nor feed.     *)
LEMMA StartRunOutside ==
  ASSUME IInv, CommentInv, Lexeme, NEW where \in {"word", "number"}, StartRun(where)
  PROVE  CommentInv'
<1>1. /\ UNCHANGED <<src, i, line, is_comment, zero_at>> /\ start' = i /\ pc' = where
      /\ result' = Flushed /\ ~last_was_zero' /\ ~is_comment
  BY DEF StartRun, LeaveZeroAndSlash, Lexeme, Lexing
<1>2. /\ ~Commented(src, i) /\ \A k \in 1..Len(Flushed) : Sound(src, Flushed[k])
  BY LexingOutside, FlushedSound DEF Lexeme
<1>3. line = LineAt(src, i) /\ ~Commented(src, i - 1) /\ i \in Nat
  BY <1>1 DEF CommentInv, Lexeme, Lexing, Scanning, IInv, TypeOK
<1>4. ~(i > i) /\ pc' # "scan"
  BY <1>1, <1>3
<1> QED
  BY <1>1, <1>2, <1>3, <1>4 DEF CommentInv

LEMMA InRun ==
  ASSUME IInv, CommentInv, pc \in {"word", "number"}, Cur \notin {"nl", "/"},
         i' = i + 1, UNCHANGED <<src, line, flags, result, start, zero_at, pc>>
  PROVE  CommentInv'
<1>1. i \in Nat /\ line = LineAt(src, i) /\ UNCHANGED <<is_comment, last_was_slash, last_was_zero>>
  BY DEF IInv, TypeOK, CommentInv, flags
<1>2. ~Feed(src, i + 1) /\ ~Slash(src, i + 1)
  BY DEF Feed, Slash, Cur
<1>3. line' = LineAt(src, i')
  BY <1>1, <1>2, LineStep
<1>4. ~Commented(src, i)
  <2> SUFFICES ASSUME NEW q \in 1..i, Slash(src, q), Slash(src, q + 1),
                      \A r \in q..(i + 1) : ~Feed(src, r)
               PROVE  FALSE
    BY DEF Commented
  <2>1. q # i
    BY <1>2
  <2>2. q \in 1..(i - 1) /\ \A r \in q..((i - 1) + 1) : r \in q..(i + 1)
    BY <1>1, <2>1
  <2>3. Commented(src, i - 1)
    BY <2>2 DEF Commented
  <2> QED
    BY <2>3 DEF CommentInv
<1>5. i' - 1 = i
  BY <1>1
<1> QED
  BY <1>1, <1>2, <1>3, <1>4, <1>5 DEF CommentInv

(* The token of a run is on the line and outside of comments.              *)
LEMMA RunEnds ==
  ASSUME IInv, CommentInv, pc \in {"word", "number"}, start < i, pc' = "scan",
         NEW t \in TokenSet, t.at = start, t.line = line, result' = Append(result, t),
         UNCHANGED <<src, i, line, is_comment, last_was_slash, last_was_zero, zero_at>>
  PROVE  CommentInv'
<1>1. /\ result \in Seq(TokenSet) /\ \A k \in 1..Len(result) : Sound(src, result[k])
      /\ ~Commented(src, start) /\ line = LineAt(src, start) /\ ~Commented(src, i - 1)
      /\ i > start => ~Slash(src, i)
  BY DEF IInv, TypeOK, CommentInv
<1>2. Sound(src, t)
  BY <1>1 DEF Sound
<1>3. \A k \in 1..Len(result') : Sound(src, result'[k])
  BY <1>1, <1>2, AppendSound
<1>4. ~Slash(src, i)
  <2>1. i \in Int /\ start \in Int
    BY DEF IInv, TypeOK
  <2> QED
    BY <1>1, <2>1
<1> QED
  BY <1>1, <1>3, <1>4 DEF CommentInv

LEMMA InitComment == Init => CommentInv
<1> SUFFICES ASSUME Init PROVE CommentInv
  OBVIOUS
<1>1. i = 0 /\ line = 1 /\ pc = "scan" /\ ~last_was_zero /\ result = <<>>
  BY DEF Init
<1>2. {q \in 1..0 : Feed(src, q)} = {}
  OBVIOUS
<1>3. LineAt(src, 0) = 1
  BY <1>2, FS_EmptySet DEF LineAt
<1>4. ~Commented(src, 0 - 1)
  BY DEF Commented
<1> QED
  BY <1>1, <1>3, <1>4 DEF CommentInv

LEMMA StepComment == IInv /\ CommentInv /\ [Next]_vars => CommentInv'
<1> SUFFICES ASSUME IInv, CommentInv, [Next]_vars PROVE CommentInv'
  OBVIOUS
<1>1. CASE BeginComment
  <2>1. CASE result = <<>>
    <3>1. UNCHANGED <<src, i, line, flags, result, run, zero_at>> /\ pc' = "undefined"
      BY <1>1, <2>1 DEF BeginComment, flags
    <3> QED
      BY <3>1 DEF CommentInv, flags
  <2>2. CASE result # <<>>
    <3>1. /\ Scanning /\ SecondSlash /\ i' = i + 1 /\ src' = src /\ pc' = "scan"
          /\ result' = Front(result) /\ is_comment' /\ line' = line
          /\ UNCHANGED <<last_was_zero, zero_at>>
      BY <1>1, <2>2 DEF BeginComment, Scanning
    <3>2. \A k \in 1..Len(result') : Sound(src, result'[k])
      BY <2>2, <3>1, FrontSound DEF IInv, TypeOK, CommentInv
    <3>3. Cur # "nl"
      BY <3>1 DEF SecondSlash
    <3> QED
      BY <3>1, <3>2, <3>3, MoveOn DEF CommentInv
  <2> QED
    BY <2>1, <2>2
<1>2. CASE SkipSpace
  <2>1. /\ Scanning /\ i' = i + 1 /\ Cur = "sp" /\ pc' = "scan"
        /\ UNCHANGED <<src, line, is_comment, last_was_slash, last_was_zero, result, zero_at>>
    BY <1>2 DEF SkipSpace, Scanning, flags
  <2> QED
    BY <2>1, MoveOn DEF CommentInv, SecondSlash
<1>3. CASE NewLine
  <2>1. /\ Scanning /\ i' = i + 1 /\ Cur = "nl" /\ pc' = "scan" /\ line' = line + 1
        /\ UNCHANGED <<src, last_was_slash, last_was_zero, result, zero_at>>
    BY <1>3 DEF NewLine, Scanning
  <2> QED
    BY <2>1, MoveOn DEF CommentInv
<1>4. CASE SkipComment
  <2>1. /\ Scanning /\ i' = i + 1 /\ Cur # "nl" /\ pc' = "scan" /\ is_comment
        /\ UNCHANGED <<src, line, is_comment, last_was_slash, last_was_zero, result, zero_at>>
    BY <1>4 DEF SkipComment, Scanning, flags
  <2> QED
    BY <2>1, MoveOn DEF CommentInv
<1>5. CASE HexPrefix
  <2>1. /\ Scanning /\ i' = i + 1 /\ Cur = "x" /\ pc' = "scan" /\ ~is_comment /\ ~SecondSlash
        /\ ~last_was_zero' /\ UNCHANGED <<src, line, result>>
    BY <1>5 DEF HexPrefix, Lexing, Scanning
  <2> QED
    BY <2>1, MoveOn DEF CommentInv
<1>6. CASE ReadZero
  <2>1. /\ Lexing /\ Scanning /\ i' = i + 1 /\ Cur = "0" /\ pc' = "scan"
        /\ ~is_comment /\ ~SecondSlash
        /\ zero_at' = i /\ result' = Flushed /\ UNCHANGED <<src, line>>
    BY <1>6 DEF ReadZero, Lexeme, Lexing, Scanning
  <2>2. ~Commented(src, i)
    BY <2>1, LexingOutside
  <2> QED
    BY <2>1, <2>2, FlushedSound, MoveOn
<1>7. CASE StartWord
  <2>1. Lexeme /\ StartRun("word")
    BY <1>7 DEF StartWord
  <2> QED
    BY <2>1, StartRunOutside
<1>8. CASE StartNumber
  <2>1. Lexeme /\ StartRun("number")
    BY <1>8 DEF StartNumber
  <2> QED
    BY <2>1, StartRunOutside
<1>9. CASE ReadSingle
  <2> DEFINE t == Token(Cur, i, i, 1, 0)
  <2>1. /\ Lexing /\ Scanning /\ i' = i + 1 /\ Cur \in Single /\ Cur # "nl" /\ pc' = "scan"
        /\ ~is_comment /\ ~SecondSlash
        /\ result' = Append(Flushed, t) /\ ~last_was_zero' /\ last_was_slash' = (Cur = "/")
        /\ UNCHANGED <<src, line>>
    BY <1>9 DEF ReadSingle, Lexeme, Lexing, Scanning
  <2>2. i \in Nat /\ line \in Nat /\ line = LineAt(src, i)
    BY DEF IInv, TypeOK, CommentInv
  <2>3. t \in TokenSet /\ t.at = i /\ t.line = line
    BY <2>1, <2>2 DEF TokenSet, Token, TokenTypes, Single
  <2>4. ~Commented(src, i)
    BY <2>1, LexingOutside
  <2>5. Sound(src, t)
    BY <2>2, <2>3, <2>4 DEF Sound
  <2>6. Flushed \in Seq(TokenSet)
    BY <2>1, FlushedOrdered DEF Scanning
  <2> HIDE DEF t
  <2>7. \A k \in 1..Len(result') : Sound(src, result'[k])
    BY <2>1, <2>3, <2>5, <2>6, FlushedSound, AppendSound
  <2> QED
    BY <2>1, <2>7, MoveOn
<1>10. CASE SkipOther
  <2>1. /\ Lexing /\ Scanning /\ i' = i + 1 /\ Cur \notin {"nl", "/"} /\ pc' = "scan"
        /\ ~is_comment /\ ~SecondSlash
        /\ result' = Flushed /\ ~last_was_zero' /\ UNCHANGED <<src, line>>
    BY <1>10 DEF SkipOther, LeaveZeroAndSlash, Lexeme, Lexing, Scanning, Alpha
  <2> QED
    BY <2>1, FlushedSound, MoveOn
<1>11. CASE WordStep
  <2>1. /\ pc \in {"word", "number"} /\ Cur \notin {"nl", "/"} /\ i' = i + 1
        /\ UNCHANGED <<src, line, flags, result, start, zero_at, pc>>
    BY <1>11 DEF WordStep, InWord, WordChar, Alpha, Digit, run
  <2> QED
    BY <2>1, InRun
<1>12. CASE WordEnd
  <2> DEFINE t == Token("word", start, start, i - start, 0)
  <2>1. /\ pc \in {"word", "number"} /\ start < i /\ pc' = "scan"
        /\ result' = Append(result, t)
        /\ UNCHANGED <<src, i, line, is_comment, last_was_slash, last_was_zero, zero_at>>
    BY <1>12 DEF WordEnd, IInv, flags
  <2>2. t \in TokenSet /\ t.at = start /\ t.line = line
    BY <2>1 DEF IInv, TypeOK, TokenSet, Token, TokenTypes
  <2> HIDE DEF t
  <2> QED
    BY <2>1, <2>2, RunEnds
<1>13. CASE NumberStep
  <2>1. /\ pc \in {"word", "number"} /\ Cur \notin {"nl", "/"} /\ i' = i + 1
        /\ UNCHANGED <<src, line, flags, result, start, zero_at, pc>>
    BY <1>13 DEF NumberStep, InNumber, NumberChar, Digit
  <2> QED
    BY <2>1, InRun
<1>14. CASE NumberEnd
  <2> DEFINE prefix == IF hex_mode THEN 2 ELSE 0
             t == Token("number", start, start - prefix, i - start + prefix, num)
  <2>1. /\ pc \in {"word", "number"} /\ start < i /\ pc' = "scan"
        /\ result' = Append(result, t)
        /\ UNCHANGED <<src, i, line, is_comment, last_was_slash, last_was_zero, zero_at>>
    BY <1>14 DEF NumberEnd, IInv
  <2>2. t \in TokenSet /\ t.at = start /\ t.line = line
    BY <2>1, ModulusAssumption DEF IInv, TypeOK, TokenSet, Token, TokenTypes
  <2> HIDE DEF t
  <2> QED
    BY <2>1, <2>2, RunEnds
<1>15. CASE Finish
  <2> DEFINE t == Token("eof", i, 0, 0, 0)
  <2>1. /\ pc = "scan" /\ pc' = "done" /\ result' = Append(Flushed, t)
        /\ UNCHANGED <<src, i, line, last_was_zero, zero_at>>
    BY <1>15 DEF Finish, flags
  <2>2. t \in TokenSet /\ Sound(src, t)
    BY DEF IInv, TypeOK, TokenSet, Token, TokenTypes, Sound
  <2>3. Flushed \in Seq(TokenSet)
    BY <2>1, FlushedOrdered
  <2> HIDE DEF t
  <2>4. \A k \in 1..Len(result') : Sound(src, result'[k])
    BY <2>1, <2>2, <2>3, FlushedSound, AppendSound
  <2> QED
    BY <2>1, <2>4 DEF CommentInv
<1>16. CASE UNCHANGED vars
  <2>1. UNCHANGED <<src, i, line, is_comment, last_was_slash, last_was_zero, result, start,
                    zero_at, pc>>
    BY <1>16 DEF vars
  <2> QED
    BY <2>1 DEF CommentInv
<1> QED
  BY <1>1, <1>2, <1>3, <1>4, <1>5, <1>6, <1>7, <1>8, <1>9, <1>10, <1>11, <1>12,
     <1>13, <1>14, <1>15, <1>16 DEF Next

LEMMA AlwaysSound == Spec => [](IInv /\ CommentInv)
<1>1. Init => IInv /\ CommentInv
  BY InitInv, InitComment
<1>2. IInv /\ CommentInv /\ [Next]_vars => (IInv /\ CommentInv)'
  BY StepInv, StepComment
<1> QED
  BY <1>1, <1>2, PTL DEF Spec

(* No token of tokenize is read from inside a comment, whichever flags     *)
(* outlive the blanks, line ends and comments in front of it.              *)
THEOREM LexerSkipsComments == Spec => []NoTokenFromComment
<1>1. CommentInv => NoTokenFromComment
  <2> SUFFICES ASSUME CommentInv, NEW k \in 1..Len(result), result[k].type # "eof"
               PROVE  ~InComment(result[k].at)
    BY DEF NoTokenFromComment, Lexemes
  <2>1. ~Commented(src, result[k].at)
    BY DEF CommentInv, Sound
  <2> QED
    BY <2>1 DEF Commented, InComment, Slash, Feed
<1> QED
  BY AlwaysSound, <1>1, PTL

(* Every token of tokenize but the literal zero has the line on which it   *)
(* begins.                                                                 *)
THEOREM LexerNamesLines == Spec => []LineOfToken
<1>1. CommentInv => LineOfToken
  <2> SUFFICES ASSUME CommentInv, NEW k \in 1..Len(result), result[k].type # "eof",
                      ~(result[k].type = "number" /\ result[k].num = 0)
               PROVE  result[k].line = 1 + Cardinality({p \in 1..result[k].at : src[p] = "nl"})
    BY DEF LineOfToken, Lexemes
  <2>1. result[k].line = LineAt(src, result[k].at)
    BY DEF CommentInv, Sound
  <2> QED
    BY <2>1 DEF LineAt, Feed
<1> QED
  BY AlwaysSound, <1>1, PTL
=============================================================================
