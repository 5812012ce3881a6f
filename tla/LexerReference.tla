--------------------------- MODULE LexerReference ---------------------------
(***************************************************************************)
(* What a tokenizer of this language should return, written from the       *)
(* lexical grammar alone and without flags: a recursive definition over    *)
(* the rest of the source.  Lexer's result is compared with it on the      *)
(* sources where the flags of the loop do not outlive their purpose.       *)
(* For TLC only: the definitions are RECURSIVE operators.                  *)
(***************************************************************************)
EXTENDS Lexer

Alnum == Alpha \union Digit
Hex   == Digit \union {"a"}

(* The end of the longest run of characters of S that starts at p (from 1) *)
RunEnd(p, S) ==
  LET ends == {e \in p..Len(src) : \A q \in p..e : src[q] \in S}
  IN  IF ends = {} THEN p - 1 ELSE Max(ends)

RECURSIVE ValueOf(_, _)
ValueOf(digits, base) ==
  IF digits = <<>> THEN 0
  ELSE base * ValueOf(Front(digits), base) + DigitValue[Last(digits)]

Lex(type, p, length, n) ==
  [type |-> type, at |-> p - 1, length |-> length, num |-> n % NumberModulus]

CharAt(p) == IF p \in 1..Len(src) THEN src[p] ELSE "eof"

RECURSIVE RefTokens(_)
RefTokens(p) ==
  LET c == CharAt(p)
      decimal == RunEnd(p, Digit)
      hex     == RunEnd(p + 2, Hex)
      word    == RunEnd(p, Alnum)
  IN  CASE c = "eof" -> <<>>
        [] c \in {"sp", "nl", "?"} -> RefTokens(p + 1)
        [] c = "/" /\ CharAt(p + 1) = "/" ->
             RefTokens(RunEnd(p, AllChar \ {"nl"}) + 1)
        [] c \in Single /\ ~(c = "/" /\ CharAt(p + 1) = "/") ->
             <<Lex(c, p, 1, 0)>> \o RefTokens(p + 1)
        [] c = "0" /\ CharAt(p + 1) = "x" ->
             <<Lex("number", p + 2, hex - p + 1, ValueOf(SubSeq(src, p + 2, hex), 16))>>
               \o RefTokens(hex + 1)
        [] c \in Digit /\ ~(c = "0" /\ CharAt(p + 1) = "x") ->
             <<Lex("number", p, decimal - p + 1,
                   ValueOf(SubSeq(src, p, decimal), 10))>>
               \o RefTokens(decimal + 1)
        [] c \in Alpha -> <<Lex("word", p, word - p + 1, 0)>> \o RefTokens(word + 1)

-----------------------------------------------------------------------------
(* Between two slashes the loop must see a character that clears           *)
(* last_was_slash, unless the two begin a comment: blanks, line ends, a    *)
(* zero, a 0x prefix and everything inside a comment leave it set.         *)
Clears(q) == src[q] \notin {"sp", "nl", "/", "0", "x"} /\ ~InComment(q - 1)
TameSlashes ==
  \A p, q \in 1..Len(src) :
    (p < q /\ src[p] = "/" /\ src[q] = "/") =>
      \/ \E r \in p..q : Clears(r)
      \/ q = p + 1 /\ ~InComment(p - 1)

(* A number begins with a zero only if it is 0 alone or 0x and a non-zero  *)
(* digit, and the next lexeme after 0 is not a word that begins with x.    *)
TameZeros ==
  \A p \in 1..Len(src) :
    (src[p] = "0" /\ CharAt(p - 1) \notin Alnum /\ ~InComment(p - 1)) =>
      LET next == RunEnd(p + 1, {"sp", "nl"}) + 1 IN
      IF CharAt(p + 1) = "x" THEN CharAt(p + 2) \in Hex \ {"0"}
                             ELSE CharAt(p + 1) \notin Digit /\ CharAt(next) # "x"

(* The tokens the loop pushed, without the eof it always adds.             *)
Found ==
  [k \in 1..(Len(result) - 1) |->
     [type |-> result[k].type, at |-> result[k].at,
      length |-> result[k].length, num |-> result[k].num]]

(* On a tame source tokenize returns the tokens of the grammar: the same   *)
(* types from the same characters, of the same length, with the value of   *)
(* the literal modulo 2^64 (reduced at every digit by the code, once by    *)
(* the reference), nothing lost to a comment, nothing added, and never a   *)
(* pop of an empty vector.                                                 *)
MatchesReference ==
  (TameSlashes /\ TameZeros) =>
    /\ pc # "undefined"
    /\ pc = "done" => Found = RefTokens(1)
=============================================================================
