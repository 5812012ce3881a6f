------------------------------- MODULE Lexer -------------------------------
(***************************************************************************)
(* token::tokenize (source/lexer.cpp): the loop that turns a source text   *)
(* into the token vector the parser reads.                                 *)
(*                                                                         *)
(* The text is a sequence over character classes.  The four flags that the *)
(* loop carries from one character to the next are the point of the model: *)
(* each `continue` of the code skips the assignments below it, so a flag   *)
(* can survive blanks, line ends and comments.  The two inner loops (over  *)
(* a word and over the digits of a number) are steps of their own, so that *)
(* the accumulated value is part of the state.                             *)
(*                                                                         *)
(* Left out: the spelling of words (keywords and identifiers are one token *)
(* type here), the single-character token types other than the slash, and  *)
(* the column, which only places the arrow of a diagnostic.                *)
(***************************************************************************)
EXTENDS Integers, Sequences, FiniteSets, SequencesExt

CONSTANTS
  Char,          (* the character classes that occur in the source         *)
  MaxLen,        (* bound on the length of the source                      *)
  NumberModulus  (* a literal is computed modulo this; 2^64 in the code    *)

(* "1" is a non-zero digit, "a" a hexadecimal letter, "g" another letter   *)
(* or '_', "+" a one-character token, "?" a character the switch drops.    *)
AllChar == {"sp", "nl", "/", "0", "1", "x", "a", "g", "+", "?"}
Digit   == {"0", "1"}
Alpha   == {"x", "a", "g"}
Single  == {"/", "+"}
DigitValue == [c \in {"0", "1", "a"} |->
                 IF c = "0" THEN 0 ELSE IF c = "1" THEN 1 ELSE 10]

ASSUME CharAssumption    == Char \subseteq AllChar
ASSUME LenAssumption     == MaxLen \in Nat
ASSUME ModulusAssumption == NumberModulus \in Nat \ {0}

VARIABLES
  src,             (* code_: the source text                               *)
  i,               (* number of characters consumed; code[i] is src[i+1]   *)
  line,
  is_comment,
  last_was_slash,
  last_was_zero,
  hex_mode,
  result,          (* the token vector                                     *)
  start,           (* first character of the word or number being read     *)
  num,             (* value of the number being read                       *)
  zero_at,         (* history: where the last pending '0' was read         *)
  pc               (* "scan", "word" and "number" are the three loops      *)

vars == <<src, i, line, is_comment, last_was_slash, last_was_zero, hex_mode,
          result, start, num, zero_at, pc>>
flags == <<is_comment, last_was_slash, last_was_zero, hex_mode>>
run   == <<start, num>>

TokenTypes == {"word", "number", "/", "+", "eof"}

(* `at` is history: the index of the first character the token was read    *)
(* from.  start and length are the StringRef the code stores in it.        *)
Token(type, at, from, length, n) ==
  [type |-> type, at |-> at, start |-> from, length |-> length, num |-> n,
   line |-> line]

Init ==
  /\ src \in BoundedSeq(Char, MaxLen)
  /\ i = 0 /\ line = 1
  /\ is_comment = FALSE /\ last_was_slash = FALSE
  /\ last_was_zero = FALSE /\ hex_mode = FALSE
  /\ result = <<>>
  /\ start = 0 /\ num = 0 /\ zero_at = 0
  /\ pc = "scan"

-----------------------------------------------------------------------------
Cur == src[i + 1]
AtEnd == i = Len(src)
Scanning == pc = "scan" /\ ~AtEnd

(* Mutant of Flushed: the zero's text is taken at the cursor.              *)
FlushedAtCursor ==
  IF last_was_zero THEN Append(result, Token("number", zero_at, i, 1, 0))
                   ELSE result

(* The pending zero becomes a token when a later character is looked at;   *)
(* the code takes the character before that one for its text.              *)
Flushed ==
  IF last_was_zero THEN Append(result, Token("number", zero_at, i - 1, 1, 0))
                   ELSE result

SecondSlash == last_was_slash /\ Cur = "/"

(* Two slashes: the code drops the last token of the vector, whatever it   *)
(* is, and skips to the end of the line.  pop_back on an empty vector is   *)
(* undefined; the model stops there.                                       *)
BeginComment ==
  /\ Scanning /\ SecondSlash
  /\ IF result = <<>>
       THEN pc' = "undefined" /\ UNCHANGED <<result, is_comment, i>>
       ELSE /\ result' = Front(result)
            /\ is_comment' = TRUE
            /\ i' = i + 1
            /\ UNCHANGED pc
  /\ UNCHANGED <<src, line, last_was_slash, last_was_zero, hex_mode, run,
                 zero_at>>

(* Mutant of SkipSpace: a blank ends a comment.                            *)
SkipSpaceEndsComment ==
  /\ Scanning /\ Cur = "sp"
  /\ i' = i + 1
  /\ is_comment' = FALSE
  /\ UNCHANGED <<src, line, last_was_slash, last_was_zero, hex_mode, result, run,
                 zero_at, pc>>

SkipSpace ==
  /\ Scanning /\ Cur = "sp"
  /\ i' = i + 1
  /\ UNCHANGED <<src, line, flags, result, run, zero_at, pc>>

(* Mutant of NewLine: the line that ends a comment is not counted.         *)
NewLineUncounted ==
  /\ Scanning /\ Cur = "nl"
  /\ i' = i + 1 /\ line' = IF is_comment THEN line ELSE line + 1
  /\ is_comment' = FALSE
  /\ UNCHANGED <<src, last_was_slash, last_was_zero, hex_mode, result, run,
                 zero_at, pc>>

NewLine ==
  /\ Scanning /\ Cur = "nl"
  /\ i' = i + 1 /\ line' = line + 1
  /\ is_comment' = FALSE
  /\ UNCHANGED <<src, last_was_slash, last_was_zero, hex_mode, result, run,
                 zero_at, pc>>

SkipComment ==
  /\ Scanning /\ is_comment /\ Cur \notin {"sp", "nl"} /\ ~SecondSlash
  /\ i' = i + 1
  /\ UNCHANGED <<src, line, flags, result, run, zero_at, pc>>

(* Past the checks at the head of the loop: c is looked at as a lexeme.    *)
Lexing == Scanning /\ ~is_comment /\ Cur \notin {"sp", "nl"} /\ ~SecondSlash

HexPrefix ==
  /\ Lexing /\ last_was_zero /\ Cur = "x"
  /\ last_was_zero' = FALSE /\ hex_mode' = TRUE
  /\ i' = i + 1
  /\ UNCHANGED <<src, line, is_comment, last_was_slash, result, run, zero_at, pc>>

Lexeme == Lexing /\ ~(last_was_zero /\ Cur = "x")

ReadZero ==
  /\ Lexeme /\ Cur = "0"
  /\ result' = Flushed
  /\ last_was_zero' = TRUE /\ zero_at' = i
  /\ i' = i + 1
  /\ UNCHANGED <<src, line, is_comment, last_was_slash, hex_mode, run, pc>>

WordChar(c)   == c \in Alpha \union Digit
NumberChar(c) == c \in Digit \/ (hex_mode /\ c = "a")

(* What every branch below does before its own work.                       *)
LeaveZeroAndSlash ==
  /\ result' = Flushed
  /\ last_was_zero' = FALSE
  /\ last_was_slash' = (Cur = "/")

StartRun(where) ==
  /\ LeaveZeroAndSlash
  /\ start' = i /\ num' = 0
  /\ pc' = where
  /\ UNCHANGED <<src, i, line, is_comment, hex_mode, zero_at>>

StartWord ==
  /\ Lexeme /\ Cur \in Alpha /\ ~hex_mode
  /\ StartRun("word")

StartNumber ==
  /\ Lexeme /\ Cur # "0" /\ NumberChar(Cur)
  /\ StartRun("number")

(* A one-character token; a hex_mode that met no digit ends here.          *)
ReadSingle ==
  /\ Lexeme /\ Cur \in Single
  /\ result' = Append(Flushed, Token(Cur, i, i, 1, 0))
  /\ last_was_zero' = FALSE /\ last_was_slash' = (Cur = "/")
  /\ hex_mode' = FALSE
  /\ i' = i + 1
  /\ UNCHANGED <<src, line, is_comment, run, zero_at, pc>>

(* The switch has no case for c: a stray character, or a letter that is no *)
(* hexadecimal digit after 0x.                                             *)
SkipOther ==
  /\ Lexeme
  /\ Cur = "?" \/ (hex_mode /\ Cur \in Alpha /\ ~NumberChar(Cur))
  /\ LeaveZeroAndSlash
  /\ hex_mode' = FALSE
  /\ i' = i + 1
  /\ UNCHANGED <<src, line, is_comment, run, zero_at, pc>>

(* Mutant of InWord: the loop over a word runs one character too far at    *)
(* the end of the source.                                                  *)
InWordPastEnd ==
  pc = "word" /\ i <= Len(src) /\ WordChar(IF AtEnd THEN "a" ELSE Cur)

(* The conditions of the two inner while loops.                            *)
InWord   == pc = "word" /\ ~AtEnd /\ WordChar(Cur)
InNumber == pc = "number" /\ ~AtEnd /\ NumberChar(Cur)

WordStep ==
  /\ InWord
  /\ i' = i + 1
  /\ UNCHANGED <<src, line, flags, result, run, zero_at, pc>>

WordEnd ==
  /\ pc = "word" /\ ~InWord
  /\ result' = Append(result, Token("word", start, start, i - start, 0))
  /\ pc' = "scan"
  /\ UNCHANGED <<src, i, line, flags, run, zero_at>>

(* Mutant of NumberStep: the cursor stays on a zero digit.                 *)
NumberStepStuck ==
  /\ InNumber
  /\ num' = ((IF hex_mode THEN 16 ELSE 10) * num + DigitValue[Cur])
              % NumberModulus
  /\ i' = IF Cur = "0" THEN i ELSE i + 1
  /\ UNCHANGED <<src, line, flags, result, start, zero_at, pc>>

NumberStep ==
  /\ InNumber
  /\ num' = ((IF hex_mode THEN 16 ELSE 10) * num + DigitValue[Cur])
              % NumberModulus
  /\ i' = i + 1
  /\ UNCHANGED <<src, line, flags, result, start, zero_at, pc>>

(* Mutant of NumberEnd: hex_mode outlives the number.                      *)
NumberEndKeepsHex ==
  /\ pc = "number" /\ ~InNumber
  /\ LET prefix == IF hex_mode THEN 2 ELSE 0 IN
     result' = Append(result, Token("number", start, start - prefix,
                                    i - start + prefix, num))
  /\ pc' = "scan"
  /\ UNCHANGED <<src, i, line, flags, run, zero_at>>

(* The text of a hexadecimal literal is taken to begin two characters      *)
(* before its first digit.                                                 *)
NumberEnd ==
  /\ pc = "number" /\ ~InNumber
  /\ LET prefix == IF hex_mode THEN 2 ELSE 0 IN
     result' = Append(result, Token("number", start, start - prefix,
                                    i - start + prefix, num))
  /\ hex_mode' = FALSE
  /\ pc' = "scan"
  /\ UNCHANGED <<src, i, line, is_comment, last_was_slash, last_was_zero, run,
                 zero_at>>

(* After the loop: a zero still pending, then the eof token.               *)
Finish ==
  /\ pc = "scan" /\ AtEnd
  /\ result' = Append(Flushed, Token("eof", i, 0, 0, 0))
  /\ pc' = "done"
  /\ UNCHANGED <<src, i, line, flags, run, zero_at>>

Next ==
  \/ BeginComment \/ SkipSpace \/ NewLine \/ SkipComment
  \/ HexPrefix \/ ReadZero \/ StartWord \/ StartNumber \/ ReadSingle \/ SkipOther
  \/ WordStep \/ WordEnd \/ NumberStep \/ NumberEnd \/ Finish

Spec == Init /\ [][Next]_vars

(* tokenize runs to its end without waiting for anything.                  *)
FairSpec == Spec /\ WF_vars(Next)

-----------------------------------------------------------------------------
TokenSet == [type : TokenTypes, at : Nat, start : Int, length : Nat,
             num : Nat, line : Nat]

TypeOK ==
  /\ src \in Seq(Char)
  /\ i \in 0..Len(src) /\ line \in Nat
  /\ is_comment \in BOOLEAN /\ last_was_slash \in BOOLEAN
  /\ last_was_zero \in BOOLEAN /\ hex_mode \in BOOLEAN
  /\ result \in Seq(TokenSet)
  /\ start \in 0..Len(src) /\ num \in 0..(NumberModulus - 1)
  /\ zero_at \in 0..Len(src)
  /\ pc \in {"scan", "word", "number", "done", "undefined"}

EndOf(t) == t.start + t.length
Lexemes  == {k \in 1..Len(result) : result[k].type # "eof"}

(* The text the code records for a token (a pointer and a length computed  *)
(* backwards from the scan position, i - 1 for a zero and start - 2 for a  *)
(* hexadecimal literal) never leaves the source buffer, and the tokens end *)
(* in the order of the source, with at least one character between ends.   *)
SpansOrdered ==
  /\ \A k \in Lexemes : 0 <= result[k].start /\ EndOf(result[k]) <= Len(src)
  /\ \A j, k \in Lexemes : j < k => EndOf(result[j]) < EndOf(result[k])

(* Index p of the source (from 0) lies in a comment: `//` is on its line,  *)
(* no later than p.                                                        *)
InComment(p) ==
  \E q \in 1..p :
    /\ src[q] = "/" /\ src[q + 1] = "/"
    /\ \A r \in q..(p + 1) : src[r] # "nl"

(* No token is read from inside a comment, whatever stood on earlier lines *)
(* and whichever flags were still set when the comment began.              *)
NoTokenFromComment == \A k \in Lexemes : ~InComment(result[k].at)

(* The line a diagnostic names is the line of the token.  The literal zero *)
(* is excepted: it is pushed when a later character is looked at and gets  *)
(* that character's line.                                                  *)
LineOfToken ==
  \A k \in Lexemes :
    LET t == result[k] IN
    ~(t.type = "number" /\ t.num = 0) =>
      t.line = 1 + Cardinality({p \in 1..t.at : src[p] = "nl"})

(* tokenize returns (or has left defined behaviour).                       *)
Termination == <>(pc \in {"done", "undefined"})
=============================================================================
