----------------------------- MODULE Diagnostics -----------------------------
(***************************************************************************)
(* How source/main.cpp prints what is reported about a file.  compileAll   *)
(* splits the file into code_lines; printErrorsAndWarnings takes reports   *)
(* from the fronts of three lists until all are empty, and prettyPrintErr  *)
(* prints each with the lines around it.                                   *)
(*                                                                         *)
(* A file is a sequence of "c", any character, and "n", a line feed.  A    *)
(* report is its line, a StringRef the offset and length of its text.      *)
(* Colours, arrows, columns and messages are left out.  The three vectors  *)
(* a SizedArray points into are parameters of its constructor and live, in *)
(* the ABI of the build, until printErrorsAndWarnings has returned.        *)
(***************************************************************************)
EXTENDS Integers, Sequences, FiniteSets, FiniteSetsExt, SequencesExt

CONSTANTS
  MaxCode,      (* the length of a file, at most                           *)
  MaxReports,   (* the number of reports on it, at most                    *)
  Surround,     (* ERR_N_SURROUND_LINES_PRINTED                            *)
  UInt32        (* the modulus of uint32_t                                 *)

ASSUME DiagnosticsAssumption ==
  /\ MaxCode \in Nat /\ MaxReports \in Nat /\ Surround \in Nat
  /\ UInt32 \in Nat /\ UInt32 > MaxCode + 2

Kind == {"parser_error", "codegen_error", "codegen_warning"}

VARIABLES
  code,
  i, start_offset, code_lines,   (* the loop that splits the file          *)
  left,      (* per kind the SizedArray: what has not been consumed        *)
  reported,  (* history: what it was at first                              *)
  printed,   (* the reports on the terminal                                *)
  outcome

vars == <<code, i, start_offset, code_lines, left, reported, printed, outcome>>

Init ==
  /\ code \in BoundedSeq({"c", "n"}, MaxCode)
  /\ i = 0 /\ start_offset = 0 /\ code_lines = <<>>
  /\ left = [k \in Kind |-> <<>>] /\ reported = left
  /\ printed = <<>> /\ outcome = "splitting"

-----------------------------------------------------------------------------
StringRef(start, length) == [start |-> start, length |-> length]

(* Mutant: the line feed belongs to the line.                              *)
SplitBehindLineFeed ==
  /\ outcome = "splitting" /\ i < Len(code)
  /\ IF code[i + 1] = "n"
       THEN /\ code_lines' = Append(code_lines, StringRef(start_offset, i + 1 - start_offset))
            /\ start_offset' = i + 1
       ELSE UNCHANGED <<code_lines, start_offset>>
  /\ i' = i + 1
  /\ UNCHANGED <<code, left, reported, printed, outcome>>

SplitAtLineFeed ==
  /\ outcome = "splitting" /\ i < Len(code)
  /\ IF code[i + 1] = "n"
       THEN /\ code_lines' = Append(code_lines, StringRef(start_offset, i - start_offset))
            /\ start_offset' = i + 1
       ELSE UNCHANGED <<code_lines, start_offset>>
  /\ i' = i + 1
  /\ UNCHANGED <<code, left, reported, printed, outcome>>

(* code.length - 1, which wraps around for an empty file.                  *)
LengthLessOne == (Len(code) - 1) % UInt32

(* Mutant: there is always a last line.                                    *)
AlwaysLastLine ==
  /\ outcome = "splitting" /\ i = Len(code)
  /\ code_lines' = Append(code_lines, StringRef(start_offset, LengthLessOne - start_offset))
  /\ outcome' = "split"
  /\ UNCHANGED <<code, i, start_offset, left, reported, printed>>

LastLine ==
  /\ outcome = "splitting" /\ i = Len(code)
  /\ code_lines' =
       IF start_offset < LengthLessOne
         THEN Append(code_lines, StringRef(start_offset, LengthLessOne - start_offset))
         ELSE code_lines
  /\ outcome' = "split"
  /\ UNCHANGED <<code, i, start_offset, left, reported, printed>>

-----------------------------------------------------------------------------
(* What the parser and the code generator may report, in any order: the    *)
(* line of a token, that of the end of the file, or 0, for an iterator at  *)
(* its end.  A file without tokens gives no reports.                       *)
LineOf(p)    == 1 + Cardinality({q \in 1..(p - 1) : code[q] = "n"})
TokenLines   == {LineOf(p) : p \in {q \in 1..Len(code) : code[q] = "c"}}
ReportLines  == IF TokenLines = {} THEN {} ELSE TokenLines \union {0, LineOf(Len(code) + 1)}

Report ==
  /\ outcome = "split"
  /\ \E a, b \in 0..MaxReports : \E lines \in BoundedSeq(ReportLines, MaxReports) :
       /\ a <= b /\ b <= Len(lines)
       /\ left' = [k \in Kind |->
                     CASE k = "parser_error"    -> SubSeq(lines, 1, a)
                       [] k = "codegen_error"   -> SubSeq(lines, a + 1, b)
                       [] k = "codegen_warning" -> SubSeq(lines, b + 1, Len(lines))]
  /\ reported' = left' /\ outcome' = "printing"
  /\ UNCHANGED <<code, i, start_offset, code_lines, printed>>

(* Mutant: an empty list has the line 0.                                   *)
FrontLineZero(k) == IF left[k] = <<>> THEN 0 ELSE Head(left[k])

(* The line of the front of a list, -1 for an empty one.                   *)
FrontLine(k) == IF left[k] = <<>> THEN UInt32 - 1 ELSE Head(left[k])

(* Mutant: warnings are compared with codegen errors only.                 *)
ChosenCompared ==
  LET prel == FrontLine("parser_error")
      cgel == FrontLine("codegen_error")
      cgwl == FrontLine("codegen_warning")
  IN  IF cgel <= cgwl THEN IF prel <= cgel THEN "parser_error" ELSE "codegen_error"
      ELSE "codegen_warning"

(* The list from which the next report is taken.                           *)
Chosen ==
  LET prel == FrontLine("parser_error")
      cgel == FrontLine("codegen_error")
      cgwl == FrontLine("codegen_warning")
  IN  IF prel <= cgel /\ prel <= cgwl THEN "parser_error"
      ELSE IF cgel <= prel /\ cgel <= cgwl THEN "codegen_error"
      ELSE "codegen_warning"

(* The rows around a line, by their number.                                *)
Rows(line) ==
  [li \in {n \in (line - Surround)..(line + Surround) : n > 0 /\ n <= Len(code_lines)} |->
     code_lines[li]]

(* prettyPrintErr asks for lines.at(line), of lines that count from zero.  *)
PrintErr(kind, line) ==
  IF line >= Len(code_lines) THEN outcome' = "out of range" /\ UNCHANGED printed
  ELSE /\ printed' = Append(printed, [kind |-> kind, line |-> line, rows |-> Rows(line)])
       /\ UNCHANGED outcome

(* The front of a SizedArray is taken off; an empty one throws.            *)
ConsumeFront(k) == left' = [left EXCEPT ![k] = Tail(@)]

(* Mutant: of two reports on a line only one is printed.                   *)
PrintNextOfLine ==
  /\ outcome = "printing" /\ \E k \in Kind : left[k] # <<>>
  /\ IF left[Chosen] = <<>> THEN outcome' = "consumeFront" /\ UNCHANGED <<left, printed>>
     ELSE /\ PrintErr(Chosen, Head(left[Chosen]))
          /\ left' = [k \in Kind |-> IF FrontLine(k) = FrontLine(Chosen) THEN Tail(left[k])
                                     ELSE left[k]]
  /\ UNCHANGED <<code, i, start_offset, code_lines, reported>>

PrintNext ==
  /\ outcome = "printing" /\ \E k \in Kind : left[k] # <<>>
  /\ IF left[Chosen] = <<>> THEN outcome' = "consumeFront" /\ UNCHANGED <<left, printed>>
     ELSE /\ PrintErr(Chosen, Head(left[Chosen]))
          /\ ConsumeFront(Chosen)
  /\ UNCHANGED <<code, i, start_offset, code_lines, reported>>

AllPrinted ==
  /\ outcome = "printing" /\ \A k \in Kind : left[k] = <<>>
  /\ outcome' = "done"
  /\ UNCHANGED <<code, i, start_offset, code_lines, left, reported, printed>>

Next == SplitAtLineFeed \/ LastLine \/ Report \/ PrintNext \/ AllPrinted

Spec == Init /\ [][Next]_vars

-----------------------------------------------------------------------------
TypeOK ==
  /\ i \in 0..Len(code) /\ start_offset \in 0..i
  /\ code_lines \in Seq([start : 0..MaxCode, length : 0..(UInt32 - 1)])
  /\ left \in [Kind -> Seq(0..(MaxCode + 1))]
  /\ outcome \in {"splitting", "split", "printing", "done", "out of range", "consumeFront"}

(* Every report is printed once, and those of a kind in the order in which *)
(* they were made, whatever the lines are by which the lists are merged:   *)
(* the n-th report of a kind that is printed is the n-th that was made,    *)
(* and left are those behind.                                              *)
PrintedOf(k, n) == Cardinality({m \in 1..n : printed[m].kind = k})
NothingIsLost ==
  outcome \in {"printing", "done"} =>
    /\ \A n \in 1..Len(printed) :
         LET k == printed[n].kind
         IN  printed[n].line = reported[k][PrintedOf(k, n)]
    /\ \A k \in Kind :
         LET n == PrintedOf(k, Len(printed))
         IN  /\ Len(reported[k]) = n + Len(left[k])
             /\ \A m \in 1..Len(left[k]) : left[k][m] = reported[k][n + m]

(* A report is only printed before another with a smaller line when their  *)
(* list had them in that order: lists that come sorted are printed sorted, *)
(* on one line syntax errors first and warnings last, and one that comes   *)
(* unsorted (0 for the end of the file) is not reordered.                  *)
Rank(k) == CASE k = "parser_error" -> 1 [] k = "codegen_error" -> 2 [] k = "codegen_warning" -> 3
PrintedInOrder ==
  \A n \in 1..(Len(printed) - 1) :
    LET r == printed[n]
        s == printed[n + 1]
    IN  r.kind # s.kind =>
          r.line < s.line \/ (r.line = s.line /\ Rank(r.kind) < Rank(s.kind))

(* The text of a line of the file, from its characters.                    *)
Chars(l) == {p \in 1..Len(code) : LineOf(p) = l /\ code[p] = "c"}
Text(l)  == StringRef(Min(Chars(l)) - 1, Cardinality(Chars(l)))
Ended(l) == \E p \in 1..Len(code) : LineOf(p) = l /\ code[p] = "n"

(* Whatever is printed around a report is the text of the line that has    *)
(* that number, and the reported line itself is there; only the last       *)
(* character of a file that does not end its last line is missing.         *)
RowsAreLines ==
  \A n \in 1..Len(printed) :
    LET r == printed[n] IN
    /\ r.line = 0 \/ r.line \in DOMAIN r.rows
    /\ \A l \in DOMAIN r.rows :
         IF Chars(l) = {} THEN r.rows[l].length = 0
         ELSE /\ r.rows[l].start = Text(l).start
              /\ r.rows[l].length = Text(l).length - (IF Ended(l) THEN 0 ELSE 1)

(* Printing throws for a report about the last line of a file, and for one *)
(* about the line before when the last is a single character without a     *)
(* line feed; it throws for no other.                                      *)
LastText == LineOf(Len(code) + 1) - (IF Last(code) = "n" THEN 1 ELSE 0)
FirstThatThrows ==
  IF ~Ended(LastText) /\ Cardinality(Chars(LastText)) = 1 THEN LastText - 1 ELSE LastText
ThrowsForTheLastLine ==
  /\ \A n \in 1..Len(printed) : printed[n].line < FirstThatThrows
  /\ outcome \notin {"splitting", "split", "printing", "done"} =>
       /\ outcome = "out of range"
       /\ \E k \in Kind : \E n \in 1..Len(reported[k]) : reported[k][n] >= FirstThatThrows
=============================================================================
