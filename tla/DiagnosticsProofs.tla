-------------------------- MODULE DiagnosticsProofs --------------------------
(***************************************************************************)
(* For files of every length and any number of reports: the reports on a   *)
(* file are merged in order, none is lost, and no empty list is asked for  *)
(* its front (IInv); and the rows printed around a report are the lines    *)
(* that have these numbers, but for the last (RowsInv).                    *)
(***************************************************************************)
EXTENDS Diagnostics, SequenceTheorems, FiniteSetTheorems, TLAPS

Refs          == [start : 0..MaxCode, length : 0..(UInt32 - 1)]
Lines         == 0..(MaxCode + 1)
PrintedReport == [kind : Kind, line : Lines, rows : UNION {[D -> Refs] : D \in SUBSET Int}]

(* A report of kind k on `line` may be printed right behind r.             *)
MayFollow(r, k, line) ==
  r.kind # k => r.line < line \/ (r.line = line /\ Rank(r.kind) < Rank(k))

(* What is at the front of a list may follow what has been printed last.   *)
FrontsFollow ==
  outcome = "printing" /\ printed # <<>> =>
    \A k \in Kind : left[k] # <<>> => MayFollow(Last(printed), k, Head(left[k]))

(* A line feed behind the offset p - 1.                                    *)
Feed(p) == code[p] = "n"

(* Line l begins behind the offset start and has no line feed up to end.   *)
Open(l, start, end) ==
  /\ LineOf(start + 1) = l
  /\ start # 0 => Feed(start)
  /\ \A p \in (start + 1)..end : ~Feed(p)

(* A row is the whole of line l, which a line feed ends.                   *)
Closed(l, row) ==
  LET end == row.start + row.length
  IN  end < Len(code) /\ Open(l, row.start, end) /\ Feed(end + 1)

(* The rows so far are lines, and the next line is being read.             *)
SplitSoFar ==
  outcome = "splitting" =>
    /\ \A l \in 1..Len(code_lines) : Closed(l, code_lines[l])
    /\ Open(Len(code_lines) + 1, start_offset, i)

(* What RowsAreLines says of a row.                                        *)
IsLine(l, row) ==
  IF Chars(l) = {} THEN row.length = 0
  ELSE /\ row.start = Text(l).start
       /\ row.length = Text(l).length - (IF Ended(l) THEN 0 ELSE 1)

(* The rows are the lines, and a report throws when its line is no index.  *)
LinesAre ==
  /\ Len(code_lines) = FirstThatThrows
  /\ \A l \in 1..Len(code_lines) : IsLine(l, code_lines[l])
SplitUp == outcome # "splitting" /\ code # <<>> => LinesAre

(* The rows around a line, as a function of all the rows.                  *)
RowsIn(rows, line) ==
  [li \in {n \in (line - Surround)..(line + Surround) : n > 0 /\ n <= Len(rows)} |-> rows[li]]

(* There are reports on a file that is not empty only, and once it has     *)
(* been split; those printed have rows.                                    *)
Reports ==
  /\ reported \in [Kind -> Seq(Lines)]
  /\ \A k \in Kind : reported[k] # <<>> => code # <<>> /\ outcome \notin {"splitting", "split"}
  /\ \A k \in Kind : outcome \in {"splitting", "split"} => left[k] = <<>>
  /\ \A n \in 1..Len(printed) :
       /\ code # <<>>
       /\ printed[n].line < Len(code_lines)
       /\ printed[n].rows = RowsIn(code_lines, printed[n].line)
  /\ outcome = "out of range" =>
       \E k \in Kind : \E n \in 1..Len(reported[k]) : reported[k][n] >= Len(code_lines)

RowsInv == SplitSoFar /\ SplitUp /\ Reports /\ NothingIsLost

IInv ==
  /\ TypeOK
  /\ code \in Seq({"c", "n"}) /\ Len(code) <= MaxCode
  /\ printed \in Seq(PrintedReport)
  /\ outcome \in {"splitting", "split"} => printed = <<>>
  /\ PrintedInOrder
  /\ FrontsFollow
  /\ outcome # "consumeFront"

-----------------------------------------------------------------------------
(* The lines of a file count from one to one more than its characters.     *)
LEMMA LineBounds ==
  ASSUME NEW p \in Nat, 1 <= p, p <= Len(code) + 1,
         code \in Seq({"c", "n"}), Len(code) <= MaxCode
  PROVE  LineOf(p) \in Lines
<1> DEFINE feeds == {q \in 1..(p - 1) : code[q] = "n"}
<1>1. IsFiniteSet(1..(p - 1)) /\ Cardinality(1..(p - 1)) = p - 1
  <2>1. 1 \in Int /\ p - 1 \in Int
    OBVIOUS
  <2>2. /\ IsFiniteSet(1..(p - 1))
        /\ Cardinality(1..(p - 1)) = IF 1 > p - 1 THEN 0 ELSE (p - 1) - 1 + 1
    BY <2>1, FS_Interval, Zenon
  <2> QED
    BY <2>2
<1>2. IsFiniteSet(feeds) /\ Cardinality(feeds) <= p - 1
  BY <1>1, FS_Subset
<1>3. Cardinality(feeds) \in Nat
  BY <1>2, FS_CardinalityType
<1>4. Len(code) \in Nat /\ MaxCode \in Nat
  BY DiagnosticsAssumption
<1>5. LineOf(p) = 1 + Cardinality(feeds)
  BY DEF LineOf
<1>6. 1 + Cardinality(feeds) \in 0..(MaxCode + 1)
  BY <1>2, <1>3, <1>4
<1> QED
  BY <1>5, <1>6 DEF Lines

(* So do the lines of the reports, of which some are 0.                    *)
LEMMA ReportLineBounds ==
  ASSUME code \in Seq({"c", "n"}), Len(code) <= MaxCode
  PROVE  ReportLines \subseteq Lines
<1>1. Len(code) \in Nat /\ 0 \in Lines
  BY DiagnosticsAssumption DEF Lines
<1>2. LineOf(Len(code) + 1) \in Lines
  BY <1>1, LineBounds
<1>3. ASSUME NEW p \in 1..Len(code)
      PROVE  LineOf(p) \in Lines
  BY <1>1, <1>3, LineBounds
<1>4. TokenLines \subseteq Lines
  BY <1>3 DEF TokenLines
<1> QED
  BY <1>1, <1>2, <1>4 DEF ReportLines

(* A list that is not empty has a smaller line at its front than -1, so    *)
(* that the chosen list is not empty, and its front is not behind another. *)
LEMMA ChosenIsFirst ==
  ASSUME TypeOK, NEW j \in Kind, left[j] # <<>>
  PROVE  /\ Chosen \in Kind /\ left[Chosen] # <<>>
         /\ Head(left[Chosen]) \in Lines
         /\ \A k \in Kind : left[k] # <<>> =>
              /\ Head(left[k]) \in Lines
              /\ k # Chosen =>
                   \/ Head(left[Chosen]) < Head(left[k])
                   \/ Head(left[Chosen]) = Head(left[k]) /\ Rank(Chosen) < Rank(k)
<1>1. ASSUME NEW k \in Kind, left[k] # <<>>
      PROVE  Head(left[k]) \in Lines /\ FrontLine(k) = Head(left[k])
  <2>1. left[k] \in Seq(Lines)
    BY DEF TypeOK, Lines
  <2>2. Head(left[k]) \in Lines
    BY <1>1, <2>1
  <2> QED
    BY <1>1, <2>2 DEF FrontLine
<1>2. ASSUME NEW k \in Kind, left[k] = <<>>
      PROVE  FrontLine(k) = UInt32 - 1
  BY <1>2 DEF FrontLine
<1>3. UInt32 \in Nat /\ MaxCode \in Nat /\ UInt32 - 1 > MaxCode + 1
  BY DiagnosticsAssumption
<1>4. \A k \in Kind : FrontLine(k) \in Int /\ (FrontLine(k) < UInt32 - 1 <=> left[k] # <<>>)
  BY <1>1, <1>2, <1>3 DEF Lines
<1>5. /\ "parser_error" \in Kind /\ "codegen_error" \in Kind /\ "codegen_warning" \in Kind
      /\ \A k \in Kind : k \in {"parser_error", "codegen_error", "codegen_warning"}
  BY DEF Kind
<1>6. /\ Rank("parser_error") = 1 /\ Rank("codegen_error") = 2 /\ Rank("codegen_warning") = 3
  BY DEF Rank
<1>7. /\ Chosen \in Kind
      /\ \A k \in Kind :
           /\ FrontLine(Chosen) <= FrontLine(k)
           /\ k # Chosen => FrontLine(Chosen) < FrontLine(k) \/ Rank(Chosen) < Rank(k)
  BY <1>4, <1>5, <1>6 DEF Chosen
<1>8. left[Chosen] # <<>>
  <2>1. FrontLine(Chosen) <= FrontLine(j) /\ FrontLine(j) < UInt32 - 1
    BY <1>4, <1>7
  <2>2. FrontLine(Chosen) < UInt32 - 1
    BY <1>3, <1>4, <1>7, <2>1
  <2> QED
    BY <1>4, <1>7, <2>2
<1>9. Head(left[Chosen]) \in Lines /\ FrontLine(Chosen) = Head(left[Chosen])
  BY <1>1, <1>7, <1>8
<1>10. ASSUME NEW k \in Kind, left[k] # <<>>, k # Chosen
       PROVE  \/ Head(left[Chosen]) < Head(left[k])
              \/ Head(left[Chosen]) = Head(left[k]) /\ Rank(Chosen) < Rank(k)
  <2>1. FrontLine(k) = Head(left[k]) /\ Head(left[k]) \in Lines
    BY <1>1, <1>10
  <2>2. /\ FrontLine(Chosen) <= FrontLine(k)
        /\ FrontLine(Chosen) < FrontLine(k) \/ Rank(Chosen) < Rank(k)
    BY <1>7, <1>10
  <2> QED
    BY <1>9, <2>1, <2>2 DEF Lines
<1> QED
  BY <1>1, <1>7, <1>8, <1>9, <1>10

(* What is printed around a line are lines of the file.                    *)
LEMMA RowsType ==
  ASSUME TypeOK, NEW line \in Lines
  PROVE  Rows(line) \in UNION {[D -> Refs] : D \in SUBSET Int}
<1> DEFINE D == {n \in (line - Surround)..(line + Surround) : n > 0 /\ n <= Len(code_lines)}
<1>1. D \in SUBSET Int
  OBVIOUS
<1>2. code_lines \in Seq(Refs)
  BY DEF TypeOK, Refs
<1>3. line - Surround \in Int /\ line + Surround \in Int
  BY DiagnosticsAssumption DEF Lines
<1>4. ASSUME NEW n \in D
      PROVE  code_lines[n] \in Refs
  <2>1. n \in 1..Len(code_lines)
    BY <1>2, <1>3, <1>4
  <2> QED
    BY <1>2, <2>1, ElementOfSeq
<1>5. Rows(line) = [n \in D |-> code_lines[n]]
  BY DEF Rows
<1>6. Rows(line) \in [D -> Refs]
  BY <1>4, <1>5
<1> QED
  BY <1>1, <1>6

-----------------------------------------------------------------------------
LEMMA InitInv == Init => IInv
<1> SUFFICES ASSUME Init PROVE IInv
  OBVIOUS
<1>1. code \in Seq({"c", "n"}) /\ Len(code) <= MaxCode
  <2>1. PICK m \in 0..MaxCode : code \in [1..m -> {"c", "n"}]
    BY DEF Init, BoundedSeq, SeqOf
  <2>2. m \in Nat /\ MaxCode \in Nat /\ m <= MaxCode
    BY DiagnosticsAssumption
  <2>3. code \in Seq({"c", "n"}) /\ Len(code) = m
    BY <2>1, <2>2
  <2> QED
    BY <2>2, <2>3
<1>2. TypeOK
  BY <1>1 DEF Init, TypeOK
<1> QED
  BY <1>1, <1>2 DEF Init, IInv, PrintedInOrder, FrontsFollow

(* Printing the report of the chosen list keeps the order.                 *)
LEMMA PrintNextInv ==
  ASSUME IInv, PrintNext
  PROVE  IInv'
<1> USE DEF IInv
<1>1. PICK j \in Kind : left[j] # <<>>
  BY DEF PrintNext
<1> DEFINE c    == Chosen
           line == Head(left[c])
           r    == [kind |-> c, line |-> line, rows |-> Rows(line)]
<1>2. /\ c \in Kind /\ left[c] # <<>> /\ line \in Lines
      /\ \A k \in Kind : left[k] # <<>> /\ k # c =>
           line < Head(left[k]) \/ (line = Head(left[k]) /\ Rank(c) < Rank(k))
  BY <1>1, ChosenIsFirst
<1>3. /\ PrintErr(c, line) /\ left' = [left EXCEPT ![c] = Tail(@)]
      /\ UNCHANGED <<code, i, start_offset, code_lines, reported>>
  BY <1>2 DEF PrintNext, ConsumeFront
<1>4. left \in [Kind -> Seq(Lines)]
  BY DEF TypeOK, Lines
<1>5. Tail(left[c]) \in Seq(Lines)
  BY <1>2, <1>4
<1>6. left' \in [Kind -> Seq(Lines)] /\ left'[c] = Tail(left[c])
      /\ \A k \in Kind : k # c => left'[k] = left[k]
  BY <1>2, <1>3, <1>4, <1>5
<1>7. outcome = "printing" /\ outcome' \in {"printing", "out of range"}
  BY <1>3 DEF PrintNext, PrintErr
<1>8. TypeOK'
  BY <1>3, <1>6, <1>7 DEF TypeOK, Lines
<1>9. r \in PrintedReport
  BY <1>2, RowsType DEF PrintedReport
<1>10. CASE printed' = printed /\ outcome' = "out of range"
  <2>1. PrintedInOrder' /\ FrontsFollow'
    BY <1>10 DEF PrintedInOrder, FrontsFollow
  <2> QED
    BY <1>3, <1>8, <1>10, <2>1
<1>11. CASE printed' = Append(printed, r) /\ outcome' = "printing"
  <2>1. /\ Len(printed) \in Nat /\ Len(printed') = Len(printed) + 1
        /\ printed'[Len(printed')] = r /\ printed' # <<>>
        /\ printed' \in Seq(PrintedReport)
        /\ \A n \in 1..Len(printed) : printed'[n] = printed[n]
    BY <1>9, <1>11
  <2>2. Last(printed') = r /\ Last(printed) = printed[Len(printed)]
    BY <2>1 DEF Last
  <2>3. ASSUME NEW n \in 1..(Len(printed') - 1)
        PROVE  MayFollow(printed'[n], printed'[n + 1].kind, printed'[n + 1].line)
    <3>1. CASE n = Len(printed)
      <4>1. printed # <<>>
        BY <2>1, <2>3, <3>1
      <4>2. MayFollow(Last(printed), c, line)
        BY <1>2, <1>7, <4>1 DEF FrontsFollow
      <4>3. printed'[n] = Last(printed) /\ printed'[n + 1] = r
        BY <2>1, <2>2, <2>3, <3>1
      <4> QED
        BY <4>2, <4>3
    <3>2. CASE n # Len(printed)
      <4>1. n \in 1..(Len(printed) - 1)
        BY <2>1, <2>3, <3>2
      <4>2. printed'[n] = printed[n] /\ printed'[n + 1] = printed[n + 1]
        BY <2>1, <4>1
      <4> QED
        BY <4>1, <4>2 DEF PrintedInOrder, MayFollow
    <3> QED
      BY <3>1, <3>2
  <2>4. PrintedInOrder'
    BY <2>3 DEF PrintedInOrder, MayFollow
  <2>5. ASSUME NEW k \in Kind, left'[k] # <<>>
        PROVE  MayFollow(r, k, Head(left'[k]))
    <3>1. CASE k = c
      BY <3>1 DEF MayFollow
    <3>2. CASE k # c
      BY <1>2, <1>6, <2>5, <3>2 DEF MayFollow
    <3> QED
      BY <3>1, <3>2
  <2>6. FrontsFollow'
    BY <2>2, <2>5 DEF FrontsFollow
  <2> QED
    BY <1>3, <1>8, <1>11, <2>1, <2>4, <2>6
<1> QED
  BY <1>2, <1>3, <1>7, <1>10, <1>11 DEF PrintErr

LEMMA NextInv == IInv /\ [Next]_vars => IInv'
<1> SUFFICES ASSUME IInv, [Next]_vars PROVE IInv'
  OBVIOUS
<1>1. /\ MaxCode \in Nat /\ UInt32 \in Nat /\ UInt32 > MaxCode + 2
      /\ Len(code) \in Nat /\ Len(code) <= MaxCode
      /\ i \in 0..Len(code) /\ start_offset \in 0..i
      /\ code_lines \in Seq(Refs)
  <2>1. code_lines \in Seq(Refs) /\ i \in 0..Len(code) /\ start_offset \in 0..i
    BY DEF IInv, TypeOK, Refs
  <2>2. Len(code) \in Nat /\ Len(code) <= MaxCode
    BY DEF IInv
  <2> QED
    BY <2>1, <2>2, DiagnosticsAssumption
<1>2. CASE SplitAtLineFeed
  <2>1. i < Len(code) /\ i' = i + 1 /\ outcome = "splitting"
        /\ UNCHANGED <<code, left, reported, printed, outcome>>
    BY <1>2 DEF SplitAtLineFeed
  <2>2. StringRef(start_offset, i - start_offset) \in Refs
    BY <1>1 DEF StringRef, Refs
  <2>3. code_lines' \in Seq(Refs) /\ start_offset' \in 0..i'
    <3>1. \/ /\ code_lines' = Append(code_lines, StringRef(start_offset, i - start_offset))
             /\ start_offset' = i + 1
          \/ code_lines' = code_lines /\ start_offset' = start_offset
      BY <1>2 DEF SplitAtLineFeed
    <3>2. code_lines' \in Seq(Refs)
      BY <1>1, <2>2, <3>1
    <3>3. start_offset' \in 0..i'
      BY <1>1, <2>1, <3>1
    <3> QED
      BY <3>2, <3>3
  <2>4. TypeOK'
    BY <1>1, <2>1, <2>3 DEF IInv, TypeOK, Refs
  <2> QED
    BY <2>1, <2>4 DEF IInv, PrintedInOrder, FrontsFollow
<1>3. CASE LastLine
  <2>1. outcome = "splitting" /\ outcome' = "split"
        /\ UNCHANGED <<code, i, start_offset, left, reported, printed>>
    BY <1>3 DEF LastLine
  <2>2. LengthLessOne \in 0..(UInt32 - 1)
    BY <1>1 DEF LengthLessOne
  <2>3. ASSUME start_offset < LengthLessOne
        PROVE  StringRef(start_offset, LengthLessOne - start_offset) \in Refs
    BY <1>1, <2>2, <2>3 DEF StringRef, Refs
  <2>4. code_lines' \in Seq(Refs)
    BY <1>1, <1>3, <2>3 DEF LastLine
  <2>5. TypeOK'
    BY <2>1, <2>4 DEF IInv, TypeOK, Refs
  <2> QED
    BY <2>1, <2>5 DEF IInv, PrintedInOrder, FrontsFollow
<1>4. CASE Report
  <2>1. outcome = "split" /\ outcome' = "printing" /\ printed = <<>>
        /\ UNCHANGED <<code, i, start_offset, code_lines, printed>>
    BY <1>4 DEF Report, IInv
  <2>2. PICK a, b \in 0..MaxReports : \E lines \in BoundedSeq(ReportLines, MaxReports) :
          /\ a <= b /\ b <= Len(lines)
          /\ left' = [k \in Kind |->
                        CASE k = "parser_error"    -> SubSeq(lines, 1, a)
                          [] k = "codegen_error"   -> SubSeq(lines, a + 1, b)
                          [] k = "codegen_warning" -> SubSeq(lines, b + 1, Len(lines))]
    BY <1>4 DEF Report
  <2>3. PICK lines \in BoundedSeq(ReportLines, MaxReports) :
          /\ a <= b /\ b <= Len(lines)
          /\ left' = [k \in Kind |->
                        CASE k = "parser_error"    -> SubSeq(lines, 1, a)
                          [] k = "codegen_error"   -> SubSeq(lines, a + 1, b)
                          [] k = "codegen_warning" -> SubSeq(lines, b + 1, Len(lines))]
    BY <2>2
  <2>4. lines \in Seq(Lines)
    <3>1. PICK m \in 0..MaxReports : lines \in [1..m -> ReportLines]
      BY <2>3 DEF BoundedSeq, SeqOf
    <3>2. m \in Nat /\ ReportLines \subseteq Lines
      BY DiagnosticsAssumption, ReportLineBounds DEF IInv
    <3> QED
      BY <3>1, <3>2
  <2>5. a \in Nat /\ b \in Nat /\ Len(lines) \in Nat
    BY <2>4, DiagnosticsAssumption
  <2>6. /\ SubSeq(lines, 1, a) \in Seq(Lines)
        /\ SubSeq(lines, a + 1, b) \in Seq(Lines)
        /\ SubSeq(lines, b + 1, Len(lines)) \in Seq(Lines)
    BY <2>3, <2>4, <2>5, SubSeqProperties
  <2>7. left' \in [Kind -> Seq(Lines)]
    BY <2>3, <2>6 DEF Kind
  <2>8. TypeOK'
    BY <2>1, <2>7 DEF IInv, TypeOK, Lines
  <2> QED
    BY <2>1, <2>8 DEF IInv, PrintedInOrder, FrontsFollow
<1>5. CASE PrintNext
  BY <1>5, PrintNextInv
<1>6. CASE AllPrinted
  BY <1>6 DEF AllPrinted, IInv, TypeOK, PrintedInOrder, FrontsFollow
<1>7. CASE UNCHANGED vars
  BY <1>7 DEF vars, IInv, TypeOK, PrintedInOrder, FrontsFollow
<1> QED
  BY <1>2, <1>3, <1>4, <1>5, <1>6, <1>7 DEF Next

LEMMA Invariance == Spec => []IInv
<1> QED
  BY InitInv, NextInv, PTL DEF Spec

(* The state of compileAll's splitting of a file and of the merge of its   *)
(* reports is well typed.                                                  *)
THEOREM DiagnosticsTypeOK == Spec => []TypeOK
<1>1. IInv => TypeOK
  BY DEF IInv
<1> QED
  BY Invariance, <1>1, PTL

(* However many reports there are, and on whatever lines,                  *)
(* printErrorsAndWarnings merges its three lists in order.                 *)
THEOREM ReportsPrintedInOrder == Spec => []PrintedInOrder
<1>1. IInv => PrintedInOrder
  BY DEF IInv
<1> QED
  BY Invariance, <1>1, PTL

(* The -1 that stands for an empty list never wins the comparison:         *)
(* consumeFront is not called on an empty list.                            *)
THEOREM NeverConsumesEmptyList == Spec => [](outcome # "consumeFront")
<1>1. IInv => outcome # "consumeFront"
  BY DEF IInv
<1> QED
  BY Invariance, <1>1, PTL

-----------------------------------------------------------------------------
(* The text of the file, without its strings.                              *)
LEMMA Facts ==
  ASSUME IInv
  PROVE  /\ code \in Seq({"c", "n"}) /\ Len(code) \in Nat /\ Len(code) <= MaxCode
         /\ MaxCode \in Nat /\ UInt32 \in Nat /\ UInt32 > MaxCode + 2 /\ Surround \in Nat
         /\ i \in 0..Len(code) /\ start_offset \in 0..i
         /\ code_lines \in Seq(Refs) /\ Len(code_lines) \in Nat
<1>1. /\ code \in Seq({"c", "n"}) /\ Len(code) <= MaxCode
      /\ i \in 0..Len(code) /\ start_offset \in 0..i
      /\ code_lines \in Seq(Refs)
  BY DEF IInv, TypeOK, Refs
<1>2. Len(code) \in Nat /\ Len(code_lines) \in Nat
  BY <1>1
<1> QED
  BY <1>1, <1>2, DiagnosticsAssumption

LEMMA CharIsNoFeed ==
  ASSUME NEW p \in 1..Len(code), code \in Seq({"c", "n"})
  PROVE  code[p] = "c" <=> ~Feed(p)
<1>1. code[p] \in {"c", "n"}
  OBVIOUS
<1> QED
  BY <1>1 DEF Feed

(* Feeds are finitely many, and a line counts those in front of it.        *)
Feeds(p) == {q \in 1..p : Feed(q)}

LEMMA FeedsAre ==
  ASSUME NEW p \in Nat
  PROVE  /\ IsFiniteSet(Feeds(p)) /\ Cardinality(Feeds(p)) \in Nat
         /\ LineOf(p + 1) = 1 + Cardinality(Feeds(p)) /\ LineOf(p + 1) \in Nat \ {0}
<1>1. IsFiniteSet(1..p)
  BY FS_Interval
<1>2. Feeds(p) \in SUBSET (1..p)
  BY DEF Feeds
<1>3. IsFiniteSet(Feeds(p))
  BY <1>1, <1>2, FS_Subset
<1>4. Cardinality(Feeds(p)) \in Nat
  BY <1>3, FS_CardinalityType
<1>5. LineOf(p + 1) = 1 + Cardinality(Feeds(p))
  <2>1. (p + 1) - 1 = p
    OBVIOUS
  <2> QED
    BY ONLY <2>1 DEF LineOf, Feeds, Feed
<1> QED
  BY <1>3, <1>4, <1>5

LEMMA LineOfFirst == LineOf(1) = 1
<1>1. Feeds(0) = {}
  BY DEF Feeds
<1>2. LineOf(0 + 1) = 1 + Cardinality(Feeds(0))
  BY FeedsAre
<1> QED
  BY <1>1, <1>2, FS_EmptySet

(* A line feed ends its line, any other character does not.                *)
LEMMA LineStep ==
  ASSUME NEW p \in Nat \ {0}
  PROVE  /\ LineOf(p) \in Nat \ {0}
         /\ LineOf(p + 1) = IF Feed(p) THEN LineOf(p) + 1 ELSE LineOf(p)
<1>1. p - 1 \in Nat /\ (p - 1) + 1 = p
  OBVIOUS
<1>2. /\ IsFiniteSet(Feeds(p - 1)) /\ Cardinality(Feeds(p - 1)) \in Nat
      /\ LineOf(p) = 1 + Cardinality(Feeds(p - 1)) /\ LineOf(p) \in Nat \ {0}
  BY <1>1, FeedsAre
<1>3. LineOf(p + 1) = 1 + Cardinality(Feeds(p))
  BY FeedsAre
<1>4. p \notin Feeds(p - 1)
  BY DEF Feeds
<1>5. \A q \in Nat : q \in 1..p <=> q \in 1..(p - 1) \/ q = p
  OBVIOUS
<1>6. Feeds(p) = IF Feed(p) THEN Feeds(p - 1) \union {p} ELSE Feeds(p - 1)
  BY <1>5 DEF Feeds
<1>7. Cardinality(Feeds(p - 1) \union {p}) = Cardinality(Feeds(p - 1)) + 1
  BY <1>2, <1>4, FS_AddElement
<1> QED
  BY <1>2, <1>3, <1>6, <1>7

(* Lines do not go back, and go on only behind line feeds.                 *)
LEMMA LinesGrow ==
  ASSUME NEW p \in Nat, NEW q \in Nat, 1 <= p, p <= q
  PROVE  /\ LineOf(p) \in Nat /\ LineOf(q) \in Nat /\ LineOf(p) <= LineOf(q)
         /\ (\A r \in p..(q - 1) : ~Feed(r)) => LineOf(q) = LineOf(p)
<1>1. p - 1 \in Nat /\ q - 1 \in Nat /\ (p - 1) + 1 = p /\ (q - 1) + 1 = q
  OBVIOUS
<1>2. /\ IsFiniteSet(Feeds(q - 1)) /\ Cardinality(Feeds(q - 1)) \in Nat
      /\ Cardinality(Feeds(p - 1)) \in Nat
      /\ LineOf(p) = 1 + Cardinality(Feeds(p - 1)) /\ LineOf(q) = 1 + Cardinality(Feeds(q - 1))
  BY <1>1, FeedsAre
<1>3. Feeds(p - 1) \in SUBSET Feeds(q - 1)
  BY DEF Feeds
<1>4. Cardinality(Feeds(p - 1)) <= Cardinality(Feeds(q - 1))
  BY <1>2, <1>3, FS_Subset
<1>5. ASSUME \A r \in p..(q - 1) : ~Feed(r)
      PROVE  Feeds(p - 1) = Feeds(q - 1)
  <2>1. ASSUME NEW r \in Feeds(q - 1)
        PROVE  r \in Feeds(p - 1)
    <3>1. r \in 1..(q - 1) /\ Feed(r)
      BY <2>1 DEF Feeds
    <3>2. r \notin p..(q - 1)
      BY <1>5, <3>1
    <3>3. r \in 1..(p - 1)
      BY <3>1, <3>2
    <3> QED
      BY <3>1, <3>3 DEF Feeds
  <2> QED
    BY <1>3, <2>1
<1> QED
  BY <1>2, <1>4, <1>5

(* What is on an open line: from start up to where the next line begins.   *)
LEMMA OnOpenLine ==
  ASSUME NEW l, NEW start \in Nat, NEW end \in Nat, start <= end, Open(l, start, end)
  PROVE  /\ l \in Nat \ {0}
         /\ \A p \in 1..end : LineOf(p) = l <=> p \in (start + 1)..end
         /\ LineOf(end + 1) = l
<1>1. /\ LineOf(start + 1) = l /\ (start # 0 => Feed(start))
      /\ \A p \in (start + 1)..end : ~Feed(p)
  BY DEF Open
<1>2. l \in Nat \ {0}
  BY <1>1, FeedsAre
<1>3. ASSUME NEW p \in (start + 1)..(end + 1)
      PROVE  LineOf(p) = l
  <2>1. p \in Nat /\ start + 1 \in Nat /\ 1 <= start + 1 /\ start + 1 <= p
        /\ \A r \in (start + 1)..(p - 1) : r \in (start + 1)..end
    OBVIOUS
  <2> QED
    BY <1>1, <2>1, LinesGrow
<1>4. ASSUME NEW p \in 1..end, p \notin (start + 1)..end
      PROVE  LineOf(p) # l
  <2>1. p \in Nat /\ 1 <= p /\ p <= start /\ start \in Nat \ {0}
    BY <1>4
  <2>2. LineOf(p) \in Nat /\ LineOf(start) \in Nat /\ LineOf(p) <= LineOf(start)
    BY <2>1, LinesGrow
  <2>3. LineOf(start + 1) = LineOf(start) + 1
    BY <1>1, <2>1, LineStep
  <2> QED
    BY <1>1, <2>2, <2>3
<1>5. end + 1 \in (start + 1)..(end + 1) /\ \A p \in (start + 1)..end : p \in (start + 1)..(end + 1)
  OBVIOUS
<1> QED
  BY <1>2, <1>3, <1>4, <1>5

LEMMA MinOf ==
  ASSUME NEW a \in Int, NEW b \in Int, a <= b
  PROVE  Min(a..b) = a
<1>1. a \in a..b /\ \A y \in a..b : a <= y
  OBVIOUS
<1>2. ASSUME NEW x \in a..b, \A y \in a..b : x <= y
      PROVE  x = a
  BY <1>1, <1>2
<1> QED
  BY <1>1, <1>2 DEF Min

(* The text of a line, from the range of its characters.                   *)
LEMMA TextIs ==
  ASSUME NEW l, NEW start \in Nat, NEW end \in Nat, start <= end,
         Chars(l) = (start + 1)..end
  PROVE  /\ Cardinality(Chars(l)) = end - start
         /\ Chars(l) = {} <=> start = end
         /\ start # end => Text(l).start = start /\ Text(l).length = end - start
<1>1. Cardinality((start + 1)..end) = end - start
  <2>1. start + 1 \in Int /\ end \in Int
    OBVIOUS
  <2>2. Cardinality((start + 1)..end) =
          IF start + 1 > end THEN 0 ELSE end - (start + 1) + 1
    BY <2>1, FS_Interval, Zenon
  <2> QED
    BY <2>2
<1>2. (start + 1)..end = {} <=> start = end
  BY start + 1 \in (start + 1)..end \/ start = end
<1>3. ASSUME start # end
      PROVE  Min((start + 1)..end) - 1 = start
  <2>1. start + 1 \in Int /\ end \in Int /\ start + 1 <= end
    BY <1>3
  <2>2. Min((start + 1)..end) = start + 1
    BY <2>1, MinOf
  <2> QED
    BY <2>2
<1>4. Text(l) = StringRef(Min((start + 1)..end) - 1, end - start)
  BY <1>1 DEF Text
<1> QED
  BY <1>1, <1>2, <1>3, <1>4 DEF StringRef

(* A row that a line feed ends is its line.                                *)
LEMMA ClosedIsLine ==
  ASSUME IInv, NEW l, NEW row \in Refs, Closed(l, row)
  PROVE  IsLine(l, row)
<1> DEFINE start == row.start
           end   == row.start + row.length
           L     == Len(code)
<1>1. start \in Nat /\ end \in Nat /\ start <= end /\ row.length = end - start
  <2>1. row.start \in 0..MaxCode /\ row.length \in 0..(UInt32 - 1)
    BY DEF Refs
  <2>2. MaxCode \in Nat /\ UInt32 \in Nat
    BY Facts
  <2>3. row.start \in Nat /\ row.length \in Nat
    BY ONLY <2>1, <2>2
  <2> QED
    BY ONLY <2>3
<1>2. end < L /\ Open(l, start, end) /\ Feed(end + 1)
  BY DEF Closed
<1>3. L \in Nat
  BY Facts
<1> HIDE DEF start, end, L
<1>4. /\ l \in Nat \ {0} /\ LineOf(end + 1) = l
      /\ \A p \in 1..end : LineOf(p) = l <=> p \in (start + 1)..end
  BY <1>1, <1>2, OnOpenLine
<1>5. LineOf((end + 1) + 1) = l + 1
  <2>1. end + 1 \in Nat \ {0}
    BY <1>1
  <2> QED
    BY <1>2, <1>4, <2>1, LineStep
<1>6. ASSUME NEW p \in 1..L, LineOf(p) = l, ~Feed(p)
      PROVE  p \in (start + 1)..end
  <2>1. CASE p \in 1..end
    BY <1>4, <1>6, <2>1
  <2>2. CASE p = end + 1
    BY <1>2, <1>6, <2>2
  <2>3. CASE p > end + 1
    <3>1. (end + 1) + 1 \in Nat /\ 1 <= (end + 1) + 1 /\ (end + 1) + 1 <= p /\ p \in Nat
      BY <1>1, <1>3, <2>3
    <3>2. LineOf((end + 1) + 1) <= LineOf(p)
      BY <3>1, LinesGrow
    <3> QED
      BY <1>4, <1>5, <1>6, <3>2
  <2>4. p \in 1..end \/ p = end + 1 \/ p > end + 1
    BY <1>1, <1>3
  <2> QED
    BY <2>1, <2>2, <2>3, <2>4
<1>7. ASSUME NEW p \in (start + 1)..end
      PROVE  p \in 1..L /\ LineOf(p) = l /\ ~Feed(p)
  <2>1. p \in 1..end /\ p \in 1..L
    BY <1>1, <1>2, <1>3
  <2> QED
    BY <1>2, <1>4, <2>1 DEF Open
<1>8. Chars(l) = (start + 1)..end
  <2>1. Chars(l) = {p \in 1..L : LineOf(p) = l /\ ~Feed(p)}
    BY Facts, CharIsNoFeed DEF Chars, L
  <2> QED
    BY <1>6, <1>7, <2>1
<1>9. Ended(l)
  <2>1. end + 1 \in 1..L
    BY <1>1, <1>2, <1>3
  <2> QED
    BY <1>2, <1>4, <2>1 DEF Ended, Feed, L
<1>10. /\ Chars(l) = {} <=> start = end
       /\ start # end => Text(l).start = start /\ Text(l).length = end - start
  BY <1>1, <1>8, TextIs
<1>11. row.start = start
  BY DEF start
<1>12. CASE start = end
  BY <1>1, <1>10, <1>12 DEF IsLine
<1>13. CASE start # end
  <2>1. Text(l).length - (IF Ended(l) THEN 0 ELSE 1) = end - start
    BY <1>1, <1>9, <1>10, <1>13
  <2> QED
    BY <1>1, <1>10, <1>11, <1>13, <2>1 DEF IsLine
<1> QED
  BY <1>12, <1>13

(* What is behind the last line feed is the last line, and has none.       *)
LEMMA LastLineIs ==
  ASSUME IInv, NEW l, NEW start \in Nat, start < Len(code), Open(l, start, Len(code))
  PROVE  /\ LineOf(Len(code) + 1) = l /\ l \in Nat \ {0} /\ ~Feed(Len(code)) /\ ~Ended(l)
         /\ Chars(l) = (start + 1)..Len(code)
<1> DEFINE L == Len(code)
<1>1. L \in Nat /\ start < L /\ start <= L /\ Open(l, start, L)
  BY Facts
<1>2. /\ Chars(l) = {p \in 1..L : LineOf(p) = l /\ ~Feed(p)}
      /\ Ended(l) <=> \E p \in 1..L : LineOf(p) = l /\ Feed(p)
  BY Facts, CharIsNoFeed DEF Chars, Ended, Feed
<1> HIDE DEF L
<1>3. /\ l \in Nat \ {0} /\ LineOf(L + 1) = l
      /\ \A p \in 1..L : LineOf(p) = l <=> p \in (start + 1)..L
  BY <1>1, OnOpenLine
<1>4. \A p \in (start + 1)..L : p \in 1..L /\ ~Feed(p)
  BY <1>1 DEF Open
<1>5. L \in (start + 1)..L
  BY <1>1
<1>6. Chars(l) = (start + 1)..L /\ ~Ended(l) /\ ~Feed(L)
  BY <1>2, <1>3, <1>4, <1>5
<1> QED
  BY <1>3, <1>6 DEF L

LEMMA LessOne ==
  ASSUME IInv, code # <<>>
  PROVE  LengthLessOne = Len(code) - 1 /\ Len(code) \in Nat \ {0}
<1> DEFINE m == Len(code) - 1
<1>1. m \in 0..(UInt32 - 1) /\ UInt32 \in Nat \ {0} /\ Len(code) \in Nat \ {0}
  BY Facts
<1> HIDE DEF m
<1>2. m % UInt32 = m
  BY <1>1
<1> QED
  BY <1>1, <1>2 DEF LengthLessOne, m

(* What LastLine makes of the rows are the lines of the file.              *)
LEMMA RowsAfterLastLine ==
  ASSUME IInv, SplitSoFar, LastLine, code # <<>>
  PROVE  /\ Len(code_lines') = FirstThatThrows
         /\ \A l \in 1..Len(code_lines') : IsLine(l, code_lines'[l])
<1> DEFINE s    == start_offset
           L    == Len(code)
           n    == Len(code_lines)
           last == StringRef(s, (L - 1) - s)
<1>1. /\ L \in Nat \ {0} /\ s \in 0..L /\ n \in Nat /\ code_lines \in Seq(Refs)
      /\ L < UInt32 /\ L <= MaxCode /\ MaxCode \in Nat /\ UInt32 \in Nat
  BY LessOne, Facts
<1>2. /\ code_lines' = IF s < L - 1 THEN Append(code_lines, last) ELSE code_lines
      /\ \A l \in 1..n : Closed(l, code_lines[l])
      /\ Open(n + 1, s, L)
  <2>1. LengthLessOne = L - 1 /\ outcome = "splitting" /\ i = L
    BY LessOne DEF LastLine
  <2> QED
    BY <2>1 DEF LastLine, SplitSoFar
<1>3. ASSUME NEW l \in 1..n
      PROVE  IsLine(l, code_lines[l])
  <2>1. code_lines[l] \in Refs
    BY <1>1
  <2> QED
    BY <1>2, <2>1, ClosedIsLine
<1>4. Last(code) = code[L]
  BY DEF Last
<1>5. LastText = LineOf(L + 1) - (IF Feed(L) THEN 1 ELSE 0)
  BY <1>4 DEF LastText, Feed
<1>6. last.start = s /\ last.length = (L - 1) - s
  BY DEF StringRef
<1>7. s < L - 1 => last \in Refs
  BY <1>1 DEF Refs, StringRef
<1> HIDE DEF s, L, n, last
<1>8. CASE s = L
  <2>1. Feed(L) /\ LineOf(L + 1) = n + 1
    <3>1. Feed(s)
      BY <1>1, <1>2, <1>8 DEF Open
    <3>2. LineOf(s + 1) = n + 1
      BY <1>2 DEF Open
    <3> QED
      BY <1>8, <3>1, <3>2
  <2>2. LineOf(L) = n
    <3>1. LineOf(L) \in Nat /\ LineOf(L + 1) = LineOf(L) + 1
      BY <1>1, <2>1, LineStep
    <3> QED
      BY <1>1, <2>1, <3>1
  <2>3. LastText = n
    BY <1>1, <1>5, <2>1
  <2>4. Ended(n)
    <3>1. L \in 1..Len(code)
      BY <1>1 DEF L
    <3> QED
      BY <2>1, <2>2, <3>1 DEF Ended, Feed
  <2>5. FirstThatThrows = n
    BY <2>3, <2>4 DEF FirstThatThrows
  <2>6. code_lines' = code_lines
    BY <1>1, <1>2, <1>8
  <2> QED
    BY <1>3, <2>5, <2>6 DEF n
<1>9. CASE s # L
  <2>1. s \in Nat /\ s < L
    BY <1>1, <1>9
  <2>2. /\ LineOf(L + 1) = n + 1 /\ ~Feed(L) /\ ~Ended(n + 1)
        /\ Chars(n + 1) = (s + 1)..L
    BY <1>2, <2>1, LastLineIs DEF L
  <2>3. /\ Cardinality(Chars(n + 1)) = L - s /\ Chars(n + 1) # {}
        /\ Text(n + 1).start = s /\ Text(n + 1).length = L - s
    <3>1. L \in Nat /\ s <= L /\ s # L
      BY <1>1, <2>1
    <3> DEFINE m == n + 1
    <3>2. Chars(m) = (s + 1)..L
      BY <2>2
    <3> HIDE DEF m
    <3>3. /\ Cardinality(Chars(m)) = L - s
          /\ Chars(m) = {} <=> s = L
          /\ s # L => Text(m).start = s /\ Text(m).length = L - s
      BY <2>1, <3>1, <3>2, TextIs
    <3> QED
      BY <3>1, <3>3 DEF m
  <2>4. LastText = n + 1
    BY <1>1, <1>5, <2>2
  <2>5. FirstThatThrows = IF L - s = 1 THEN (n + 1) - 1 ELSE n + 1
    BY <2>2, <2>3, <2>4 DEF FirstThatThrows
  <2>6. CASE L - s = 1
    <3>1. FirstThatThrows = n /\ code_lines' = code_lines
      BY <1>1, <1>2, <2>1, <2>5, <2>6
    <3> QED
      BY <1>3, <3>1 DEF n
  <2>7. CASE L - s # 1
    <3>1. s < L - 1
      BY <1>1, <2>1, <2>7
    <3>2. /\ code_lines' = Append(code_lines, last) /\ last \in Refs
          /\ FirstThatThrows = n + 1
      BY <1>2, <1>7, <2>5, <2>7, <3>1
    <3>3. /\ Len(code_lines') = n + 1 /\ code_lines'[n + 1] = last
          /\ \A l \in 1..n : code_lines'[l] = code_lines[l]
      BY <1>1, <3>2, AppendProperties DEF n
    <3>4. IsLine(n + 1, last)
      <4>1. Text(n + 1).length - (IF Ended(n + 1) THEN 0 ELSE 1) = (L - 1) - s
        BY <1>1, <2>2, <2>3
      <4> QED
        BY <1>6, <2>3, <4>1 DEF IsLine
    <3>5. \A l \in 1..(n + 1) : l \in 1..n \/ l = n + 1
      BY <1>1
    <3> QED
      BY <1>3, <3>2, <3>3, <3>4, <3>5
  <2> QED
    BY <2>6, <2>7
<1> QED
  BY <1>8, <1>9

-----------------------------------------------------------------------------
(* How many of the first n of some reports are of kind k, and what         *)
(* NothingIsLost says of the reports printed, made and left.               *)
Count(out, k, n) == Cardinality({m \in 1..n : out[m].kind = k})
Kept(out, all, rest) ==
  /\ \A n \in 1..Len(out) : out[n].line = all[out[n].kind][Count(out, out[n].kind, n)]
  /\ \A k \in Kind :
       /\ Len(all[k]) = Count(out, k, Len(out)) + Len(rest[k])
       /\ \A m \in 1..Len(rest[k]) : rest[k][m] = all[k][Count(out, k, Len(out)) + m]

LEMMA KeptIs ==
  /\ NothingIsLost <=> (outcome \in {"printing", "done"} => Kept(printed, reported, left))
  /\ NothingIsLost' <=> (outcome' \in {"printing", "done"} => Kept(printed', reported', left'))
BY DEF NothingIsLost, PrintedOf, Kept, Count

(* A report that is printed counts for its kind.                           *)
LEMMA CountStep ==
  ASSUME NEW s \in Seq(PrintedReport), NEW r \in PrintedReport
  PROVE  \A k \in Kind :
           /\ \A n \in 0..Len(s) :
                Count(Append(s, r), k, n) = Count(s, k, n) /\ Count(s, k, n) \in Nat
           /\ Count(Append(s, r), k, Len(s) + 1) =
                IF r.kind = k THEN Count(s, k, Len(s)) + 1 ELSE Count(s, k, Len(s))
<1> DEFINE u == Append(s, r)
           Of(x, k, n) == {m \in 1..n : x[m].kind = k}
<1>1. /\ Len(s) \in Nat /\ Len(u) = Len(s) + 1 /\ u[Len(s) + 1] = r
      /\ \A m \in 1..Len(s) : u[m] = s[m]
  BY AppendProperties
<1>2. TAKE k \in Kind
<1>3. ASSUME NEW n \in 0..Len(s)
      PROVE  Of(u, k, n) = Of(s, k, n) /\ IsFiniteSet(Of(s, k, n)) /\ Cardinality(Of(s, k, n)) \in Nat
  <2>1. \A m \in 1..n : u[m] = s[m]
    BY <1>1, <1>3
  <2>2. IsFiniteSet(1..n)
    BY <1>3, FS_Interval
  <2>3. Of(s, k, n) \in SUBSET (1..n)
    OBVIOUS
  <2>4. IsFiniteSet(Of(s, k, n))
    BY <2>2, <2>3, FS_Subset
  <2> QED
    BY <2>1, <2>4, FS_CardinalityType
<1>4. Len(s) \in 0..Len(s)
  BY <1>1
<1>5. Of(u, k, Len(s) + 1) = IF r.kind = k THEN Of(s, k, Len(s)) \union {Len(s) + 1} ELSE Of(s, k, Len(s))
  <2>1. \A m : m \in 1..(Len(s) + 1) <=> m \in 1..Len(s) \/ m = Len(s) + 1
    BY <1>1
  <2> HIDE DEF u
  <2> QED
    BY <1>1, <2>1
<1>6. Len(s) + 1 \notin Of(s, k, Len(s))
  BY <1>1
<1>7. /\ Count(u, k, Len(s) + 1) = Cardinality(Of(u, k, Len(s) + 1))
      /\ \A n \in 0..Len(s) : Count(u, k, n) = Cardinality(Of(u, k, n)) /\ Count(s, k, n) = Cardinality(Of(s, k, n))
  BY DEF Count
<1> HIDE DEF u, Of
<1>8. Cardinality(Of(s, k, Len(s)) \union {Len(s) + 1}) = Cardinality(Of(s, k, Len(s))) + 1
  BY <1>3, <1>4, <1>6, FS_AddElement
<1>9. \A n \in 0..Len(s) : Count(u, k, n) = Count(s, k, n) /\ Count(s, k, n) \in Nat
  BY <1>3, <1>7
<1>10. Count(u, k, Len(s) + 1) = IF r.kind = k THEN Count(s, k, Len(s)) + 1 ELSE Count(s, k, Len(s))
  BY <1>4, <1>5, <1>7, <1>8
<1> QED
  BY <1>9, <1>10 DEF u

LEMMA CountOfNone ==
  ASSUME NEW k \in Kind
  PROVE  Count(<<>>, k, 0) = 0
<1>1. {m \in 1..0 : <<>>[m].kind = k} = {}
  OBVIOUS
<1> QED
  BY <1>1, FS_EmptySet DEF Count

(* The front of a list, printed, is the next that was made of its kind.    *)
LEMMA KeptStep ==
  ASSUME NEW s \in Seq(PrintedReport), NEW r \in PrintedReport,
         NEW all \in [Kind -> Seq(Lines)],
         NEW rest \in [Kind -> Seq(Lines)], NEW rest2 \in [Kind -> Seq(Lines)],
         Kept(s, all, rest), rest[r.kind] # <<>>, r.line = Head(rest[r.kind]),
         rest2 = [rest EXCEPT ![r.kind] = Tail(@)]
  PROVE  Kept(Append(s, r), all, rest2)
<1> DEFINE c == r.kind
           u == Append(s, r)
<1>1. c \in Kind /\ r.line = Head(rest[c]) /\ rest[c] # <<>>
  BY DEF PrintedReport
<1>2. rest2[c] = Tail(rest[c]) /\ \A k \in Kind : k # c => rest2[k] = rest[k]
  BY <1>1
<1>3. \A k \in Kind : rest[k] \in Seq(Lines) /\ all[k] \in Seq(Lines)
  OBVIOUS
<1>4. /\ Len(rest[c]) \in Nat \ {0} /\ Head(rest[c]) = rest[c][1]
      /\ Len(Tail(rest[c])) = Len(rest[c]) - 1
      /\ \A m \in 1..(Len(rest[c]) - 1) : Tail(rest[c])[m] = rest[c][m + 1]
  <2>1. rest[c] \in Seq(Lines) /\ rest[c] # <<>>
    BY <1>1, <1>3
  <2> QED
    BY <2>1, HeadTailProperties
<1>5. /\ Len(s) \in Nat /\ Len(u) = Len(s) + 1 /\ u[Len(s) + 1] = r
      /\ \A m \in 1..Len(s) : u[m] = s[m] /\ s[m].kind \in Kind
  <2>1. \A m \in 1..Len(s) : s[m] \in PrintedReport
    OBVIOUS
  <2> QED
    BY <2>1, AppendProperties DEF PrintedReport
<1>6. \A k \in Kind :
           /\ \A n \in 0..Len(s) : Count(u, k, n) = Count(s, k, n) /\ Count(s, k, n) \in Nat
           /\ Count(u, k, Len(s) + 1) =
                IF c = k THEN Count(s, k, Len(s)) + 1 ELSE Count(s, k, Len(s))
  BY CountStep
<1> HIDE DEF c, u
<1>7. ASSUME NEW n \in 1..Len(u)
      PROVE  u[n].line = all[u[n].kind][Count(u, u[n].kind, n)]
  <2>1. CASE n \in 1..Len(s)
    <3>1. u[n] = s[n] /\ s[n].kind \in Kind /\ n \in 0..Len(s)
      BY <1>5, <2>1
    <3>2. Count(u, s[n].kind, n) = Count(s, s[n].kind, n)
      BY <1>6, <3>1
    <3> QED
      BY <2>1, <3>1, <3>2 DEF Kept
  <2>2. CASE n = Len(s) + 1
    <3>1. Count(u, c, n) = Count(s, c, Len(s)) + 1
      BY <1>1, <1>6, <2>2
    <3>2. rest[c][1] = all[c][Count(s, c, Len(s)) + 1]
      <4>1. 1 \in 1..Len(rest[c])
        BY <1>4
      <4> QED
        BY <1>1, <4>1 DEF Kept
    <3> QED
      BY <1>1, <1>4, <1>5, <2>2, <3>1, <3>2 DEF c
  <2>3. n \in 1..Len(s) \/ n = Len(s) + 1
    BY <1>5, <1>7
  <2> QED
    BY <2>1, <2>2, <2>3
<1>8. ASSUME NEW k \in Kind
      PROVE  /\ Len(all[k]) = Count(u, k, Len(u)) + Len(rest2[k])
             /\ \A m \in 1..Len(rest2[k]) : rest2[k][m] = all[k][Count(u, k, Len(u)) + m]
  <2>1. /\ Len(all[k]) = Count(s, k, Len(s)) + Len(rest[k])
        /\ \A m \in 1..Len(rest[k]) : rest[k][m] = all[k][Count(s, k, Len(s)) + m]
    BY DEF Kept
  <2>2. Count(s, k, Len(s)) \in Nat /\ Len(rest[k]) \in Nat
    <3>1. Len(s) \in 0..Len(s) /\ rest[k] \in Seq(Lines)
      BY <1>3, <1>5
    <3> QED
      BY <1>6, <3>1
  <2>3. CASE k # c
    <3>1. Count(u, k, Len(u)) = Count(s, k, Len(s)) /\ rest2[k] = rest[k]
      BY <1>2, <1>5, <1>6, <2>3
    <3> QED
      BY <2>1, <3>1
  <2>4. CASE k = c
    <3>1. Count(u, k, Len(u)) = Count(s, k, Len(s)) + 1 /\ rest2[k] = Tail(rest[k])
      BY <1>1, <1>2, <1>5, <1>6, <2>4
    <3>2. /\ Len(rest2[k]) = Len(rest[k]) - 1
          /\ \A m \in 1..Len(rest2[k]) : rest2[k][m] = rest[k][m + 1] /\ m + 1 \in 1..Len(rest[k])
      <4> DEFINE t == rest[k]
                 u2 == rest2[k]
      <4>1. /\ Len(t) \in Nat \ {0} /\ Len(u2) = Len(t) - 1
            /\ \A m \in 1..(Len(t) - 1) : u2[m] = t[m + 1]
        BY <1>4, <2>4, <3>1
      <4> HIDE DEF t, u2
      <4>2. /\ Len(u2) = Len(t) - 1
            /\ \A m \in 1..Len(u2) : u2[m] = t[m + 1] /\ m + 1 \in 1..Len(t)
        BY ONLY <4>1
      <4> QED
        BY <4>2 DEF t, u2
    <3> DEFINE n == Count(s, k, Len(s))
    <3>3. Len(all[k]) = (n + 1) + Len(rest2[k])
      BY <2>1, <2>2, <3>2
    <3>4. ASSUME NEW m \in 1..Len(rest2[k])
          PROVE  rest2[k][m] = all[k][(n + 1) + m]
      <4>1. rest2[k][m] = all[k][n + (m + 1)]
        BY <2>1, <3>2
      <4>2. n + (m + 1) = (n + 1) + m
        BY <2>2
      <4> QED
        BY <4>1, <4>2
    <3> QED
      BY <3>1, <3>3, <3>4
  <2> QED
    BY <2>3, <2>4
<1> QED
  BY <1>7, <1>8 DEF Kept, u

-----------------------------------------------------------------------------
LEMMA InitRows == Init => RowsInv
<1> SUFFICES ASSUME Init PROVE RowsInv
  OBVIOUS
<1>1. /\ outcome = "splitting" /\ i = 0 /\ start_offset = 0 /\ code_lines = <<>>
      /\ left = [k \in Kind |-> <<>>] /\ reported = left /\ printed = <<>>
  BY DEF Init
<1>2. SplitSoFar
  <2>1. Len(code_lines) + 1 = 1 /\ 0 + 1 = 1 /\ \A p \in (0 + 1)..0 : FALSE
    BY <1>1
  <2>2. Open(Len(code_lines) + 1, 0, 0)
    BY <2>1, LineOfFirst DEF Open
  <2>3. \A l \in 1..Len(code_lines) : FALSE
    BY <1>1
  <2> QED
    BY <1>1, <2>2, <2>3 DEF SplitSoFar
<1>3. Reports
  BY <1>1 DEF Reports
<1> QED
  BY <1>1, <1>2, <1>3 DEF RowsInv, SplitUp, NothingIsLost

(* A character goes to the line that is being read, a line feed ends it.   *)
LEMMA SplitStep ==
  ASSUME IInv, SplitSoFar, SplitAtLineFeed
  PROVE  /\ \A l \in 1..Len(code_lines') : Closed(l, code_lines'[l])
         /\ Open(Len(code_lines') + 1, start_offset', i')
<1> DEFINE n   == Len(code_lines)
           row == StringRef(start_offset, i - start_offset)
<1>1. /\ n \in Nat /\ i \in Nat /\ start_offset \in Nat /\ start_offset <= i /\ i < Len(code)
      /\ Len(code) \in Nat /\ code_lines \in Seq(Refs)
      /\ MaxCode \in Nat /\ UInt32 \in Nat /\ Len(code) <= MaxCode /\ MaxCode + 2 < UInt32
  <2>1. i < Len(code)
    BY DEF SplitAtLineFeed
  <2> QED
    BY <2>1, Facts
<1>2. /\ \A l \in 1..n : Closed(l, code_lines[l])
      /\ Open(n + 1, start_offset, i)
  BY DEF SplitSoFar, SplitAtLineFeed
<1>3. /\ i' = i + 1
      /\ IF Feed(i + 1)
           THEN code_lines' = Append(code_lines, row) /\ start_offset' = i + 1
           ELSE code_lines' = code_lines /\ start_offset' = start_offset
  BY DEF SplitAtLineFeed, Feed
<1>4. row.start = start_offset /\ row.length = i - start_offset
  BY DEF StringRef
<1>5. row \in Refs
  BY <1>1 DEF StringRef, Refs
<1>6. LineOf(i + 1) = n + 1
  BY <1>1, <1>2, OnOpenLine
<1> HIDE DEF n, row
<1>7. CASE Feed(i + 1)
  <2>1. /\ Len(code_lines') = n + 1 /\ code_lines'[n + 1] = row
        /\ \A l \in 1..n : code_lines'[l] = code_lines[l]
    BY <1>1, <1>3, <1>5, <1>7, AppendProperties DEF n
  <2>2. row.start + row.length = i
    BY <1>1, <1>4
  <2>3. Closed(n + 1, row)
    BY <1>1, <1>2, <1>4, <1>7, <2>2 DEF Closed
  <2>4. \A l \in 1..(n + 1) : l \in 1..n \/ l = n + 1
    BY <1>1
  <2>5. LineOf((i + 1) + 1) = (n + 1) + 1
    <3>1. i + 1 \in Nat \ {0}
      BY <1>1
    <3> QED
      BY <1>1, <1>6, <1>7, <3>1, LineStep
  <2>6. \A p \in ((i + 1) + 1)..(i + 1) : FALSE
    BY <1>1
  <2>7. Open((n + 1) + 1, i + 1, i + 1)
    BY <1>7, <2>5, <2>6 DEF Open
  <2> QED
    BY <1>2, <1>3, <1>7, <2>1, <2>3, <2>4, <2>7
<1>8. CASE ~Feed(i + 1)
  <2>1. \A p \in (start_offset + 1)..(i + 1) : p \in (start_offset + 1)..i \/ p = i + 1
    BY <1>1
  <2>2. Open(n + 1, start_offset, i + 1)
    BY <1>2, <1>8, <2>1 DEF Open
  <2> QED
    BY <1>2, <1>3, <1>8, <2>2 DEF n
<1> QED
  BY <1>7, <1>8

LEMMA SplitAtLineFeedRows ==
  ASSUME IInv, RowsInv, SplitAtLineFeed
  PROVE  RowsInv'
<1>1. /\ outcome = "splitting" /\ outcome' = "splitting"
      /\ UNCHANGED <<code, left, reported, printed>>
  BY DEF SplitAtLineFeed
<1>2. /\ \A l \in 1..Len(code_lines') : Closed(l, code_lines'[l])
      /\ Open(Len(code_lines') + 1, start_offset', i')
  BY SplitStep DEF RowsInv
<1>3. SplitSoFar'
  BY ONLY <1>1, <1>2 DEF SplitSoFar, Closed, Open, LineOf, Feed
<1>4. printed' = <<>>
  BY <1>1 DEF IInv
<1>5. Reports'
  BY <1>1, <1>4 DEF RowsInv, Reports
<1> QED
  BY <1>1, <1>3, <1>5 DEF RowsInv, SplitUp, NothingIsLost

(* The lines are those of the text, which does not change.                 *)
LEMMA SameText ==
  ASSUME UNCHANGED code
  PROVE  /\ FirstThatThrows' = FirstThatThrows
         /\ \A l, row : IsLine(l, row)' <=> IsLine(l, row)
<1> DEFINE Line(c, p)   == 1 + Cardinality({q \in 1..(p - 1) : c[q] = "n"})
           In(c, l)     == {p \in 1..Len(c) : Line(c, p) = l /\ c[p] = "c"}
           Ends(c, l)   == \E p \in 1..Len(c) : Line(c, p) = l /\ c[p] = "n"
           Final(c)     == Line(c, Len(c) + 1) - (IF Last(c) = "n" THEN 1 ELSE 0)
           Throws(c)    == IF ~Ends(c, Final(c)) /\ Cardinality(In(c, Final(c))) = 1
                             THEN Final(c) - 1 ELSE Final(c)
           Is(c, l, row) ==
             IF In(c, l) = {} THEN row.length = 0
             ELSE /\ row.start = StringRef(Min(In(c, l)) - 1, Cardinality(In(c, l))).start
                  /\ row.length = StringRef(Min(In(c, l)) - 1, Cardinality(In(c, l))).length
                                     - (IF Ends(c, l) THEN 0 ELSE 1)
<1>1. FirstThatThrows = Throws(code) /\ \A l, row : IsLine(l, row) <=> Is(code, l, row)
  BY DEF FirstThatThrows, LastText, IsLine, Chars, Text, Ended, LineOf
<1>2. FirstThatThrows' = Throws(code') /\ \A l, row : IsLine(l, row)' <=> Is(code', l, row)
  BY DEF FirstThatThrows, LastText, IsLine, Chars, Text, Ended, LineOf
<1> HIDE DEF Throws, Is
<1> QED
  BY <1>1, <1>2

LEMMA LastLineRows ==
  ASSUME IInv, RowsInv, LastLine
  PROVE  RowsInv'
<1>1. /\ outcome = "splitting" /\ outcome' = "split"
      /\ UNCHANGED <<code, left, reported, printed>>
  BY DEF LastLine
<1>2. code # <<>> =>
        /\ Len(code_lines') = FirstThatThrows
        /\ \A l \in 1..Len(code_lines') : IsLine(l, code_lines'[l])
  BY RowsAfterLastLine DEF RowsInv
<1>3. SplitUp'
  BY <1>1, <1>2, SameText DEF SplitUp, LinesAre
<1>4. printed' = <<>>
  BY <1>1 DEF IInv
<1>5. Reports'
  BY <1>1, <1>4 DEF RowsInv, Reports
<1> QED
  BY <1>1, <1>3, <1>5 DEF RowsInv, SplitSoFar, NothingIsLost

(* The rows stay, when the code and they do.                               *)
LEMMA SplitUpStays ==
  ASSUME SplitUp, outcome # "splitting", UNCHANGED <<code, code_lines>>
  PROVE  SplitUp'
BY SameText DEF SplitUp, LinesAre

(* The reports that are made, on a file that has text, are all left.       *)
LEMMA ReportRows ==
  ASSUME IInv, RowsInv, Report, IInv'
  PROVE  RowsInv'
<1>1. /\ outcome = "split" /\ outcome' = "printing" /\ reported' = left' /\ printed = <<>>
      /\ UNCHANGED <<code, code_lines, printed>>
  BY DEF Report, IInv
<1>2. SplitUp'
  BY <1>1, SplitUpStays DEF RowsInv
<1>3. left' \in [Kind -> Seq(Lines)]
  BY DEF IInv, TypeOK, Lines
<1>4. ASSUME code = <<>>, NEW k \in Kind
      PROVE  left'[k] = <<>>
  <2>1. PICK a, b \in 0..MaxReports : \E lines \in BoundedSeq(ReportLines, MaxReports) :
          /\ a <= b /\ b <= Len(lines)
          /\ left' = [kind \in Kind |->
                        CASE kind = "parser_error"    -> SubSeq(lines, 1, a)
                          [] kind = "codegen_error"   -> SubSeq(lines, a + 1, b)
                          [] kind = "codegen_warning" -> SubSeq(lines, b + 1, Len(lines))]
    BY DEF Report
  <2>2. PICK lines \in BoundedSeq(ReportLines, MaxReports) :
          /\ a <= b /\ b <= Len(lines)
          /\ left' = [kind \in Kind |->
                        CASE kind = "parser_error"    -> SubSeq(lines, 1, a)
                          [] kind = "codegen_error"   -> SubSeq(lines, a + 1, b)
                          [] kind = "codegen_warning" -> SubSeq(lines, b + 1, Len(lines))]
    BY <2>1
  <2>3. ReportLines = {}
    BY <1>4 DEF ReportLines, TokenLines
  <2>4. PICK m \in 0..MaxReports : lines \in [1..m -> ReportLines]
    BY <2>2 DEF BoundedSeq, SeqOf
  <2>5. m = 0 /\ MaxReports \in Nat
    <3>1. m \in Nat /\ (m # 0 => 1 \in 1..m)
      BY <2>4, DiagnosticsAssumption
    <3> QED
      BY <2>3, <2>4, <3>1, DiagnosticsAssumption
  <2>6. lines = <<>> /\ Len(lines) = 0
    BY <2>4, <2>5
  <2>7. a = 0 /\ b = 0
    BY <2>2, <2>5, <2>6
  <2>8. SubSeq(lines, 1, a) = <<>> /\ SubSeq(lines, a + 1, b) = <<>>
        /\ SubSeq(lines, b + 1, Len(lines)) = <<>>
    BY <2>6, <2>7
  <2> QED
    BY <2>2, <2>8 DEF Kind
<1>5. Reports'
  BY <1>1, <1>3, <1>4 DEF Reports
<1>6. Kept(printed', reported', left')
  <2>1. \A k \in Kind : Count(printed', k, Len(printed')) = 0
    BY <1>1, CountOfNone
  <2>2. ASSUME NEW k \in Kind
        PROVE  /\ Len(left'[k]) = 0 + Len(left'[k])
               /\ \A m \in 1..Len(left'[k]) : 0 + m = m
    <3>1. left'[k] \in Seq(Lines)
      BY <1>3
    <3>2. Len(left'[k]) \in Nat
      BY <3>1
    <3> QED
      BY <3>2
  <2>3. Len(printed') = 0
    BY <1>1
  <2> QED
    BY <1>1, <2>1, <2>2, <2>3 DEF Kept
<1> QED
  BY <1>1, <1>2, <1>5, <1>6, KeptIs DEF RowsInv, SplitSoFar

(* A report is printed with the rows around it, or its line is no index.   *)
LEMMA PrintNextRows ==
  ASSUME IInv, RowsInv, PrintNext, IInv'
  PROVE  RowsInv'
<1>1. PICK j \in Kind : left[j] # <<>>
  BY DEF PrintNext
<1> DEFINE c    == Chosen
           line == Head(left[c])
           r    == [kind |-> c, line |-> line, rows |-> Rows(line)]
           n    == Count(printed, c, Len(printed)) + 1
<1>2. c \in Kind /\ left[c] # <<>> /\ line \in Lines /\ TypeOK
  BY <1>1, ChosenIsFirst DEF IInv
<1>3. /\ outcome = "printing" /\ PrintErr(c, line) /\ left' = [left EXCEPT ![c] = Tail(@)]
      /\ UNCHANGED <<code, i, start_offset, code_lines, reported>>
  BY <1>2 DEF PrintNext, ConsumeFront
<1>4. left \in [Kind -> Seq(Lines)] /\ left' \in [Kind -> Seq(Lines)]
  BY DEF IInv, TypeOK, Lines
<1>5. r \in PrintedReport /\ r.kind = c /\ r.line = line /\ r.rows = RowsIn(code_lines, line)
  <2>1. Rows(line) = RowsIn(code_lines, line)
    BY DEF Rows, RowsIn
  <2> QED
    BY <1>2, <2>1, RowsType DEF PrintedReport
<1>6. /\ printed \in Seq(PrintedReport) /\ Kept(printed, reported, left) /\ Reports
      /\ reported \in [Kind -> Seq(Lines)]
  BY <1>3, KeptIs DEF IInv, RowsInv, Reports
<1>7. n \in 1..Len(reported[c]) /\ reported[c][n] = line
  <2>1. printed \in Seq(PrintedReport) /\ Len(printed) \in 0..Len(printed)
    BY <1>6
  <2>2. Count(printed, c, Len(printed)) \in Nat
    BY <1>2, <1>5, <2>1, CountStep
  <2>3. left[c] \in Seq(Lines) /\ reported[c] \in Seq(Lines)
    BY <1>2, <1>4, <1>6
  <2>4. Len(left[c]) \in Nat \ {0} /\ line = left[c][1] /\ Len(reported[c]) \in Nat
    BY <1>2, <2>3
  <2>5. /\ Len(reported[c]) = Count(printed, c, Len(printed)) + Len(left[c])
        /\ \A m \in 1..Len(left[c]) : left[c][m] = reported[c][Count(printed, c, Len(printed)) + m]
    BY <1>2, <1>6 DEF Kept
  <2>6. 1 \in 1..Len(left[c])
    BY <2>4
  <2> HIDE DEF c, line
  <2> QED
    BY <2>2, <2>4, <2>5, <2>6
<1>8. code # <<>>
  <2>1. reported[c] # <<>>
    <3>1. reported[c] \in Seq(Lines)
      BY <1>2, <1>6
    <3>2. reported[c] = <<>> => Len(reported[c]) = 0
      OBVIOUS
    <3> HIDE DEF n
    <3> QED
      BY <1>7, <3>2
  <2> QED
    BY <1>2, <1>6, <2>1 DEF Reports
<1> HIDE DEF n
<1>9. outcome' # "splitting" /\ SplitUp' /\ outcome' \notin {"splitting", "split"}
  <2>1. outcome' \in {"printing", "out of range"}
    BY <1>3 DEF PrintErr
  <2> QED
    BY <1>3, <2>1, SplitUpStays DEF RowsInv
<1>10. CASE line >= Len(code_lines)
  <2>1. outcome' = "out of range" /\ printed' = printed
    BY <1>3, <1>10 DEF PrintErr
  <2>2. \E k \in Kind : \E m \in 1..Len(reported[k]) : reported[k][m] >= Len(code_lines)
    <3> HIDE DEF c, line
    <3> QED
      BY <1>2, <1>7, <1>10
  <2>3. Reports'
    BY <1>3, <1>6, <1>9, <2>1, <2>2 DEF Reports
  <2> QED
    BY <1>9, <2>1, <2>3 DEF RowsInv, SplitSoFar, NothingIsLost
<1>11. CASE ~(line >= Len(code_lines))
  <2>1. outcome' = "printing" /\ printed' = Append(printed, r)
    BY <1>3, <1>11 DEF PrintErr
  <2>2. Kept(printed', reported', left')
    <3>1. left[r.kind] # <<>> /\ r.line = Head(left[r.kind])
          /\ left' = [left EXCEPT ![r.kind] = Tail(@)]
      BY <1>2, <1>3, <1>5
    <3> HIDE DEF r
    <3> QED
      BY <1>3, <1>4, <1>5, <1>6, <2>1, <3>1, KeptStep
  <2>3. line < Len(code_lines)
    <3>1. line \in Int /\ Len(code_lines) \in Int
      BY <1>2, Facts DEF Lines
    <3> QED
      BY <1>11, <3>1
  <2>4. /\ Len(printed) \in Nat /\ Len(printed') = Len(printed) + 1
        /\ printed'[Len(printed) + 1] = r
        /\ \A m \in 1..Len(printed) : printed'[m] = printed[m]
    BY <1>5, <1>6, <2>1, AppendProperties
  <2>5. ASSUME NEW m \in 1..Len(printed')
        PROVE  /\ code # <<>>
               /\ printed'[m].line < Len(code_lines)
               /\ printed'[m].rows = RowsIn(code_lines, printed'[m].line)
    <3> HIDE DEF c, line, r
    <3>1. CASE m \in 1..Len(printed)
      BY <1>6, <2>4, <3>1 DEF Reports
    <3>2. CASE m = Len(printed) + 1
      BY <1>5, <1>8, <2>3, <2>4, <3>2
    <3>3. m \in 1..Len(printed) \/ m = Len(printed) + 1
      BY <2>4, <2>5
    <3> QED
      BY <3>1, <3>2, <3>3
  <2>6. Reports'
    BY <1>3, <1>6, <1>9, <2>1, <2>5 DEF Reports
  <2> QED
    BY <1>9, <2>2, <2>6, KeptIs DEF RowsInv, SplitSoFar
<1> QED
  BY <1>10, <1>11

LEMMA NextRows == IInv /\ IInv' /\ RowsInv /\ [Next]_vars => RowsInv'
<1> SUFFICES ASSUME IInv, IInv', RowsInv, [Next]_vars PROVE RowsInv'
  OBVIOUS
<1>1. CASE SplitAtLineFeed
  BY <1>1, SplitAtLineFeedRows
<1>2. CASE LastLine
  BY <1>2, LastLineRows
<1>3. CASE Report
  BY <1>3, ReportRows
<1>4. CASE PrintNext
  BY <1>4, PrintNextRows
<1>5. CASE AllPrinted
  <2>1. /\ outcome = "printing" /\ outcome' = "done"
        /\ UNCHANGED <<code, i, start_offset, code_lines, left, reported, printed>>
    BY <1>5 DEF AllPrinted
  <2>2. SplitUp'
    BY <2>1, SplitUpStays DEF RowsInv
  <2>3. Reports'
    BY <2>1 DEF RowsInv, Reports
  <2>4. NothingIsLost'
    BY <2>1, KeptIs DEF RowsInv
  <2> QED
    BY <2>1, <2>2, <2>3, <2>4 DEF RowsInv, SplitSoFar
<1>6. CASE UNCHANGED vars
  <2>1. UNCHANGED <<code, i, start_offset, code_lines, left, reported, printed, outcome>>
    BY <1>6 DEF vars
  <2>2. SplitUp'
    BY <2>1, SplitUpStays DEF RowsInv, SplitUp
  <2>3. Reports'
    BY <2>1 DEF RowsInv, Reports
  <2>4. NothingIsLost'
    BY <2>1, KeptIs DEF RowsInv
  <2>5. SplitSoFar'
    <3>1. CASE outcome = "splitting"
      <4>1. /\ \A l \in 1..Len(code_lines') : Closed(l, code_lines'[l])
            /\ Open(Len(code_lines') + 1, start_offset', i')
        BY <2>1, <3>1 DEF RowsInv, SplitSoFar
      <4>2. UNCHANGED code
        BY <2>1
      <4> QED
        BY ONLY <4>1, <4>2 DEF SplitSoFar, Closed, Open, LineOf, Feed
    <3>2. CASE outcome # "splitting"
      BY <2>1, <3>2 DEF SplitSoFar
    <3> QED
      BY <3>1, <3>2
  <2> QED
    BY <2>2, <2>3, <2>4, <2>5 DEF RowsInv
<1> QED
  BY <1>1, <1>2, <1>3, <1>4, <1>5, <1>6 DEF Next

(* What a report is printed with: its own row, and rows that are lines.    *)
LEMMA RowsFollow == IInv /\ RowsInv => RowsAreLines
<1> SUFFICES ASSUME IInv, RowsInv, NEW n \in 1..Len(printed)
             PROVE  /\ printed[n].line = 0 \/ printed[n].line \in DOMAIN printed[n].rows
                    /\ \A l \in DOMAIN printed[n].rows : IsLine(l, printed[n].rows[l])
  BY DEF RowsAreLines, IsLine
<1> DEFINE line == printed[n].line
           D    == {m \in (line - Surround)..(line + Surround) : m > 0 /\ m <= Len(code_lines)}
<1>1. /\ code # <<>> /\ line < Len(code_lines) /\ printed[n].rows = RowsIn(code_lines, line)
  BY DEF RowsInv, Reports
<1>2. line \in Lines
  <2>1. printed[n] \in PrintedReport
    BY DEF IInv
  <2> QED
    BY <2>1 DEF PrintedReport
<1>3. /\ line \in Nat /\ Surround \in Nat /\ Len(code_lines) \in Nat
  BY <1>2, Facts DEF Lines
<1>4. RowsIn(code_lines, line) = [m \in D |-> code_lines[m]]
  BY DEF RowsIn
<1>5. LinesAre
  <2>1. outcome # "splitting"
    <3>1. printed # <<>>
      OBVIOUS
    <3> QED
      BY <3>1 DEF IInv
  <2> QED
    BY <1>1, <2>1 DEF RowsInv, SplitUp
<1> HIDE DEF line
<1>6. line = 0 \/ line \in D
  BY <1>1, <1>3
<1>7. \A m \in D : m \in 1..Len(code_lines)
  BY <1>3
<1> HIDE DEF D
<1>8. \A m \in D : IsLine(m, code_lines[m])
  BY <1>5, <1>7 DEF LinesAre
<1>9. DOMAIN printed[n].rows = D /\ \A l \in D : printed[n].rows[l] = code_lines[l]
  BY <1>1, <1>4
<1> QED
  BY <1>6, <1>8, <1>9 DEF line

LEMMA ThrowsFollow == IInv /\ RowsInv => ThrowsForTheLastLine
<1> SUFFICES ASSUME IInv, RowsInv PROVE ThrowsForTheLastLine
  OBVIOUS
<1>1. ASSUME NEW n \in 1..Len(printed)
      PROVE  printed[n].line < FirstThatThrows
  <2>1. code # <<>> /\ printed[n].line < Len(code_lines)
    BY DEF RowsInv, Reports
  <2>2. outcome # "splitting"
    <3>1. printed # <<>>
      BY <1>1
    <3> QED
      BY <3>1 DEF IInv
  <2>3. Len(code_lines) = FirstThatThrows
    BY <2>1, <2>2 DEF RowsInv, SplitUp, LinesAre
  <2> QED
    BY <2>1, <2>3
<1>2. ASSUME outcome \notin {"splitting", "split", "printing", "done"}
      PROVE  /\ outcome = "out of range"
             /\ \E k \in Kind : \E n \in 1..Len(reported[k]) : reported[k][n] >= FirstThatThrows
  <2>1. outcome = "out of range"
    BY <1>2 DEF IInv, TypeOK
  <2>2. PICK k \in Kind : \E n \in 1..Len(reported[k]) : reported[k][n] >= Len(code_lines)
    BY <2>1 DEF RowsInv, Reports
  <2>3. code # <<>>
    <3>1. reported[k] # <<>>
      BY <2>2
    <3> QED
      BY <2>2, <3>1 DEF RowsInv, Reports
  <2>4. Len(code_lines) = FirstThatThrows
    BY <2>1, <2>3 DEF RowsInv, SplitUp, LinesAre
  <2> QED
    BY <2>1, <2>2, <2>4
<1> QED
  BY <1>1, <1>2 DEF ThrowsForTheLastLine

LEMMA AlwaysRows == Spec => [](IInv /\ RowsInv)
<1>1. Init => IInv /\ RowsInv
  BY InitInv, InitRows
<1>2. IInv /\ RowsInv /\ [Next]_vars => (IInv /\ RowsInv)'
  BY NextInv, NextRows
<1> QED
  BY <1>1, <1>2, PTL DEF Spec

(* However many reports there are, and on whatever lines: each is printed  *)
(* once, and those of a kind in the order in which they were made.         *)
THEOREM ReportsAreNotLost == Spec => []NothingIsLost
<1>1. IInv /\ RowsInv => NothingIsLost
  BY DEF RowsInv
<1> QED
  BY AlwaysRows, <1>1, PTL

(* For a file of any text the rows printed around a report are the lines   *)
(* with these numbers, though compileAll splits it at offsets and drops a  *)
(* character of the last line.                                             *)
THEOREM RowsPrintedAreLines == Spec => []RowsAreLines
BY AlwaysRows, RowsFollow, PTL

(* For a file of any text prettyPrintErr throws for a report about the     *)
(* last line, and for no other but the one before a line of one character. *)
THEOREM OnlyTheLastLineThrows == Spec => []ThrowsForTheLastLine
BY AlwaysRows, ThrowsFollow, PTL
=============================================================================
