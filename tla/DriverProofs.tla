----------------------------- MODULE DriverProofs -----------------------------
(***************************************************************************)
(* For any set of paths, any command lines, and any reports, the driver    *)
(* implements Compiler: the initial states map to its initial state, and   *)
(* every step to a step of it or to none. The invariant is about what has  *)
(* been read, compiled and kept so far (IInv); with the types of the parts *)
(* that it leaves out (Typed) and the course of a test run (TestsInv) it   *)
(* also gives the type invariant, and that every test gets the output of   *)
(* its own source.                                                         *)
(*                                                                         *)
(* The last part is about the optimizer, to which compileAll hands each    *)
(* module: for any number of modules, any limit and any pipeline, every    *)
(* module is cleaned once, and left when nothing changes or the limit is   *)
(* used up (OptimizeInv).                                                  *)
(***************************************************************************)
EXTENDS Driver, Optimizer, FiniteSetTheorems, SequenceTheorems, TLAPS

Whats    == {"tokens", "ast", "llvm_ir", "asm_", "obj", "bitcode", "module", "linked"}
Contents == [of : Path \union {OutPath}, code : Path \union {OutPath, Freed},
             what : Whats, optimized : BOOLEAN]
Outs     == [file : Path \union {OutPath}, content : Contents]

BeforeFiles == {"options", "asked", "reading"}
InFile      == {"tokenized", "stalled", "parsed", "generated"}
OverFiles   == InFile \union {"setup", "file"}

StateOK ==
  /\ source_files \in Seq(Path)
  /\ files \in Seq([file : Path, code : Path \union {Freed}])
  /\ out_kind \in OutKind /\ verdict \in [Path -> Verdict]
  /\ outs \in Seq(Outs) /\ modules \in Seq(Contents) /\ printed \in Seq(Path)
  /\ i \in Nat /\ optimized \in BOOLEAN /\ tests \subseteq Path
  /\ stage \in BeforeFiles \union OverFiles \union {"tests", "writing"}

(* The command line is read as it was given.                               *)
OptionsOK == stage = "options" => args \in CommandLines /\ at \in Nat \ {0}

(* A file is compiled only when all have been read, and what has been      *)
(* compiled has left one output or module per file.                        *)
FilesOK ==
  /\ stage \in BeforeFiles =>
       outs = <<>> /\ modules = <<>> /\ printed = <<>> /\ i = 1
  /\ stage \in {"options", "asked"} => files = <<>>
  /\ stage \in Compiling \union {"asked"} => source_files # <<>>
  /\ stage = "reading" =>
       /\ Len(files) <= Len(source_files)
       /\ \A k \in 1..Len(files) : files[k].file = source_files[k]
  /\ stage \in OverFiles =>
       /\ Len(files) = Len(source_files)
       /\ \A k \in 1..Len(files) : files[k].file = source_files[k]
       /\ i = Len(outs) + Len(modules) + 1 /\ i <= Len(source_files) + 1
  /\ stage \in InFile => i <= Len(source_files)

(* How far a file gets, and whether its module is optimized by then.       *)
StageOK ==
  /\ stage # "generated" => optimized = FALSE
  /\ stage = "tokenized" => out_kind # "tokens"
  /\ stage = "parsed" => out_kind \notin {"tokens", "ast"}
  /\ stage = "generated" => /\ out_kind \notin {"tokens", "ast"}
                            /\ optimized = (out_kind # "llvm_ir" /\ Clean)

IInv == StateOK /\ OptionsOK /\ FilesOK /\ StageOK

-----------------------------------------------------------------------------
LEMMA InitInv == Init => IInv
<1> SUFFICES ASSUME Init PROVE IInv
  OBVIOUS
<1>1. /\ verdict \in [Path -> Verdict] /\ out_kind \in OutKind
      /\ stage = "options" /\ i = 1 /\ optimized = FALSE /\ tests = {}
      /\ source_files = <<>> /\ files = <<>>
      /\ outs = <<>> /\ modules = <<>> /\ printed = <<>>
      /\ args \in CommandLines /\ at = 1
  BY DEF Init, OptionsInit, NoReports, Verdict, OutKind, PerFile
<1>2. StateOK
  <2>1. \A S : <<>> \in Seq(S)
    OBVIOUS
  <2> QED
    BY <1>1, <2>1, Zenon DEF StateOK, BeforeFiles
<1>3. OptionsOK /\ StageOK
  BY <1>1 DEF OptionsOK, StageOK
<1>4. FilesOK
  BY <1>1 DEF FilesOK, BeforeFiles, InFile, OverFiles, Compiling
<1> QED
  BY <1>2, <1>3, <1>4 DEF IInv

(* The options: only the last branch adds a source file.                   *)
LEMMA OptionsInv ==
  ASSUME IInv, OptionsNext,
         UNCHANGED <<out_kind, lto_kind, verdict, tests, files, i, optimized,
                     result, disk, test_out>>
  PROVE  /\ IInv'
         /\ stage = "options" /\ stage' \in {"options", "asked"} /\ outcome = "running"
<1> USE DEF IInv
<1>1. /\ stage = "options" /\ stage' \in {"options", "asked"} /\ outcome = "running"
      /\ args' = args /\ at' \in {at, at + 1}
  <2>1. CASE PrintHelp
    BY <2>1 DEF PrintHelp, Reading, options
  <2>2. CASE SetEmitLLVM
    BY <2>2 DEF SetEmitLLVM, Reading
  <2>3. CASE DashO
    BY <2>3 DEF DashO, Reading, InvalidUsage, options
  <2>4. CASE SetOptLevel
    BY <2>4 DEF SetOptLevel, Reading, InvalidUsage, options
  <2>5. CASE \E o \in Collected : Collect(o)
    BY <2>5 DEF Collect, Reading
  <2>6. CASE SourceFile
    BY <2>6 DEF SourceFile, Reading, InvalidUsage, options
  <2>7. CASE EndOfOptions
    BY <2>7 DEF EndOfOptions
  <2> QED
    BY <2>1, <2>2, <2>3, <2>4, <2>5, <2>6, <2>7 DEF OptionsNext
<1>2. source_files' \in Seq(Path) /\ (stage' = "asked" => source_files' # <<>>)
  <2>1. CASE SourceFile /\ Arg.opt = ""
    <3>1. stage' = "options" /\ source_files' = Append(source_files, Arg.value)
      BY <1>1, <2>1 DEF SourceFile, Reading
    <3>2. args \in CommandLines /\ at \in 1..Len(args)
      <4>1. args \in CommandLines /\ at \in Nat \ {0} /\ at <= Len(args)
        BY <1>1, <2>1 DEF OptionsOK, SourceFile, Reading
      <4>2. args \in Seq([opt : STRING, value : STRING])
        BY <4>1, CommandLinesAssumption
      <4> QED
        BY <4>1, <4>2
    <3>3. Arg.value \in Path
      BY <2>1, <3>2, CommandLinesAssumption DEF Arg
    <3> QED
      BY <3>1, <3>3 DEF StateOK
  <2>2. CASE SourceFile /\ Arg.opt # ""
    BY <1>1, <2>2 DEF SourceFile, Reading, InvalidUsage, StateOK
  <2>3. CASE EndOfOptions
    BY <1>1, <2>3 DEF EndOfOptions, StateOK
  <2>4. CASE PrintHelp \/ SetEmitLLVM \/ DashO \/ SetOptLevel
    BY <1>1, <2>4 DEF PrintHelp, SetEmitLLVM, DashO, SetOptLevel, Reading, InvalidUsage, StateOK
  <2>5. CASE \E o \in Collected : Collect(o)
    BY <1>1, <2>5 DEF Collect, Reading, StateOK
  <2> QED
    BY <2>1, <2>2, <2>3, <2>4, <2>5 DEF OptionsNext
<1>3. UNCHANGED <<out_kind, verdict, tests, files, i, optimized, printed, modules, outs>>
  BY DEF result
<1>4. StateOK'
  BY <1>1, <1>2, <1>3 DEF StateOK, BeforeFiles
<1>5. OptionsOK'
  <2>1. args \in CommandLines /\ at \in Nat /\ at # 0
    BY <1>1 DEF OptionsOK
  <2>2. at' \in Nat /\ at' # 0
    BY <1>1, <2>1
  <2> QED
    BY <1>1, <2>1, <2>2 DEF OptionsOK
<1> QED
  BY <1>1, <1>2, <1>3, <1>4, <1>5 DEF FilesOK, StageOK, BeforeFiles, InFile, OverFiles, Compiling

-----------------------------------------------------------------------------
(* What Compiler makes of a state in the middle of compileAll.             *)
LEMMA Mapped ==
  ASSUME IInv, stage \in InFile \union {"file"}, i <= Len(source_files)
  PROVE  /\ Request # CompileAll!NoRequest
         /\ Len(Request.files) = Len(source_files)
         /\ CompileAll!Turn = i
         /\ CompileAll!Kind = out_kind
         /\ CompileAll!File = File
         /\ CompileAll!Reports = Reports
         /\ File \in Path /\ Reports \in Verdict
         /\ files[i].code \in Path \union {Freed}
<1> USE DEF IInv
<1>1. stage \in OverFiles /\ stage \in Compiling /\ i \in 1..Len(source_files)
  BY DEF StateOK, FilesOK, InFile, OverFiles, Compiling
<1>2. Request = [files |-> source_files, kind |-> out_kind,
                 reports |-> [k \in 1..Len(source_files) |-> verdict[source_files[k]]]]
  BY <1>1 DEF Request
<1>3. source_files # <<>> /\ Request.files = source_files /\ Request.kind = out_kind
  BY <1>1, <1>2 DEF FilesOK
<1>4. Request # CompileAll!NoRequest
  BY <1>3 DEF CompileAll!NoRequest
<1>5. Len(OutResults) = Len(outs) /\ Len(ModuleResults) = Len(modules)
  BY DEF StateOK, OutResults, ModuleResults
<1>6. CompileAll!Turn = i
  BY <1>1, <1>5 DEF FilesOK, CompileAll!Turn
<1>7. files[i].file = source_files[i] /\ files[i] \in [file : Path, code : Path \union {Freed}]
  <2>1. i \in 1..Len(files) /\ files[i].file = source_files[i]
    BY <1>1 DEF FilesOK
  <2>2. files \in Seq([file : Path, code : Path \union {Freed}])
    BY DEF StateOK
  <2> QED
    BY <2>1, <2>2, ElementOfSeq
<1>8. CompileAll!File = File
  BY <1>3, <1>6, <1>7 DEF CompileAll!File, File
<1>9. CompileAll!Reports = Reports
  BY <1>1, <1>2, <1>6, <1>7 DEF CompileAll!Reports, Reports, File
<1>10. File \in Path /\ Reports \in Verdict
  BY <1>7 DEF StateOK, File, Reports
<1> QED
  BY <1>3, <1>4, <1>6, <1>7, <1>8, <1>9, <1>10 DEF CompileAll!Kind

(* The results of a sequence with one more element.                        *)
LEMMA ResultsAppend ==
  /\ \A o \in Outs : outs \in Seq(Outs) /\ outs' = Append(outs, o) =>
       OutResults' = Append(OutResults, ResultOf(o.content))
  /\ \A c \in Contents : modules \in Seq(Contents) /\ modules' = Append(modules, c) =>
       ModuleResults' = Append(ModuleResults, ResultOf(c))
<1>1. ASSUME NEW o \in Outs, outs \in Seq(Outs), outs' = Append(outs, o)
      PROVE  OutResults' = Append(OutResults, ResultOf(o.content))
  BY <1>1 DEF OutResults
<1>2. ASSUME NEW c \in Contents, modules \in Seq(Contents), modules' = Append(modules, c)
      PROVE  ModuleResults' = Append(ModuleResults, ResultOf(c))
  BY <1>2 DEF ModuleResults
<1> QED
  BY <1>1, <1>2

(* A step that ends the program, and changes nothing else, ends Compiler.  *)
LEMMA Ends ==
  ASSUME outcome = "running", outcome' # "running",
         UNCHANGED <<stage, source_files, out_kind, verdict, outs, modules, printed>>
  PROVE  CompileAll!End
BY DEF CompileAll!End, Request, OutResults, ModuleResults, Status

(* A step that returns nothing for the file is no step of Compiler.        *)
LEMMA Stutters ==
  ASSUME UNCHANGED <<outcome, outs, modules, printed>>,
         \/ stage \notin Compiling /\ stage' \notin Compiling
         \/ /\ stage \in Compiling /\ stage' \in Compiling
            /\ UNCHANGED <<source_files, out_kind, verdict>>
  PROVE  UNCHANGED CompileAll!vars
BY DEF CompileAll!vars, Request, OutResults, ModuleResults, Status

-----------------------------------------------------------------------------
(* A file that gives the output that is due has been compiled.             *)
LEMMA FileDoneCompiles ==
  ASSUME IInv, outcome = "running", stage \in InFile \union {"file"},
         i <= Len(source_files), NEW what \in Whats \ {"module"},
         FileDone(what), Quiet,
         what = CompileAll!What, optimized = CompileAll!Optimized,
         printed' = IF out_kind # "tokens" /\ CompileAll!Reported
                      THEN Append(printed, File) ELSE printed
  PROVE  IInv' /\ CompileAll!CompileFile
<1> DEFINE out == [file |-> File, content |-> Content(what)]
<1>1. /\ Request # CompileAll!NoRequest /\ Len(Request.files) = Len(source_files)
      /\ CompileAll!Turn = i /\ CompileAll!Kind = out_kind /\ CompileAll!File = File
      /\ File \in Path /\ files[i].code \in Path \union {Freed}
  BY Mapped
<1>2. /\ outs' = Append(outs, out) /\ i' = i + 1 /\ stage' = "file" /\ optimized' = FALSE
      /\ modules' = modules /\ outcome' = outcome
      /\ UNCHANGED <<source_files, out_kind, verdict, files, tests>>
  BY DEF FileDone, NextFile, Quiet, asked
<1>3. StateOK
  BY DEF IInv
<1>4. Content(what) \in Contents /\ out \in Outs
  BY <1>1, <1>3 DEF Content, Contents, Outs, StateOK
<1>5. OutResults' = Append(OutResults, ResultOf(Content(what))) /\ ModuleResults' = ModuleResults
  BY <1>2, <1>3, <1>4, ResultsAppend DEF StateOK, ModuleResults
<1>6. ResultOf(Content(what)) = CompileAll!Result
  BY <1>1 DEF ResultOf, Content, CompileAll!Result
<1>7. Request' = Request /\ Status' = Status /\ Status = "running"
  <2>1. stage \in Compiling /\ stage' \in Compiling
    BY <1>2 DEF InFile, Compiling
  <2> QED
    BY <1>2, <2>1 DEF Request, Status
<1>8. CompileAll!CompileFile
  BY <1>1, <1>5, <1>6, <1>7 DEF CompileAll!CompileFile
<1>9. StateOK'
  <2>1. outs' \in Seq(Outs) /\ modules' \in Seq(Contents) /\ printed' \in Seq(Path)
    BY <1>1, <1>2, <1>3, <1>4 DEF StateOK
  <2>2. /\ source_files' \in Seq(Path) /\ out_kind' \in OutKind
        /\ files' \in Seq([file : Path, code : Path \union {Freed}])
        /\ verdict' \in [Path -> Verdict] /\ tests' \subseteq Path
    BY <1>2, <1>3 DEF StateOK
  <2>3. i' \in Nat
    BY <1>2, <1>3 DEF StateOK
  <2>4. optimized' \in BOOLEAN /\ stage' \in OverFiles
    BY <1>2 DEF OverFiles
  <2> QED
    BY <2>1, <2>2, <2>3, <2>4, Zenon DEF StateOK
<1>10. FilesOK'
  <2>1. stage \in OverFiles /\ stage \in Compiling
    BY DEF InFile, OverFiles, Compiling
  <2>2. Len(outs') = Len(outs) + 1 /\ Len(outs) \in Nat /\ Len(modules) \in Nat
        /\ Len(source_files) \in Nat /\ i \in Nat
    BY <1>2, <1>3, <1>4 DEF StateOK
  <2>3. i' = Len(outs') + Len(modules') + 1 /\ i' <= Len(source_files') + 1
    BY <1>2, <2>1, <2>2 DEF IInv, FilesOK
  <2> QED
    BY <1>2, <2>1, <2>3 DEF IInv, FilesOK, BeforeFiles, InFile, OverFiles, Compiling
<1> QED
  BY <1>2, <1>8, <1>9, <1>10 DEF IInv, OptionsOK, StageOK

(* So has one whose module is kept for linking.                            *)
LEMMA KeepModuleCompiles ==
  ASSUME IInv, KeepModule
  PROVE  IInv' /\ CompileAll!CompileFile
<1>1. /\ outcome = "running" /\ stage = "generated" /\ Clean /\ out_kind \in Combined
      /\ modules' = Append(modules, Content("module")) /\ i' = i + 1 /\ stage' = "file"
      /\ optimized' = FALSE /\ outs' = outs /\ printed' = printed /\ outcome' = outcome
      /\ UNCHANGED <<source_files, out_kind, verdict, files, tests>>
  BY DEF KeepModule, At, NextFile, Quiet, asked
<1>2. StateOK /\ stage \in InFile /\ stage \in OverFiles /\ stage \in Compiling
      /\ i <= Len(source_files) /\ optimized = TRUE
  BY <1>1 DEF IInv, FilesOK, StageOK, InFile, OverFiles, Compiling, Combined
<1>3. /\ Request # CompileAll!NoRequest /\ Len(Request.files) = Len(source_files)
      /\ CompileAll!Turn = i /\ CompileAll!Kind = out_kind /\ CompileAll!File = File
      /\ CompileAll!Reports = NoReports
      /\ File \in Path /\ files[i].code \in Path \union {Freed}
  BY <1>1, <1>2, Mapped DEF Clean
<1>4. Content("module") \in Contents
  BY <1>2, <1>3 DEF Content, Contents, Whats
<1>5. ModuleResults' = Append(ModuleResults, ResultOf(Content("module"))) /\ OutResults' = OutResults
  BY <1>1, <1>2, <1>4, ResultsAppend DEF StateOK, OutResults
<1>6. ~CompileAll!Reported
  BY <1>3 DEF CompileAll!Reported, NoReports
<1>7. CompileAll!What = "module" /\ CompileAll!Optimized = TRUE
  BY <1>1, <1>3, <1>6 DEF CompileAll!What, CompileAll!Optimized, CompileAll!IsLinked, Combined
<1>8. ResultOf(Content("module")) = CompileAll!Result
  BY <1>2, <1>3, <1>7 DEF ResultOf, Content, CompileAll!Result
<1>9. Request' = Request /\ Status' = Status /\ Status = "running"
  BY <1>1 DEF Request, Status, Compiling
<1>10. CompileAll!CompileFile
  BY <1>1, <1>2, <1>3, <1>5, <1>7, <1>8, <1>9 DEF CompileAll!CompileFile
<1>11. StateOK'
  <2>1. outs' \in Seq(Outs) /\ modules' \in Seq(Contents) /\ printed' \in Seq(Path)
    BY <1>1, <1>2, <1>4 DEF StateOK
  <2>2. /\ source_files' \in Seq(Path) /\ out_kind' \in OutKind
        /\ files' \in Seq([file : Path, code : Path \union {Freed}])
        /\ verdict' \in [Path -> Verdict] /\ tests' \subseteq Path
    BY <1>1, <1>2 DEF StateOK
  <2>3. i' \in Nat
    BY <1>1, <1>2 DEF StateOK
  <2>4. optimized' \in BOOLEAN /\ stage' \in OverFiles
    BY <1>1 DEF OverFiles
  <2> QED
    BY <2>1, <2>2, <2>3, <2>4, Zenon DEF StateOK
<1>12. FilesOK'
  <2>1. Len(modules') = Len(modules) + 1 /\ Len(outs) \in Nat /\ Len(modules) \in Nat
        /\ Len(source_files) \in Nat /\ i \in Nat
    BY <1>1, <1>2, <1>4 DEF StateOK
  <2>2. i' = Len(outs') + Len(modules') + 1 /\ i' <= Len(source_files') + 1
    BY <1>1, <1>2, <2>1 DEF IInv, FilesOK
  <2> QED
    BY <1>1, <1>2, <2>2 DEF IInv, FilesOK, BeforeFiles, InFile, OverFiles, Compiling
<1> QED
  BY <1>1, <1>10, <1>11, <1>12 DEF IInv, OptionsOK, StageOK

(* Where the reports of a file are printed, it is what they allow.         *)
LEMMA PrintAndCompiles ==
  ASSUME IInv, outcome = "running", stage \in InFile \union {"file"},
         i <= Len(source_files), NEW what \in Whats \ {"module"}, NEW reported \in BOOLEAN,
         PrintAnd(what, reported), Quiet,
         what = CompileAll!What, optimized = CompileAll!Optimized,
         reported <=> (out_kind # "tokens" /\ CompileAll!Reported)
  PROVE  IInv' /\ (CompileAll!CompileFile \/ CompileAll!End)
<1>1. CASE FileDone(what) /\ printed' = IF reported THEN Append(printed, File) ELSE printed
  BY <1>1, FileDoneCompiles
<1>2. CASE Throw("out of range")
  <2>1. UNCHANGED <<stage, i, optimized, printed, modules, outs, source_files, out_kind,
                    verdict, files, tests>> /\ outcome' = "out of range"
    BY <1>2 DEF Throw, Quiet, asked, result
  <2>2. CompileAll!End
    BY <2>1, Ends
  <2>3. IInv'
    BY <2>1 DEF IInv, StateOK, OptionsOK, FilesOK, StageOK, InFile, Clean, Reports, File
  <2> QED
    BY <2>2, <2>3
<1> QED
  BY <1>1, <1>2 DEF PrintAnd

(* A step of compileAll that goes on with a file, or throws.               *)
LEMMA IntoCompiles ==
  ASSUME IInv, outcome = "running", stage \in OverFiles, stage' \in OverFiles,
         stage' \in InFile => i <= Len(source_files), OptionsOK', StageOK', Quiet,
         UNCHANGED <<i, result>>, optimized' \in BOOLEAN,
         \/ outcome' = outcome
         \/ outcome' # "running" /\ stage' = stage
  PROVE  IInv' /\ (UNCHANGED CompileAll!vars \/ CompileAll!End)
<1>1. UNCHANGED <<i, printed, modules, outs, source_files, out_kind, verdict, files, tests>>
  BY DEF Quiet, asked, result
<1>2. stage \in Compiling /\ stage' \in Compiling
  BY DEF OverFiles, InFile, Compiling
<1>3. UNCHANGED CompileAll!vars \/ CompileAll!End
  BY <1>1, <1>2, Ends, Stutters
<1>4. StateOK'
  BY <1>1 DEF IInv, StateOK
<1>5. FilesOK'
  BY <1>1, <1>2 DEF IInv, FilesOK, BeforeFiles, InFile, OverFiles
<1> QED
  BY <1>3, <1>4, <1>5 DEF IInv

-----------------------------------------------------------------------------
Simulates == UNCHANGED CompileAll!vars \/ CompileAll!Next

(* Before a call and after it, Compiler has no request.                    *)
LEMMA NotCalled ==
  ASSUME outcome = "running", stage \notin Compiling, stage' \notin Compiling,
         UNCHANGED <<outs, modules, printed>>
  PROVE  Simulates
<1>1. UNCHANGED <<Request, OutResults, ModuleResults, printed>>
  BY DEF Request, OutResults, ModuleResults
<1>2. Status = "running" /\ Status' \in {"running", "ended"}
  BY DEF Status
<1>3. CASE Status' = "running"
  BY <1>1, <1>2, <1>3 DEF Simulates, CompileAll!vars
<1>4. CASE Status' = "ended"
  BY <1>1, <1>2, <1>4 DEF Simulates, CompileAll!Next, CompileAll!End
<1> QED
  BY <1>2, <1>3, <1>4

LEMMA OptionsStep ==
  ASSUME IInv, OptionsNext,
         UNCHANGED <<out_kind, lto_kind, verdict, tests, files, i, optimized,
                     result, disk, test_out>>
  PROVE  IInv' /\ Simulates
<1>1. /\ IInv' /\ outcome = "running"
      /\ stage \notin Compiling /\ stage' \notin Compiling
  BY OptionsInv DEF Compiling
<1>2. UNCHANGED <<outs, modules, printed>>
  BY DEF result
<1> QED
  BY <1>1, <1>2, NotCalled

(* main and runTests call compileAll.                                      *)
LEMMA Calls ==
  ASSUME outcome = "running", outcome' = outcome,
         stage \notin Compiling, stage' \in Compiling, source_files' # <<>>,
         outs' = <<>>, modules' = <<>>, printed' = <<>>
  PROVE  Simulates
<1>1. Request = CompileAll!NoRequest
  BY DEF Request, CompileAll!NoRequest
<1>2. Request'.files # <<>>
  BY DEF Request
<1>3. OutResults' = <<>> /\ ModuleResults' = <<>>
  BY DEF OutResults, ModuleResults
<1>4. Status = "running" /\ Status' = "running"
  BY DEF Status
<1> QED
  BY <1>1, <1>2, <1>3, <1>4 DEF Simulates, CompileAll!Next, CompileAll!Call

LEMMA AskStep ==
  ASSUME IInv, Ask
  PROVE  IInv' /\ Simulates
<1>1. /\ outcome = "running" /\ stage = "asked" /\ stage' = "reading"
      /\ out_kind' \in OutKind /\ verdict' \in VerdictsOn(ToSet(source_files))
      /\ UNCHANGED <<source_files, tests, outcome, files, i, optimized, printed, modules, outs>>
  BY DEF Ask, At, result
<1>2. /\ outs = <<>> /\ modules = <<>> /\ printed = <<>> /\ i = 1
      /\ source_files # <<>> /\ optimized = FALSE
  BY <1>1 DEF IInv, FilesOK, StageOK, BeforeFiles
<1>3. Simulates
  BY <1>1, <1>2, Calls DEF Compiling
<1>4. verdict' \in [Path -> Verdict]
  BY <1>1 DEF VerdictsOn
<1>5. StateOK'
  BY <1>1, <1>4 DEF IInv, StateOK, BeforeFiles
<1>6. FilesOK'
  <2>1. files = <<>> /\ Len(source_files) \in Nat
    BY <1>1 DEF IInv, FilesOK, StateOK
  <2> QED
    BY <1>1, <1>2, <2>1 DEF FilesOK, BeforeFiles, InFile, OverFiles, Compiling
<1> QED
  BY <1>1, <1>2, <1>3, <1>5, <1>6 DEF IInv, OptionsOK, StageOK

LEMMA ReadFileStep ==
  ASSUME IInv, ReadFile
  PROVE  IInv' /\ Simulates
<1> DEFINE path == source_files[Len(files) + 1]
<1>1. /\ outcome = "running" /\ stage = "reading" /\ Len(files) < Len(source_files)
      /\ UNCHANGED <<source_files, out_kind, verdict, tests, stage, outcome, i, optimized,
                     printed, modules, outs>>
  BY DEF ReadFile, At, asked, result
<1>2. PICK was \in {Freed, path} :
        files' = Append([k \in 1..Len(files) |-> [files[k] EXCEPT !.code = was]],
                        [file |-> path, code |-> path])
  BY DEF ReadFile
<1> DEFINE kept == [k \in 1..Len(files) |-> [files[k] EXCEPT !.code = was]]
           FileSet == [file : Path, code : Path \union {Freed}]
<1>3. /\ files \in Seq(FileSet) /\ source_files \in Seq(Path)
      /\ Len(files) \in Nat /\ Len(source_files) \in Nat
  BY DEF IInv, StateOK
<1>4. path \in Path
  BY <1>1, <1>3
<1>5. ASSUME NEW k \in 1..Len(files)
      PROVE  kept[k] \in FileSet /\ kept[k].file = files[k].file
  <2>1. files[k] \in FileSet
    BY <1>3, ElementOfSeq
  <2> QED
    BY <1>4, <2>1
<1>6. kept \in Seq(FileSet) /\ Len(kept) = Len(files)
  BY <1>3, <1>5
<1>7. [file |-> path, code |-> path] \in FileSet
  BY <1>4
<1>8. /\ files' \in Seq(FileSet) /\ Len(files') = Len(files) + 1
      /\ \A k \in 1..Len(files) : files'[k] = kept[k]
      /\ files'[Len(files) + 1] = [file |-> path, code |-> path]
  BY <1>2, <1>3, <1>6, <1>7, AppendProperties
<1>9. ASSUME NEW k \in 1..Len(files')
      PROVE  files'[k].file = source_files[k]
  <2>1. CASE k = Len(files) + 1
    BY <1>8, <2>1
  <2>2. CASE k # Len(files) + 1
    <3>1. k \in 1..Len(files)
      BY <1>3, <1>8, <2>2
    <3> QED
      BY <1>1, <1>5, <1>8, <3>1 DEF IInv, FilesOK
  <2> QED
    BY <2>1, <2>2
<1>10. StateOK'
  BY <1>1, <1>8 DEF IInv, StateOK
<1>11. FilesOK'
  BY <1>1, <1>3, <1>8, <1>9 DEF IInv, FilesOK, BeforeFiles, InFile, OverFiles, Compiling
<1>12. Simulates
  BY <1>1, Stutters DEF Simulates, Compiling
<1> QED
  BY <1>1, <1>10, <1>11, <1>12 DEF IInv, OptionsOK, StageOK

LEMMA StartCompilingStep ==
  ASSUME IInv, StartCompiling
  PROVE  IInv' /\ Simulates
<1> DEFINE FileSet == [file : Path, code : Path \union {Freed}]
<1>1. /\ outcome = "running" /\ stage = "reading" /\ stage' = "setup"
      /\ Len(files) = Len(source_files)
      /\ UNCHANGED <<source_files, out_kind, verdict, tests, outcome, i, optimized,
                     printed, modules, outs>>
  BY DEF StartCompiling, At, asked, result
<1>2. PICK kept \in BOOLEAN :
        files' = [k \in 1..Len(files) |->
                    IF kept THEN files[k] ELSE [files[k] EXCEPT !.code = Freed]]
  BY DEF StartCompiling
<1>3. files \in Seq(FileSet) /\ Len(files) \in Nat /\ Len(source_files) \in Nat
  BY DEF IInv, StateOK
<1>4. ASSUME NEW k \in 1..Len(files)
      PROVE  files'[k] \in FileSet /\ files'[k].file = files[k].file
  <2>1. files[k] \in FileSet
    BY <1>3, ElementOfSeq
  <2> QED
    BY <1>2, <2>1
<1>5. files' \in Seq(FileSet) /\ Len(files') = Len(files)
  BY <1>2, <1>3, <1>4
<1>6. StateOK'
  BY <1>1, <1>5 DEF IInv, StateOK, OverFiles
<1>7. \A k \in 1..Len(files') : files'[k].file = source_files[k]
  BY <1>1, <1>4, <1>5 DEF IInv, FilesOK
<1>8. outs = <<>> /\ modules = <<>> /\ i = 1 /\ source_files # <<>>
  BY <1>1 DEF IInv, FilesOK, BeforeFiles, Compiling
<1>9. FilesOK'
  <2>1. i = Len(outs) + Len(modules) + 1 /\ i <= Len(source_files) + 1
    BY <1>3, <1>8
  <2> QED
    BY <1>1, <1>5, <1>7, <1>8, <2>1 DEF FilesOK, BeforeFiles, InFile, OverFiles, Compiling
<1>10. Simulates
  BY <1>1, Stutters DEF Simulates, Compiling
<1> QED
  BY <1>1, <1>6, <1>9, <1>10 DEF IInv, OptionsOK, StageOK

-----------------------------------------------------------------------------
(* runTests.                                                               *)
LEMMA StartTestsStep ==
  ASSUME IInv, StartTests
  PROVE  IInv' /\ Simulates
<1>1. /\ outcome = "running" /\ stage = "options" /\ stage' = "tests"
      /\ UNCHANGED <<source_files, out_kind, outcome, files, i, optimized,
                     printed, modules, outs>>
  BY DEF StartTests, At, result
<1>2. verdict' \in [Path -> Verdict] /\ tests' \subseteq Path
  BY DEF StartTests, VerdictsOn
<1>3. StateOK'
  BY <1>1, <1>2 DEF IInv, StateOK
<1>4. Simulates
  BY <1>1, NotCalled DEF Compiling
<1> QED
  BY <1>1, <1>3, <1>4
     DEF IInv, OptionsOK, FilesOK, StageOK, BeforeFiles, InFile, OverFiles, Compiling

LEMMA NextTestStep ==
  ASSUME IInv, NextTest
  PROVE  IInv' /\ Simulates
<1>1. /\ outcome = "running" /\ stage = "tests" /\ stage' = "setup" /\ i' = 1
      /\ printed' = <<>> /\ modules' = <<>> /\ outs' = <<>>
      /\ UNCHANGED <<out_kind, verdict, outcome, optimized>>
  BY DEF NextTest, At
<1>2. PICK p \in Path : /\ source_files' = <<p>> /\ files' = <<[file |-> p, code |-> p]>>
                        /\ tests' \subseteq Path
  BY DEF NextTest, IInv, StateOK
<1>3. /\ source_files' \in Seq(Path) /\ source_files' # <<>> /\ Len(source_files') = 1
      /\ source_files'[1] = p
  BY <1>2
<1>4. /\ files' \in Seq([file : Path, code : Path \union {Freed}])
      /\ Len(files') = 1 /\ files'[1].file = p
  BY <1>2
<1>5. StateOK'
  <2>1. outs' \in Seq(Outs) /\ modules' \in Seq(Contents) /\ printed' \in Seq(Path)
    BY <1>1
  <2> QED
    BY <1>1, <1>2, <1>3, <1>4, <2>1 DEF IInv, StateOK, OverFiles
<1>6. FilesOK'
  <2>1. Len(outs') + Len(modules') + 1 = 1
    BY <1>1
  <2> QED
    BY <1>1, <1>3, <1>4, <2>1 DEF FilesOK, BeforeFiles, InFile, OverFiles, Compiling
<1>7. Simulates
  BY <1>1, <1>3, Calls DEF Compiling
<1> QED
  BY <1>1, <1>5, <1>6, <1>7 DEF IInv, OptionsOK, StageOK

LEMMA WriteStep ==
  ASSUME IInv, TestsDone \/ WriteTest \/ WriteOutput \/ Success
  PROVE  IInv' /\ Simulates
<1>1. /\ outcome = "running" /\ stage \in {"tests", "writing"} /\ stage' \in {"tests", "writing"}
      /\ i' \in {i, i + 1} /\ tests' = tests
      /\ UNCHANGED <<source_files, out_kind, verdict, files, optimized, printed, modules, outs>>
  BY DEF TestsDone, WriteTest, WriteOutput, Success, At, asked, result
<1>2. StateOK'
  BY <1>1 DEF IInv, StateOK
<1>3. Simulates
  BY <1>1, NotCalled DEF Compiling
<1> QED
  BY <1>1, <1>2, <1>3
     DEF IInv, OptionsOK, FilesOK, StageOK, BeforeFiles, InFile, OverFiles, Compiling

-----------------------------------------------------------------------------
(* The way of a file through compileAll.                                   *)
LEMMA SetupStep ==
  ASSUME IInv, SetupTargetMachine
  PROVE  IInv' /\ Simulates
<1>1. /\ outcome = "running" /\ stage = "setup" /\ stage' \in {"setup", "file"}
      /\ UNCHANGED <<i, optimized, result>> /\ Quiet
      /\ outcome' = outcome \/ (outcome' # "running" /\ stage' = stage)
  BY DEF SetupTargetMachine, At, Throw
<1>2. OptionsOK' /\ StageOK' /\ optimized' \in BOOLEAN
  BY <1>1 DEF IInv, StateOK, OptionsOK, StageOK
<1> QED
  BY <1>1, <1>2, IntoCompiles DEF OverFiles, InFile, Simulates, CompileAll!Next

LEMMA TokenizeStep ==
  ASSUME IInv, Tokenize
  PROVE  IInv' /\ Simulates
<1>1. outcome = "running" /\ stage = "file" /\ i <= Len(source_files) /\ Quiet
      /\ optimized = FALSE
  BY DEF Tokenize, At, Left, IInv, StageOK
<1>2. CASE out_kind = "tokens" /\ FileDone("tokens") /\ printed' = printed
  <2>1. CompileAll!Kind = "tokens"
    BY <1>1, <1>2, Mapped
  <2>2. CompileAll!What = "tokens" /\ CompileAll!Optimized = FALSE
    BY <2>1 DEF CompileAll!What, CompileAll!Optimized
  <2> QED
    BY <1>1, <1>2, <2>2, FileDoneCompiles DEF Whats, Simulates, CompileAll!Next
<1>3. CASE Throw("undefined") \/ (out_kind # "tokens" /\ Into("tokenized"))
  <2>1. /\ stage' \in {"file", "tokenized"} /\ (stage' = "tokenized" => out_kind # "tokens")
        /\ UNCHANGED <<i, optimized, result>>
        /\ outcome' = outcome \/ (outcome' # "running" /\ stage' = stage)
    BY <1>1, <1>3 DEF Throw, Into
  <2>2. OptionsOK' /\ StageOK' /\ optimized' \in BOOLEAN
    BY <1>1, <2>1 DEF OptionsOK, StageOK, Quiet, asked
  <2> QED
    BY <1>1, <2>1, <2>2, IntoCompiles DEF OverFiles, InFile, Simulates, CompileAll!Next
<1> QED
  BY <1>2, <1>3 DEF Tokenize

LEMMA ParseStep ==
  ASSUME IInv, Parse
  PROVE  IInv' /\ Simulates
<1>1. outcome = "running" /\ stage = "tokenized" /\ i <= Len(source_files) /\ Quiet
      /\ optimized = FALSE /\ out_kind # "tokens"
  BY DEF Parse, At, IInv, StageOK, FilesOK, InFile
<1>2. CASE out_kind = "ast" /\ PrintAnd("ast", Reports.pr_errors)
  <2>1. /\ CompileAll!Kind = "ast" /\ CompileAll!Reports = Reports /\ Reports \in Verdict
    BY <1>1, <1>2, Mapped DEF InFile
  <2>2. /\ CompileAll!What = "ast" /\ CompileAll!Optimized = FALSE
        /\ CompileAll!Reported <=> Reports.pr_errors
        /\ Reports.pr_errors \in BOOLEAN
    BY <2>1 DEF CompileAll!What, CompileAll!Optimized, CompileAll!Reported, Verdict
  <2> QED
    BY <1>1, <1>2, <2>2, PrintAndCompiles DEF Whats, InFile, Simulates, CompileAll!Next
<1>3. CASE \/ \E why \in {"internal error", "undefined"} : Throw(why)
           \/ Into("stalled")
           \/ out_kind # "ast" /\ Into("parsed")
  <2>1. /\ stage' \in {"tokenized", "stalled", "parsed"} /\ (stage' = "parsed" => out_kind # "ast")
        /\ UNCHANGED <<i, optimized, result>>
        /\ outcome' = outcome \/ (outcome' # "running" /\ stage' = stage)
    BY <1>1, <1>3 DEF Throw, Into
  <2>2. OptionsOK' /\ StageOK' /\ optimized' \in BOOLEAN
    BY <1>1, <2>1 DEF OptionsOK, StageOK, Quiet, asked
  <2> QED
    BY <1>1, <2>1, <2>2, IntoCompiles DEF OverFiles, InFile, Simulates, CompileAll!Next
<1> QED
  BY <1>2, <1>3 DEF Parse

LEMMA CodegenStep ==
  ASSUME IInv, CodegenAndOptimize
  PROVE  IInv' /\ Simulates
<1>1. outcome = "running" /\ stage = "parsed" /\ i <= Len(source_files) /\ Quiet
      /\ out_kind \notin {"tokens", "ast"} /\ optimized = FALSE
  BY DEF CodegenAndOptimize, At, IInv, StageOK, FilesOK, InFile
<1>2. UNCHANGED <<source_files, out_kind, verdict, files>>
  BY <1>1 DEF Quiet, asked
<1>3. CASE Throw("internal error")
  <2>1. outcome' # "running" /\ UNCHANGED <<stage, i, optimized, result>>
    BY <1>3 DEF Throw
  <2>2. OptionsOK' /\ StageOK' /\ optimized' \in BOOLEAN
    BY <1>1, <1>2, <2>1 DEF OptionsOK, StageOK
  <2> QED
    BY <1>1, <2>1, <2>2, IntoCompiles DEF OverFiles, InFile, Simulates, CompileAll!Next
<1>4. CASE /\ optimized' = (out_kind # "llvm_ir" /\ Clean) /\ stage' = "generated"
           /\ UNCHANGED <<outcome, i, result>>
  <2>1. Clean' = Clean
    BY <1>2, <1>4 DEF Clean, Reports, File
  <2>2. OptionsOK' /\ StageOK'
    BY <1>1, <1>2, <1>4, <2>1 DEF OptionsOK, StageOK
  <2>3. optimized' \in BOOLEAN
    BY <1>4
  <2> QED
    BY <1>1, <1>4, <2>2, <2>3, IntoCompiles DEF OverFiles, InFile, Simulates, CompileAll!Next
<1> QED
  BY <1>3, <1>4 DEF CodegenAndOptimize

(* About a generated module, Clean says what Compiler asks.                *)
LEMMA GeneratedReports ==
  ASSUME IInv, stage = "generated"
  PROVE  /\ i <= Len(source_files) /\ CompileAll!Kind = out_kind
         /\ out_kind \notin {"tokens", "ast"} /\ CompileAll!Reported <=> ~Clean
         /\ optimized = (out_kind # "llvm_ir" /\ Clean)
<1>1. i <= Len(source_files) /\ out_kind \notin {"tokens", "ast"}
      /\ optimized = (out_kind # "llvm_ir" /\ Clean)
  BY DEF IInv, FilesOK, StageOK, InFile
<1>2. CompileAll!Kind = out_kind /\ CompileAll!Reports = Reports /\ Reports \in Verdict
  BY <1>1, Mapped DEF InFile
<1>3. ~Clean <=> Reports.pr_errors \/ Reports.cg_errs \/ Reports.cg_warns
  BY <1>2 DEF Clean, NoReports, Verdict
<1>4. CompileAll!Reported <=> ~Clean
  BY <1>1, <1>2, <1>3 DEF CompileAll!Reported
<1> QED
  BY <1>1, <1>2, <1>4

LEMMA DumpIRStep ==
  ASSUME IInv, DumpIR
  PROVE  IInv' /\ Simulates
<1>1. /\ outcome = "running" /\ stage = "generated" /\ Quiet
      /\ out_kind \in {"llvm_ir", "optimized_llvm_ir"} \/ ~Clean
      /\ PrintAnd("llvm_ir", ~Clean)
  BY DEF DumpIR, At
<1>2. CompileAll!What = "llvm_ir"
  BY <1>1, GeneratedReports DEF CompileAll!What, CompileAll!IsLinked
<1>3. CompileAll!Optimized = optimized
  BY <1>1, GeneratedReports DEF CompileAll!Optimized
<1> QED
  BY <1>1, <1>2, <1>3, GeneratedReports, PrintAndCompiles
     DEF Whats, InFile, Simulates, CompileAll!Next

LEMMA LowerStep ==
  ASSUME IInv, Lower
  PROVE  IInv' /\ Simulates
<1>1. /\ outcome = "running" /\ stage = "generated" /\ Quiet /\ Clean
      /\ out_kind \in {"asm_", "obj", "bitcode"}
  BY DEF Lower, At
<1>2. CASE FileDone(out_kind) /\ printed' = printed
  <2>1. CompileAll!What = out_kind /\ CompileAll!Optimized = TRUE /\ optimized = TRUE
    BY <1>1, GeneratedReports DEF CompileAll!What, CompileAll!Optimized, CompileAll!IsLinked
  <2> QED
    BY <1>1, <1>2, <2>1, GeneratedReports, FileDoneCompiles
       DEF Whats, InFile, Simulates, CompileAll!Next
<1>3. CASE Throw("irrecoverable exception")
  <2>1. outcome' # "running" /\ UNCHANGED <<stage, i, optimized, result>>
    BY <1>3 DEF Throw
  <2>2. OptionsOK' /\ StageOK' /\ optimized' \in BOOLEAN
    BY <1>1, <2>1 DEF OptionsOK, IInv, StateOK, StageOK, Quiet, asked, Clean, Reports, File
  <2> QED
    BY <1>1, <2>1, <2>2, GeneratedReports, IntoCompiles
       DEF OverFiles, InFile, Simulates, CompileAll!Next
<1> QED
  BY <1>2, <1>3 DEF Lower

LEMMA LinkStep ==
  ASSUME IInv, Link \/ NothingToLink
  PROVE  IInv' /\ Simulates
<1>1. /\ outcome = "running" /\ stage = "file" /\ ~(i <= Len(source_files)) /\ Quiet
      /\ optimized = FALSE
  BY DEF Link, NothingToLink, At, Left, IInv, StageOK
<1>2. UNCHANGED <<source_files, out_kind, verdict, files, tests>>
  BY <1>1 DEF Quiet, asked
<1>3. /\ i = Len(outs) + Len(modules) + 1 /\ i <= Len(source_files) + 1
      /\ Len(outs) \in Nat /\ Len(modules) \in Nat /\ Len(source_files) \in Nat
      /\ Len(outs) + Len(modules) = Len(source_files) /\ source_files # <<>>
  BY <1>1 DEF IInv, StateOK, FilesOK, OverFiles, Compiling
<1>4. /\ Request # CompileAll!NoRequest /\ Len(Request.files) = Len(source_files)
      /\ Request.kind = out_kind
  BY <1>1, <1>3 DEF Request, Compiling, CompileAll!NoRequest
<1>5. Len(OutResults) = Len(outs) /\ Len(ModuleResults) = Len(modules)
  BY DEF IInv, StateOK, OutResults, ModuleResults
<1>6. CompileAll!Turn > Len(Request.files) /\ Status = "running"
  BY <1>1, <1>3, <1>4, <1>5 DEF CompileAll!Turn, Status
<1>7. ASSUME outcome' # "running", UNCHANGED <<stage, i, optimized, result>>
      PROVE  IInv' /\ Simulates
  <2>1. OptionsOK' /\ StageOK' /\ optimized' \in BOOLEAN
    BY <1>1, <1>2, <1>7 DEF OptionsOK, StageOK
  <2> QED
    BY <1>1, <1>7, <2>1, IntoCompiles DEF OverFiles, InFile, Simulates, CompileAll!Next
<1>8. ASSUME Return, outcome' = outcome, optimized' = optimized, printed' = printed,
             outs' \in Seq(Outs), modules' \in Seq(Contents)
      PROVE  IInv' /\ Request' = CompileAll!NoRequest /\ Status' = Status
  <2>1. stage' = "writing" /\ i' = 1
    BY <1>8 DEF Return
  <2>2. StateOK'
    BY <1>2, <1>8, <2>1 DEF IInv, StateOK
  <2>3. Request' = CompileAll!NoRequest /\ Status' = Status
    BY <1>8, <2>1 DEF Request, CompileAll!NoRequest, Compiling, Status
  <2> QED
    BY <1>1, <1>8, <2>1, <2>2, <2>3
       DEF IInv, OptionsOK, FilesOK, StageOK, BeforeFiles, InFile, OverFiles, Compiling
<1>9. CASE NothingToLink
  <2>1. /\ out_kind \in PerFile /\ Return /\ UNCHANGED <<outcome, optimized, printed, outs, modules>>
    BY <1>9 DEF NothingToLink, result
  <2>2. IInv' /\ Request' = CompileAll!NoRequest /\ Status' = Status
    BY <1>8, <2>1 DEF IInv, StateOK
  <2>3. ~CompileAll!IsLinked
    BY <1>4, <2>1 DEF CompileAll!IsLinked, CompileAll!Kind, PerFile
  <2>4. OutResults' = OutResults /\ ModuleResults' = ModuleResults
    BY <2>1 DEF OutResults, ModuleResults
  <2>5. CompileAll!Answer
    BY <1>4, <1>6, <2>1, <2>2, <2>3, <2>4 DEF CompileAll!Answer
  <2> QED
    BY <2>2, <2>5 DEF Simulates, CompileAll!Next
<1>10. CASE /\ Link /\ outs = <<>> /\ out_kind = "combined_obj"
            /\ outs' = <<[file |-> OutPath, content |-> Linked]>> /\ modules' = <<>>
            /\ Return /\ UNCHANGED <<outcome, optimized, printed>>
  <2>1. Linked \in Contents
    BY DEF Linked, Contents, Whats
  <2>2. [file |-> OutPath, content |-> Linked] \in Outs
    BY <2>1 DEF Outs
  <2>3. outs' \in Seq(Outs) /\ modules' \in Seq(Contents)
    BY <1>10, <2>2
  <2>4. IInv' /\ Request' = CompileAll!NoRequest /\ Status' = Status
    BY <1>8, <1>10, <2>3
  <2>5. Len(ModuleResults) = Len(Request.files)
    BY <1>3, <1>4, <1>5, <1>10
  <2>6. /\ Len(outs') = 1 /\ outs'[1].content = Linked
    BY <1>10
  <2>7. Len(OutResults') = 1 /\ OutResults'[1].what = "linked" /\ ModuleResults' = <<>>
    BY <1>10, <2>6 DEF OutResults, ModuleResults, ResultOf, Linked
  <2>8. CompileAll!IsLinked
    BY <1>4, <1>10 DEF CompileAll!IsLinked, CompileAll!Kind
  <2>9. CompileAll!Answer
    BY <1>4, <1>6, <1>10, <2>4, <2>5, <2>7, <2>8 DEF CompileAll!Answer
  <2> QED
    BY <2>4, <2>9 DEF Simulates, CompileAll!Next
<1>11. CASE Link /\ \E why \in LinkErrors \union
                   {"unreachable: outs should be empty", "thin lto not yet supported",
                    "not implemented"} : Throw(why)
  BY <1>7, <1>11 DEF Throw, LinkErrors
<1> QED
  BY <1>9, <1>10, <1>11 DEF Link

-----------------------------------------------------------------------------
LEMMA NextInv == IInv /\ [Next]_vars => IInv' /\ Simulates
<1> SUFFICES ASSUME IInv, [Next]_vars PROVE IInv' /\ Simulates
  OBVIOUS
<1>1. CASE KeepModule
  BY <1>1, KeepModuleCompiles DEF Simulates, CompileAll!Next
<1>2. CASE UNCHANGED vars
  <2>1. UNCHANGED <<source_files, out_kind, verdict, args, at, stage, outcome, tests, files, i,
                    optimized, printed, modules, outs>>
    BY <1>2 DEF vars, asked, options, result
  <2>2. IInv'
    BY <2>1 DEF IInv, StateOK, OptionsOK, FilesOK, StageOK, Clean, Reports, File
  <2>3. Simulates
    BY <2>1, Stutters DEF Simulates
  <2> QED
    BY <2>2, <2>3
<1> QED
  BY <1>1, <1>2, OptionsStep, AskStep, ReadFileStep, StartCompilingStep, StartTestsStep,
     NextTestStep, WriteStep, SetupStep, TokenizeStep, ParseStep, CodegenStep, DumpIRStep,
     LowerStep, LinkStep DEF Next

LEMMA InitSimulates == Init => CompileAll!Init
<1> SUFFICES ASSUME Init PROVE CompileAll!Init
  OBVIOUS
<1>1. /\ stage = "options" /\ outcome = "running"
      /\ outs = <<>> /\ modules = <<>> /\ printed = <<>>
  BY DEF Init, OptionsInit
<1>2. Request = CompileAll!NoRequest /\ Status = "running"
  BY <1>1 DEF Request, Compiling, CompileAll!NoRequest, Status
<1>3. OutResults = <<>> /\ ModuleResults = <<>>
  BY <1>1 DEF OutResults, ModuleResults
<1> QED
  BY <1>1, <1>2, <1>3 DEF CompileAll!Init

(* compileAll and its callers implement the abstract compiler: for each    *)
(* file of a call the result that is due, whatever is asked for and        *)
(* whatever is reported about it and about other files.                    *)
THEOREM DriverImplementsCompiler == Spec => ImplementsCompiler
<1>1. Init => IInv /\ CompileAll!Init
  BY InitInv, InitSimulates
<1>2. IInv /\ [Next]_vars => IInv' /\ [CompileAll!Next]_(CompileAll!vars)
  BY NextInv DEF Simulates
<1>3. Spec => CompileAll!Spec
  BY <1>1, <1>2, PTL DEF Spec, CompileAll!Spec
<1> QED
  BY <1>3 DEF ImplementsCompiler
-----------------------------------------------------------------------------
(* The types, and how many outputs and modules there can be.               *)
Bounds ==
  /\ Len(outs) <= Len(source_files) /\ Len(modules) <= Len(source_files)
  /\ i \in 1..(Len(source_files) + 1)

Typed == OptionsTypeOK /\ Len(args) \in Nat /\ Bounds

(* What there is to be said of a test: of nothing but its own text, for    *)
(* assembly and nothing else, and written to nothing but its own file.     *)
Right(c, p) ==
  c.of = p /\ c.code = p /\ c.what = IF verdict[p] = NoReports THEN "asm_" ELSE "llvm_ir"

Tested(p) ==
  /\ p \in Path \ tests /\ source_files = <<p>> /\ files = <<[file |-> p, code |-> p]>>
  /\ \A k \in 1..Len(outs) : Right(outs[k].content, p)

TestOK ==
  /\ out_kind = "asm_" /\ stage \notin {"asked", "reading"}
  /\ disk = [p \in Path \union {OutPath} |-> Source(p)]
  /\ test_out = [p \in Path |-> test_out[p]]
  /\ stage = "options" => test_out = [p \in Path |-> Nothing]
  /\ \A p \in Path : test_out[p] # Nothing => p \notin tests /\ Right(test_out[p], p)
  /\ stage \in OverFiles \union {"writing"} => \E p \in Path : Tested(p)

TestsInv == Testing => TestOK

(* Who changes what a person has asked for.                                *)
LEMMA AskedKept ==
  ASSUME [Next]_vars, ~OptionsNext, ~Ask
  PROVE  UNCHANGED options
<1>1. CASE ReadFile
  BY <1>1 DEF ReadFile, asked
<1>2. CASE StartCompiling
  BY <1>2 DEF StartCompiling, asked
<1>3. CASE StartTests \/ NextTest
  BY <1>3 DEF StartTests, NextTest
<1>4. CASE TestsDone \/ WriteTest \/ WriteOutput \/ Success
  BY <1>4 DEF TestsDone, WriteTest, WriteOutput, Success, asked
<1>5. CASE Quiet
  BY <1>5 DEF Quiet, asked
<1>6. CASE UNCHANGED vars
  BY <1>6 DEF vars, asked
<1>7. CASE SetupTargetMachine \/ Tokenize \/ Parse \/ CodegenAndOptimize \/ DumpIR \/ Lower
             \/ KeepModule \/ Link \/ NothingToLink
  BY <1>5, <1>7 DEF SetupTargetMachine, Tokenize, Parse, CodegenAndOptimize, DumpIR, Lower,
     KeepModule, Link, NothingToLink
<1> QED
  BY <1>1, <1>2, <1>3, <1>4, <1>6, <1>7 DEF Next

LEMMA OptionsTyped ==
  ASSUME IInv, Typed, OptionsNext
  PROVE  OptionsTypeOK' /\ args' = args
<1>1. /\ at \in 1..(Len(args) + 1) /\ Len(args) \in Nat /\ opt_level \in Levels
      /\ prev_was_dash \in [Awaiting -> BOOLEAN]
      /\ dash_o_was_set \in BOOLEAN /\ opt_level_has_been_set \in BOOLEAN
  BY DEF Typed, OptionsTypeOK
<1>2. args' = args /\ (at' = at \/ (at' = at + 1 /\ at <= Len(args)))
  <2>1. CASE PrintHelp \/ SetEmitLLVM
    BY <2>1 DEF PrintHelp, SetEmitLLVM, Reading, options
  <2>2. CASE DashO
    BY <2>2 DEF DashO, Reading, InvalidUsage, options
  <2>3. CASE SetOptLevel
    BY <2>3 DEF SetOptLevel, Reading, InvalidUsage, options
  <2>4. CASE \E o \in Collected : Collect(o)
    BY <2>4 DEF Collect, Reading
  <2>5. CASE SourceFile \/ EndOfOptions
    BY <2>5 DEF SourceFile, EndOfOptions, Reading, InvalidUsage, options
  <2> QED
    BY <2>1, <2>2, <2>3, <2>4, <2>5 DEF OptionsNext
<1>3. at' \in 1..(Len(args') + 1)
  BY ONLY <1>1, <1>2
<1>4. /\ opt_level' \in Levels /\ prev_was_dash' \in [Awaiting -> BOOLEAN]
      /\ dash_o_was_set' \in BOOLEAN /\ opt_level_has_been_set' \in BOOLEAN
  <2>1. CASE PrintHelp \/ SetEmitLLVM
    BY <1>1, <2>1 DEF PrintHelp, SetEmitLLVM, options
  <2>2. CASE DashO
    <3>1. CASE InvalidUsage
      BY <1>1, <3>1 DEF InvalidUsage, options
    <3>2. CASE ~InvalidUsage
      <4> DEFINE awaits == Arg.opt = "o" /\ ~Attached
      <4>1. /\ prev_was_dash' = [prev_was_dash EXCEPT !["o"] = awaits]
            /\ dash_o_was_set' = (dash_o_was_set \/ ~awaits)
            /\ opt_level' = opt_level /\ opt_level_has_been_set' = opt_level_has_been_set
        BY <2>2, <3>2 DEF DashO
      <4>2. awaits \in BOOLEAN
        OBVIOUS
      <4> HIDE DEF awaits
      <4> QED
        BY <1>1, <4>1, <4>2
    <3> QED
      BY <3>1, <3>2
  <2>3. CASE SetOptLevel
    BY <1>1, <2>3 DEF SetOptLevel, InvalidUsage, options
  <2>4. CASE \E o \in Collected : Collect(o)
    <3>1. PICK o \in Collected : Collect(o)
      BY <2>4
    <3> DEFINE awaits == Arg.opt = o /\ ~Attached
    <3>2. /\ prev_was_dash' = [prev_was_dash EXCEPT ![o] = awaits]
          /\ UNCHANGED <<dash_o_was_set, opt_level, opt_level_has_been_set>>
      BY <3>1 DEF Collect
    <3>3. awaits \in BOOLEAN
      OBVIOUS
    <3> HIDE DEF awaits
    <3> QED
      BY <1>1, <3>2, <3>3
  <2>5. CASE SourceFile \/ EndOfOptions
    BY <1>1, <2>5 DEF SourceFile, EndOfOptions, InvalidUsage, options
  <2> QED
    BY <2>1, <2>2, <2>3, <2>4, <2>5 DEF OptionsNext
<1> QED
  BY <1>2, <1>3, <1>4 DEF OptionsTypeOK

LEMMA AskTyped ==
  ASSUME IInv, Ask
  PROVE  OptionsTypeOK' /\ Len(args') \in Nat /\ ~Testing'
<1>1. /\ args' = [k \in 1..Len(source_files) |-> Plain(source_files[k])] /\ at' = 1
      /\ prev_was_dash' = [o \in Awaiting |-> FALSE] /\ dash_o_was_set' = FALSE
      /\ opt_level' = "1" /\ opt_level_has_been_set' = FALSE
  BY DEF Ask, ForgetOptions
<1>2. source_files \in Seq(Path) /\ source_files # <<>>
  BY DEF IInv, StateOK, FilesOK, Ask, At
<1>3. Len(source_files) \in Nat \ {0}
  BY <1>2
<1>4. args' \in Seq({Plain(source_files[k]) : k \in 1..Len(source_files)})
         /\ Len(args') = Len(source_files)
  <2> DEFINE n == Len(source_files)
             a(k) == Plain(source_files[k])
  <2>1. args' = [k \in 1..n |-> a(k)] /\ n \in Nat
    BY <1>1, <1>3
  <2> HIDE DEF n, a
  <2>2. args' \in Seq({a(k) : k \in 1..n}) /\ Len(args') = n
    BY <2>1
  <2> QED
    BY <2>2 DEF n, a
<1>5. Len(args') \in Nat \ {0}
  BY <1>3, <1>4
<1>6. ~Testing'
  BY <1>5 DEF Testing
<1>7. at' \in 1..(Len(args') + 1)
  BY <1>1, <1>5
<1>8. OptionsTypeOK'
  BY <1>1, <1>7 DEF OptionsTypeOK, Levels
<1> QED
  BY <1>5, <1>6, <1>8

(* The bounds hold where files are compiled, because one output or module  *)
(* is made of each; behind that nothing is added.                          *)
LEMMA BoundsStep ==
  ASSUME IInv, IInv', Bounds, [Next]_vars
  PROVE  Bounds'
<1>1. /\ source_files \in Seq(Path) /\ outs \in Seq(Outs) /\ modules \in Seq(Contents)
      /\ i \in Nat
  BY DEF IInv, StateOK
<1>2. Len(source_files) \in Nat /\ Len(outs) \in Nat /\ Len(modules) \in Nat
  BY <1>1
<1>3. Len(source_files') \in Nat /\ Len(outs') \in Nat /\ Len(modules') \in Nat /\ i' \in Nat
  BY DEF IInv, StateOK
<1>4. CASE stage' \in OverFiles
  <2>1. i' = Len(outs') + Len(modules') + 1 /\ i' <= Len(source_files') + 1
    BY <1>4 DEF IInv, FilesOK
  <2> QED
    BY <1>3, <2>1 DEF Bounds
<1>5. CASE stage' \in BeforeFiles
  <2>1. outs' = <<>> /\ modules' = <<>> /\ i' = 1
    BY <1>5 DEF IInv, FilesOK
  <2>2. Len(outs') = 0 /\ Len(modules') = 0
    BY <2>1
  <2> QED
    BY <1>3, <2>1, <2>2 DEF Bounds
<1>6. CASE UNCHANGED <<source_files, outs, modules, i>>
  BY <1>6 DEF Bounds
<1>7. CASE WriteOutput
  <2>1. UNCHANGED <<source_files, outs, modules>> /\ i <= Len(outs) /\ i' = i + 1
    BY <1>7 DEF WriteOutput, asked, result
  <2>2. Len(outs) <= Len(source_files) /\ Len(modules) <= Len(source_files) /\ 1 <= i
    BY <1>2 DEF Bounds
  <2>3. i' \in 1..(Len(source_files) + 1)
    BY ONLY <1>1, <1>2, <2>1, <2>2
  <2> QED
    BY <2>1, <2>2, <2>3 DEF Bounds
<1>8. CASE Return /\ UNCHANGED <<source_files, outs, modules>>
  <2>1. i' = 1 /\ 1 \in 1..(Len(source_files) + 1)
    BY <1>2, <1>8 DEF Return
  <2> QED
    BY <1>8, <2>1 DEF Bounds
<1>9. CASE Link /\ Return /\ Len(outs') = 1 /\ Len(modules') = 0
  <2>1. source_files' = source_files /\ i' = 1 /\ source_files # <<>>
    BY <1>9 DEF Link, Quiet, asked, Return, At, IInv, FilesOK, Compiling
  <2>2. Len(source_files) \in Nat \ {0}
    BY <1>1, <2>1
  <2> QED
    BY <1>9, <2>1, <2>2 DEF Bounds
<1>10. stage' \in OverFiles \/ stage' \in BeforeFiles \/ stage' \in {"tests", "writing"}
  BY DEF IInv, StateOK
<1>11. CASE OptionsNext /\ UNCHANGED <<out_kind, lto_kind, verdict, tests, files, i, optimized,
                                       result, disk, test_out>>
  <2>1. stage' \in BeforeFiles
    BY <1>11, OptionsInv DEF BeforeFiles
  <2> QED
    BY <1>5, <2>1
<1>12. CASE Ask \/ ReadFile \/ StartCompiling \/ NextTest
  <2>1. stage' \in BeforeFiles \/ stage' \in OverFiles
    BY <1>12 DEF Ask, ReadFile, StartCompiling, NextTest, At, asked, BeforeFiles, OverFiles
  <2> QED
    BY <1>4, <1>5, <2>1
<1>13. CASE StartTests \/ TestsDone \/ WriteTest \/ Success
  BY <1>6, <1>13 DEF StartTests, TestsDone, WriteTest, Success, asked, result
<1>14. CASE SetupTargetMachine \/ Tokenize \/ Parse \/ CodegenAndOptimize \/ DumpIR \/ Lower
              \/ KeepModule
  <2>1. stage' \in OverFiles
    BY <1>14 DEF SetupTargetMachine, Tokenize, Parse, CodegenAndOptimize, DumpIR, Lower,
       KeepModule, FileDone, NextFile, PrintAnd, Into, Throw, At, OverFiles, InFile
  <2> QED
    BY <1>4, <2>1
<1>15. CASE NothingToLink
  BY <1>8, <1>15 DEF NothingToLink, Quiet, asked, result
<1>16. CASE Link
  <2>1. CASE /\ outs' = <<[file |-> OutPath, content |-> Linked]>> /\ modules' = <<>>
             /\ Return
    <3>1. Len(outs') = 1 /\ Len(modules') = 0
      BY <2>1
    <3> QED
      BY <1>9, <1>16, <2>1, <3>1
  <2>2. CASE \E why : Throw(why)
    BY <1>6, <1>16, <2>2 DEF Link, Throw, Quiet, asked, result
  <2> QED
    BY <1>16, <2>1, <2>2 DEF Link
<1>17. CASE UNCHANGED vars
  BY <1>6, <1>17 DEF vars, asked, result
<1> QED
  BY <1>7, <1>11, <1>12, <1>13, <1>14, <1>15, <1>16, <1>17 DEF Next

LEMMA TypedStep ==
  ASSUME IInv, IInv', Typed, [Next]_vars
  PROVE  Typed'
<1>1. Bounds'
  BY BoundsStep DEF Typed
<1>2. CASE OptionsNext
  BY <1>1, <1>2, OptionsTyped DEF Typed
<1>3. CASE Ask
  BY <1>1, <1>3, AskTyped DEF Typed
<1>4. CASE ~OptionsNext /\ ~Ask
  BY <1>1, <1>4, AskedKept DEF Typed, OptionsTypeOK, options
<1> QED
  BY <1>2, <1>3, <1>4

LEMMA InitTyped == Init => Typed
<1> SUFFICES ASSUME Init PROVE Typed
  OBVIOUS
<1>1. args \in CommandLines /\ at = 1 /\ i = 1
      /\ source_files = <<>> /\ outs = <<>> /\ modules = <<>>
  BY DEF Init, OptionsInit
<1>2. Len(args) \in Nat
  <2> DEFINE S == [opt : STRING, value : STRING]
  <2>1. args \in Seq(S)
    BY <1>1, CommandLinesAssumption
  <2> HIDE DEF S
  <2> QED
    BY <2>1, LenProperties
<1>3. Bounds
  BY <1>1 DEF Bounds
<1>4. at \in 1..(Len(args) + 1)
  BY <1>1, <1>2
<1>5. OptionsTypeOK
  BY <1>4 DEF OptionsTypeOK, Init, OptionsInit, Levels
<1> QED
  BY <1>2, <1>3, <1>5 DEF Typed

LEMMA TypeFollows == IInv /\ Typed => TypeOK
<1> SUFFICES ASSUME IInv, Typed PROVE TypeOK
  OBVIOUS
<1>1. OptionsTypeOK /\ Bounds /\ StateOK
  BY DEF IInv, Typed
<1>2. stage \in Compiling \union {"options", "asked", "tests", "writing"}
  BY <1>1 DEF StateOK, BeforeFiles, OverFiles, InFile, Compiling
<1>3. \A k \in 1..Len(outs) : outs[k].file \in Path \union {OutPath}
  <2> DEFINE P == Path \union {OutPath}
             S == Outs
  <2>1. outs \in Seq(S)
    BY <1>1 DEF StateOK
  <2>2. \A o \in S : o.file \in P
    BY DEF Outs
  <2> HIDE DEF S, P
  <2>3. \A k \in 1..Len(outs) : outs[k].file \in P
    BY <2>1, <2>2, ElementOfSeq
  <2> QED
    BY <2>3 DEF P
<1> QED
  BY <1>1, <1>2, <1>3 DEF TypeOK, StateOK, Bounds

-----------------------------------------------------------------------------
(* The tests: without arguments the directory is read, and nothing changes *)
(* what is asked for.                                                      *)
LEMMA InitTests == Init => TestsInv
<1> SUFFICES ASSUME Init PROVE TestOK
  BY DEF TestsInv
<1>1. /\ out_kind = "asm_" /\ stage = "options"
      /\ disk = [p \in Path \union {OutPath} |-> Source(p)]
      /\ test_out = [p \in Path |-> Nothing]
  BY DEF Init, OptionsInit
<1> QED
  BY <1>1 DEF TestOK, OverFiles, InFile

(* A file of a test: it is the only one, and the text is its own.          *)
LEMMA TestedFile ==
  ASSUME IInv, TestOK, stage \in InFile \union {"file"}, i <= Len(source_files)
  PROVE  \E p \in Path : Tested(p) /\ File = p /\ files[i].code = p /\ Reports = verdict[p]
<1>1. stage \in OverFiles /\ i \in Nat /\ i = Len(outs) + Len(modules) + 1
  BY DEF IInv, StateOK, FilesOK, InFile, OverFiles
<1>2. PICK p \in Path : Tested(p)
  BY <1>1 DEF TestOK
<1>3. source_files = <<p>> /\ files = <<[file |-> p, code |-> p]>>
  BY <1>2 DEF Tested
<1>4. i = 1
  <2>1. Len(source_files) = 1
    BY <1>3
  <2>2. Len(outs) \in Nat /\ Len(modules) \in Nat
    BY DEF IInv, StateOK
  <2> QED
    BY <1>1, <2>1, <2>2
<1>5. files[i] = [file |-> p, code |-> p]
  BY <1>3, <1>4
<1>6. File = p /\ files[i].code = p
  BY <1>5 DEF File
<1> QED
  BY <1>2, <1>6 DEF Reports

(* A step of compileAll that adds no output.                               *)
LEMMA OnwardTests ==
  ASSUME TestOK, stage \in OverFiles, stage' \in OverFiles \union {"writing"}, Quiet,
         outs' = outs
  PROVE  TestOK'
<1>1. UNCHANGED <<source_files, out_kind, verdict, tests, files, disk, test_out>>
  BY DEF Quiet, asked
<1>2. PICK p \in Path : Tested(p)
  BY DEF TestOK
<1>3. Tested(p)'
  BY <1>1, <1>2 DEF Tested, Right
<1>4. stage' \notin {"asked", "reading", "options"}
  BY DEF OverFiles, InFile
<1>5. out_kind = "asm_" /\ disk = [q \in Path \union {OutPath} |-> Source(q)]
        /\ test_out = [q \in Path |-> test_out[q]]
        /\ \A q \in Path : test_out[q] # Nothing => q \notin tests /\ Right(test_out[q], q)
  BY DEF TestOK
<1>6. \A q \in Path : test_out[q] # Nothing => q \notin tests /\ Right(test_out[q], q)'
  BY <1>1, <1>5 DEF Right
<1> QED
  BY <1>1, <1>3, <1>4, <1>5, <1>6 DEF TestOK

(* A step that adds the one it is due.                                     *)
LEMMA FileDoneTests ==
  ASSUME IInv, TestOK, stage \in InFile \union {"file"}, i <= Len(source_files), Quiet,
         NEW what, FileDone(what),
         what = IF Clean THEN "asm_" ELSE "llvm_ir"
  PROVE  TestOK'
<1>1. UNCHANGED <<source_files, out_kind, verdict, tests, files, disk, test_out>>
  BY DEF Quiet, asked
<1>2. PICK p \in Path : Tested(p) /\ File = p /\ files[i].code = p /\ Reports = verdict[p]
  BY TestedFile
<1> DEFINE c == Content(what)
           o == [file |-> File, content |-> c]
<1>3. outs' = Append(outs, o) /\ stage' = "file" /\ outs \in Seq(Outs)
  BY DEF FileDone, NextFile, IInv, StateOK
<1>4. Right(c, p)
  BY <1>2 DEF Right, Content, Clean
<1>5. o.content = c
  OBVIOUS
<1> HIDE DEF c, o
<1>6. ASSUME NEW k \in 1..Len(outs')
      PROVE  Right(outs'[k].content, p)
  <2>1. CASE k = Len(outs) + 1
    <3>1. outs'[k] = o
      BY <1>3, <2>1
    <3> QED
      BY <1>4, <1>5, <3>1
  <2>2. CASE k # Len(outs) + 1
    <3>1. k \in 1..Len(outs) /\ outs'[k] = outs[k]
      BY <1>3, <2>2
    <3> QED
      BY <1>2, <3>1 DEF Tested
  <2> QED
    BY <2>1, <2>2
<1>7. Tested(p)'
  <2>1. (\A k \in 1..Len(outs) : Right(outs[k].content, p))'
    BY <1>1, <1>6 DEF Right
  <2> QED
    BY <1>1, <1>2, <2>1 DEF Tested
<1>8. out_kind = "asm_" /\ disk = [q \in Path \union {OutPath} |-> Source(q)]
        /\ test_out = [q \in Path |-> test_out[q]]
        /\ \A q \in Path : test_out[q] # Nothing => q \notin tests /\ Right(test_out[q], q)
  BY DEF TestOK
<1>9. \A q \in Path : test_out[q] # Nothing => q \notin tests /\ Right(test_out[q], q)'
  BY <1>1, <1>8 DEF Right
<1> QED
  BY <1>1, <1>3, <1>7, <1>8, <1>9 DEF TestOK

LEMMA CompileTests ==
  ASSUME IInv, TestOK,
         SetupTargetMachine \/ Tokenize \/ Parse \/ CodegenAndOptimize \/ DumpIR \/ Lower
           \/ KeepModule \/ Link \/ NothingToLink
  PROVE  TestOK'
<1>1. out_kind = "asm_" /\ out_kind \notin Combined
  BY DEF TestOK, Combined
<1>2. Quiet /\ stage \in OverFiles
  BY DEF SetupTargetMachine, Tokenize, Parse, CodegenAndOptimize, DumpIR, Lower, KeepModule,
     Link, NothingToLink, At, OverFiles, InFile
<1>3. CASE outs' = outs /\ stage' \in OverFiles \union {"writing"}
  BY <1>2, <1>3, OnwardTests
<1>4. CASE SetupTargetMachine
  BY <1>3, <1>4 DEF SetupTargetMachine, Throw, result, At, OverFiles
<1>5. CASE Tokenize
  BY <1>1, <1>3, <1>5 DEF Tokenize, Into, Throw, result, At, OverFiles, InFile
<1>6. CASE Parse
  BY <1>1, <1>3, <1>6 DEF Parse, Into, Throw, result, At, OverFiles, InFile
<1>7. CASE CodegenAndOptimize
  BY <1>3, <1>7 DEF CodegenAndOptimize, Throw, result, At, OverFiles, InFile
<1>8. CASE DumpIR
  <2>1. ~Clean /\ PrintAnd("llvm_ir", ~Clean) /\ stage = "generated"
    BY <1>1, <1>8 DEF DumpIR, At
  <2>2. CASE Throw("out of range")
    BY <1>2, <1>3, <2>2 DEF Throw, result
  <2>3. CASE FileDone("llvm_ir")
    <3>1. stage \in InFile /\ i <= Len(source_files)
      BY <2>1 DEF InFile, IInv, FilesOK
    <3> QED
      BY <1>2, <2>1, <2>3, <3>1, FileDoneTests
  <2> QED
    BY <2>1, <2>2, <2>3 DEF PrintAnd
<1>9. CASE Lower
  <2>1. Clean /\ stage = "generated"
    BY <1>9 DEF Lower, At
  <2>2. CASE Throw("irrecoverable exception")
    BY <1>2, <1>3, <2>2 DEF Throw, result
  <2>3. CASE FileDone(out_kind)
    <3>1. stage \in InFile /\ i <= Len(source_files)
      BY <2>1 DEF InFile, IInv, FilesOK
    <3> QED
      BY <1>1, <1>2, <2>1, <2>3, <3>1, FileDoneTests
  <2> QED
    BY <1>9, <2>2, <2>3 DEF Lower
<1>10. CASE KeepModule \/ Link
  BY <1>1, <1>10 DEF KeepModule, Link
<1>11. CASE NothingToLink
  BY <1>3, <1>11 DEF NothingToLink, Return, result
<1> QED
  BY <1>4, <1>5, <1>6, <1>7, <1>8, <1>9, <1>10, <1>11

LEMMA StartTestsTests ==
  ASSUME TestOK, StartTests
  PROVE  TestOK'
<1>1. /\ stage = "options" /\ stage' = "tests"
      /\ UNCHANGED <<out_kind, disk, test_out>>
  BY DEF StartTests, At
<1>2. test_out = [p \in Path |-> Nothing]
  BY <1>1 DEF TestOK
<1>3. \A p \in Path : test_out'[p] = Nothing
  BY <1>1, <1>2
<1> QED
  BY <1>1, <1>3 DEF TestOK, OverFiles, InFile

(* The next test is one of those that are left.                            *)
LEMMA NextTestTests ==
  ASSUME IInv, TestOK, NextTest
  PROVE  TestOK'
<1>1. PICK p \in tests :
           /\ tests' = tests \ {p} /\ source_files' = <<p>>
           /\ files' = <<[file |-> p, code |-> p]>>
  BY DEF NextTest
<1>2. /\ stage = "tests" /\ stage' = "setup" /\ outs' = <<>>
      /\ UNCHANGED <<out_kind, verdict, disk, test_out>>
  BY DEF NextTest, At
<1>3. p \in Path /\ tests' \subseteq tests
  BY <1>1 DEF IInv, StateOK
<1>4. Tested(p)'
  BY <1>1, <1>2, <1>3 DEF Tested
<1>5. out_kind = "asm_" /\ disk = [q \in Path \union {OutPath} |-> Source(q)]
        /\ test_out = [q \in Path |-> test_out[q]]
        /\ \A q \in Path : test_out[q] # Nothing => q \notin tests /\ Right(test_out[q], q)
  BY DEF TestOK
<1>6. (\A q \in Path : test_out[q] # Nothing => q \notin tests /\ Right(test_out[q], q))'
  BY <1>2, <1>3, <1>5 DEF Right
<1> QED
  BY <1>2, <1>3, <1>4, <1>5, <1>6 DEF TestOK, Source

LEMMA WriteTestTests ==
  ASSUME IInv, TestOK, WriteTest
  PROVE  TestOK'
<1>1. /\ stage = "writing" /\ stage' \in {"writing", "tests"}
      /\ UNCHANGED <<out_kind, verdict, tests, source_files, files, outs, disk>>
  BY DEF WriteTest, At, asked, result
<1>2. PICK p \in Path : Tested(p)
  BY <1>1 DEF TestOK
<1>3. Tested(p)'
  BY <1>1, <1>2 DEF Tested, Right
<1>4. out_kind = "asm_" /\ disk = [q \in Path \union {OutPath} |-> Source(q)]
        /\ test_out = [q \in Path |-> test_out[q]]
        /\ \A q \in Path : test_out[q] # Nothing => q \notin tests /\ Right(test_out[q], q)
  BY DEF TestOK
<1>5. test_out' = test_out
        \/ (test_out' = [test_out EXCEPT ![p] = outs[1].content] /\ outs # <<>>)
  <2>1. source_files[1] = p
    BY <1>2 DEF Tested
  <2> QED
    BY <2>1 DEF WriteTest
<1>6. outs # <<>> => Right(outs[1].content, p)
  <2> SUFFICES ASSUME outs # <<>>
               PROVE  Right(outs[1].content, p)
    OBVIOUS
  <2>1. 1 \in 1..Len(outs)
    BY DEF IInv, StateOK
  <2> QED
    BY <1>2, <2>1 DEF Tested
<1>7. /\ test_out' = [q \in Path |-> test_out'[q]]
      /\ \A q \in Path : test_out'[q] = test_out[q]
           \/ (q = p /\ test_out'[q] = outs[1].content /\ outs # <<>>)
  BY <1>4, <1>5
<1>8. ASSUME NEW q \in Path, test_out'[q] # Nothing
      PROVE  q \notin tests /\ Right(test_out'[q], q)
  BY <1>2, <1>4, <1>6, <1>7, <1>8 DEF Tested
<1>9. (\A q \in Path : test_out[q] # Nothing => q \notin tests /\ Right(test_out[q], q))'
  BY <1>1, <1>8 DEF Right
<1>10. /\ out_kind' = "asm_" /\ stage' \notin {"asked", "reading", "options"}
       /\ disk' = [q \in Path \union {OutPath} |-> Source(q)]
       /\ \E q \in Path : Tested(q)'
  BY <1>1, <1>3, <1>4
<1> QED
  BY <1>7, <1>9, <1>10 DEF TestOK, Source

LEMMA TestsStep ==
  ASSUME IInv, TestsInv, [Next]_vars
  PROVE  TestsInv'
<1>1. CASE OptionsNext
  <2>1. args # <<>>
    BY <1>1 DEF OptionsNext, PrintHelp, SetEmitLLVM, DashO, SetOptLevel, Collect, SourceFile,
       EndOfOptions, Reading
  <2>2. args' = args
    BY <1>1 DEF OptionsNext, PrintHelp, SetEmitLLVM, DashO, SetOptLevel, Collect, SourceFile,
       EndOfOptions, InvalidUsage, options
  <2> QED
    BY <2>1, <2>2 DEF TestsInv, Testing
<1>2. CASE Ask
  BY <1>2, AskTyped DEF TestsInv
<1>3. CASE ~OptionsNext /\ ~Ask
  <2>1. Testing' = Testing
    BY <1>3, AskedKept DEF options, Testing
  <2> SUFFICES ASSUME TestOK, Testing
               PROVE  TestOK'
    BY <2>1 DEF TestsInv
  <2>2. CASE ReadFile \/ StartCompiling \/ WriteOutput \/ Success
    BY <2>2 DEF ReadFile, StartCompiling, WriteOutput, Success, At, TestOK
  <2>3. CASE TestsDone
    BY <2>3 DEF TestsDone, At, asked, result, TestOK, Tested, Right
  <2>4. CASE UNCHANGED vars
    BY <2>4 DEF vars, asked, result, TestOK, Tested, Right
  <2> QED
    BY <1>3, <2>2, <2>3, <2>4, CompileTests, StartTestsTests, NextTestTests, WriteTestTests
       DEF Next
<1> QED
  BY <1>1, <1>2, <1>3

LEMMA TestsFollow == TestsInv => TestsHaveTheirOutput
BY DEF TestsInv, TestOK, Right, TestsHaveTheirOutput

-----------------------------------------------------------------------------
(* The options are read as they are meant: up to the argument `at`, on a   *)
(* command line without an option where a value is expected.               *)
Argument == [opt : STRING, value : STRING]
Entry    == Argument \union {Plain(v) : v \in STRING}

Waits(o) == at > 1 /\ args[at - 1].opt = o /\ args[at - 1].value = ""
SoFar(places) == places \intersect (1..(at - 1))
OutFiles == IF dash_o_was_set THEN <<out_file>> ELSE <<>>

MeantSoFar ==
  /\ \A o \in Awaiting : prev_was_dash[o] <=> Waits(o)
  /\ outcome = "running" /\ ~dash_o_was_set => out_file = NullPtr
  /\ Lists(source_files, SoFar(FilePlaces), FileNames)
  /\ \A o \in Collected : Lists(values[o], SoFar(ValuePlaces(o)), Meant(o))
  /\ Lists(OutFiles, SoFar(ValuePlaces("o")), OutNames)

MeaningInv ==
  stage = "options" => /\ values \in [Collected -> Seq(Entry)]
                       /\ args # <<>> /\ Tame => MeantSoFar

(* A list gets one more entry for one more place.                          *)
LEMMA ListsMore ==
  ASSUME NEW T, NEW list \in Seq(T), NEW v \in T, NEW S, NEW n \in Nat \ {0}, NEW texts,
         Lists(list, S \intersect (1..(n - 1)), texts), n \in S, texts[n] = v
  PROVE  Lists(Append(list, v), S \intersect (1..n), texts)
<1> DEFINE A == S \intersect (1..(n - 1))
           B == S \intersect (1..n)
<1>1. B = A \union {n} /\ n \notin A
  BY (n - 1) + 1 = n
<1>2. IsFiniteSet(1..(n - 1))
  BY FS_Interval
<1>3. IsFiniteSet(A)
  BY <1>2, FS_Subset
<1>4. Cardinality(B) = Cardinality(A) + 1 /\ Cardinality(A) \in Nat
  BY <1>1, <1>3, FS_AddElement, FS_CardinalityType
<1>5. /\ Len(Append(list, v)) = Len(list) + 1 /\ Append(list, v)[Len(list) + 1] = v
      /\ \A k \in 1..Len(list) : Append(list, v)[k] = list[k]
  OBVIOUS
<1>6. Len(list) = Cardinality(A) /\ \A p \in A : list[Cardinality(A \intersect (1..p))] = texts[p]
  BY DEF Lists
<1>7. \A p \in A : p \in 1..(n - 1)
  OBVIOUS
<1>8. B \intersect (1..n) = B
  OBVIOUS
<1>9. ASSUME NEW p \in A
      PROVE  /\ B \intersect (1..p) = A \intersect (1..p)
             /\ Cardinality(A \intersect (1..p)) \in 1..Cardinality(A)
  <2>1. p \in 1..(n - 1) /\ n \notin 1..p
    BY <1>7
  <2> HIDE DEF A, B
  <2>2. B \intersect (1..p) = A \intersect (1..p)
    BY <1>1, <2>1
  <2> DEFINE C == A \intersect (1..p)
  <2>3. C \in SUBSET A /\ p \in C
    BY <2>1
  <2>4. IsFiniteSet(C) /\ Cardinality(C) <= Cardinality(A)
    BY <1>3, <2>3, FS_Subset
  <2>5. Cardinality(C) \in Nat /\ Cardinality(C) # 0
    BY <2>3, <2>4, FS_EmptySet, FS_CardinalityType
  <2> QED
    BY <1>4, <2>2, <2>4, <2>5
<1> HIDE DEF A, B
<1>10. \A p \in B : Append(list, v)[Cardinality(B \intersect (1..p))] = texts[p]
  <2> TAKE p \in B
  <2>1. CASE p = n
    BY <1>4, <1>5, <1>6, <1>8, <2>1
  <2>2. CASE p # n
    <3>1. p \in A
      BY <1>1, <2>2
    <3> QED
      BY <1>5, <1>6, <1>9, <3>1
  <2> QED
    BY <2>1, <2>2
<1>11. Len(Append(list, v)) = Cardinality(B)
  BY <1>4, <1>5, <1>6
<1>12. Lists(Append(list, v), B, texts)
  BY <1>10, <1>11 DEF Lists
<1> QED
  BY <1>12 DEF B

(* With no option in the place of a value there are no two in a row.       *)
LEMMA ValuesFollow ==
  ASSUME Len(args) \in Nat, Tame, NEW p \in 1..Len(args)
  PROVE  IsValue(p) <=> p > 1 /\ Awaits(args[p - 1])
<1> DEFINE n == Cardinality(Before(p))
<1>1. CASE ~(p > 1 /\ Awaits(args[p - 1]))
  <2>1. Before(p) = {}
    <3> SUFFICES ASSUME NEW q \in 1..(p - 1), \A r \in q..(p - 1) : Awaits(args[r])
                 PROVE  FALSE
      BY DEF Before
    <3>1. p > 1 /\ p - 1 \in q..(p - 1)
      OBVIOUS
    <3> QED
      BY <1>1, <3>1
  <2>2. n = 0
    BY <2>1, FS_EmptySet
  <2> QED
    BY <1>1, <2>2 DEF IsValue
<1>2. CASE p > 1 /\ Awaits(args[p - 1])
  <2> DEFINE m == Cardinality(Before(p - 1))
  <2>1. p - 1 \in 1..Len(args)
    BY <1>2
  <2>2. args[p - 1].opt \notin {"", "-"}
    BY <1>2 DEF Awaits, Awaiting, Collected
  <2>3. ~IsValue(p - 1)
    BY <2>1, <2>2 DEF Tame
  <2>4. Before(p) = Before(p - 1) \union {p - 1}
    <3>1. \A q \in 1..(p - 1) : q = p - 1 \/ q \in 1..((p - 1) - 1)
      BY <1>2
    <3>2. \A q \in 1..((p - 1) - 1) :
            /\ q \in 1..(p - 1)
            /\ \A r \in q..(p - 1) : r = p - 1 \/ r \in q..((p - 1) - 1)
            /\ \A r \in q..((p - 1) - 1) : r \in q..(p - 1)
      BY <1>2
    <3>3. p - 1 \in 1..(p - 1) /\ \A r \in (p - 1)..(p - 1) : r = p - 1
      BY <1>2
    <3>4. Before(p) \subseteq Before(p - 1) \union {p - 1}
      BY <3>1, <3>2 DEF Before
    <3>5. Before(p - 1) \union {p - 1} \subseteq Before(p)
      BY <1>2, <3>2, <3>3 DEF Before
    <3> QED
      BY <3>4, <3>5
  <2>5. p - 1 \notin Before(p - 1)
    BY <1>2 DEF Before
  <2>6. IsFiniteSet(Before(p - 1))
    <3>0. 1 \in Int /\ (p - 1) - 1 \in Int
      OBVIOUS
    <3>1. IsFiniteSet(1..((p - 1) - 1)) /\ Before(p - 1) \subseteq 1..((p - 1) - 1)
      BY ONLY <3>0, FS_Interval DEF Before
    <3> QED
      BY <3>1, FS_Subset
  <2>7. n = m + 1 /\ m \in Nat
    BY <2>4, <2>5, <2>6, FS_AddElement, FS_CardinalityType
  <2>8. m % 2 # 1
    BY <2>3 DEF IsValue
  <2> HIDE DEF m, n
  <2>9. n % 2 = 1
    BY <2>7, <2>8
  <2> QED
    BY <1>2, <2>9 DEF IsValue, n
<1> QED
  BY <1>1, <1>2

(* What the argument that is read next is, and what waits for it.          *)
LEMMA Here ==
  ASSUME args \in Seq(Argument), Tame, MeantSoFar, at \in 1..Len(args)
  PROVE  /\ Arg \in Argument
         /\ at \in FilePlaces <=> Arg.opt = "" /\ \A o \in Awaiting : ~prev_was_dash[o]
         /\ \A o \in Awaiting :
              at \in ValuePlaces(o) <=>
                \/ prev_was_dash[o]
                \/ Arg.opt = o /\ Arg.value # "" /\ \A e \in Awaiting : ~prev_was_dash[e]
         /\ \A o \in Awaiting : prev_was_dash[o] =>
              Arg.opt \in {"", "-"} /\ \A e \in Awaiting : prev_was_dash[e] => e = o
         /\ FileNames[at] = Arg.value /\ \A o : Meant(o)[at] = Value(o)
         /\ OutNames[at] = IF Value("o") \in {Bare("-"), Plain("-")} THEN NullPtr
                           ELSE Value("o")
<1>1. Len(args) \in Nat /\ Arg \in Argument
  BY DEF Arg
<1>2. IsValue(at) <=> at > 1 /\ Awaits(args[at - 1])
  BY <1>1, ValuesFollow
<1>3. \A o \in Awaiting : prev_was_dash[o] <=> Waits(o)
  BY DEF MeantSoFar
<1>4. IsValue(at) <=> \E o \in Awaiting : prev_was_dash[o]
  BY <1>2, <1>3 DEF Waits, Awaits
<1>5. \A o \in Awaiting : prev_was_dash[o] => args[at - 1].opt = o
  BY <1>3 DEF Waits
<1>6. IsValue(at) => Arg.opt \in {"", "-"}
  BY DEF Tame, Arg
<1>7. \A o \in Awaiting : IsValue(at) => (args[at - 1].opt = o <=> prev_was_dash[o])
  BY <1>4, <1>5
<1>8. at \in FilePlaces <=> Arg.opt = "" /\ ~IsValue(at)
  BY DEF FilePlaces, Arg
<1>9. \A o : at \in ValuePlaces(o) <=> IF IsValue(at) THEN args[at - 1].opt = o
                                       ELSE Arg.opt = o /\ Arg.value # ""
  BY DEF ValuePlaces, Arg
<1>10. FileNames[at] = Arg.value /\ \A o : Meant(o)[at] = Value(o)
  BY DEF FileNames, Meant, Value, Arg
<1>11. OutNames[at] = IF Value("o") \in {Bare("-"), Plain("-")} THEN NullPtr ELSE Value("o")
  BY <1>10 DEF OutNames
<1> QED
  BY <1>1, <1>4, <1>5, <1>6, <1>7, <1>8, <1>9, <1>10, <1>11

LEMMA ArgumentsStay ==
  ASSUME args' = args
  PROVE  /\ FilePlaces' = FilePlaces /\ FileNames' = FileNames
         /\ \A o : ValuePlaces(o)' = ValuePlaces(o) /\ Meant(o)' = Meant(o)
         /\ OutNames' = OutNames /\ Tame' = Tame
<1>1. \A p : IsValue(p)' <=> IsValue(p)
  BY DEF IsValue, Before
<1>2. FilePlaces' = FilePlaces /\ Tame' = Tame
  BY <1>1 DEF FilePlaces, Tame
<1>3. FileNames' = FileNames
  BY DEF FileNames
<1>4. \A o : ValuePlaces(o)' = ValuePlaces(o)
  BY <1>1 DEF ValuePlaces
<1>5. \A o : Meant(o)' = Meant(o)
  BY DEF Meant
<1>6. OutNames' = OutNames
  BY DEF OutNames, Meant
<1> QED
  BY <1>2, <1>3, <1>4, <1>5, <1>6

LEMMA ValueIs ==
  ASSUME Arg \in Argument, NEW o
  PROVE  Value(o) \in Entry
<1>1. Arg.value \in STRING
  BY DEF Argument
<1> QED
  BY <1>1 DEF Value, Entry

(* An argument has been read, and whatever it gives has been added.        *)
LEMMA ReadOn ==
  ASSUME args \in Seq(Argument), MeantSoFar, at \in 1..Len(args),
         source_files \in Seq(Path), values \in [Collected -> Seq(Entry)],
         Arg \in Argument, at \in FilePlaces => Arg.value \in Path,
         FileNames[at] = Arg.value, \A o : Meant(o)[at] = Value(o),
         args' = args, at' = at + 1,
         \A o \in Awaiting : prev_was_dash'[o] <=> Arg.opt = o /\ Arg.value = "",
         dash_o_was_set' \/ out_file' = NullPtr,
         source_files' = IF at \in FilePlaces THEN Append(source_files, Arg.value)
                         ELSE source_files,
         \A o \in Collected : values'[o] = IF at \in ValuePlaces(o)
                                           THEN Append(values[o], Value(o)) ELSE values[o],
         OutFiles' = IF at \in ValuePlaces("o") THEN Append(OutFiles, OutNames[at])
                     ELSE OutFiles
  PROVE  MeantSoFar'
<1>1. at \in Nat \ {0} /\ at' - 1 = at /\ at' > 1
  <2>1. at \in 1..Len(args) /\ at' = at + 1
    OBVIOUS
  <2> QED
    BY ONLY <2>1
<1>2. \A o : Waits(o)' <=> Arg.opt = o /\ Arg.value = ""
  BY <1>1 DEF Waits, Arg
<1>3. /\ FilePlaces' = FilePlaces /\ FileNames' = FileNames
      /\ \A o : ValuePlaces(o)' = ValuePlaces(o) /\ Meant(o)' = Meant(o)
      /\ OutNames' = OutNames
  BY ArgumentsStay
<1>4. ASSUME NEW T, NEW list \in Seq(T), NEW v, NEW S, NEW texts, v \in T \/ at \notin S,
             Lists(list, SoFar(S), texts), at \in S => texts[at] = v
      PROVE  Lists(IF at \in S THEN Append(list, v) ELSE list, S \intersect (1..at), texts)
  <2>1. CASE at \in S
    <3>1. Lists(list, S \intersect (1..(at - 1)), texts)
      BY <1>4 DEF SoFar
    <3>2. v \in T /\ texts[at] = v
      BY <1>4, <2>1
    <3>3. Lists(Append(list, v), S \intersect (1..at), texts)
      BY ONLY <1>1, <1>4, <2>1, <3>1, <3>2, ListsMore
    <3> QED
      BY <2>1, <3>3
  <2>2. CASE at \notin S
    <3>1. S \intersect (1..at) = SoFar(S)
      <4>1. 1..at = (1..(at - 1)) \union {at}
        BY ONLY <1>1
      <4> QED
        BY ONLY <2>2, <4>1 DEF SoFar
    <3> QED
      BY <1>4, <2>2, <3>1
  <2> QED
    BY <2>1, <2>2
<1>5. Lists(source_files', FilePlaces \intersect (1..at), FileNames)
  BY <1>4 DEF MeantSoFar
<1>6. \A o \in Collected : Lists(values'[o], ValuePlaces(o) \intersect (1..at), Meant(o))
  <2> TAKE o \in Collected
  <2>1. values[o] \in Seq(Entry) /\ Lists(values[o], SoFar(ValuePlaces(o)), Meant(o))
    BY DEF MeantSoFar
  <2>2. Value(o) \in Entry
    BY ValueIs
  <2>3. Meant(o)[at] = Value(o)
    OBVIOUS
  <2>4. Lists(IF at \in ValuePlaces(o) THEN Append(values[o], Value(o)) ELSE values[o],
              ValuePlaces(o) \intersect (1..at), Meant(o))
    BY <1>4, <2>1, <2>2, <2>3
  <2> QED
    BY <2>4
<1>7. Lists(OutFiles', ValuePlaces("o") \intersect (1..at), OutNames)
  <2> DEFINE T == {out_file, OutNames[at]}
  <2>1. <<>> \in Seq(T) /\ <<out_file>> \in Seq(T) /\ OutNames[at] \in T
    BY ONLY TRUE
  <2>0. OutFiles \in Seq(T)
    BY ONLY <2>1 DEF OutFiles
  <2>2. Lists(OutFiles, SoFar(ValuePlaces("o")), OutNames)
    BY DEF MeantSoFar
  <2> HIDE DEF T
  <2>3. Lists(IF at \in ValuePlaces("o") THEN Append(OutFiles, OutNames[at]) ELSE OutFiles,
              ValuePlaces("o") \intersect (1..at), OutNames)
    BY <1>4, <2>0, <2>1, <2>2
  <2> QED
    BY <2>3
<1> QED
  BY <1>1, <1>2, <1>3, <1>5, <1>6, <1>7 DEF MeantSoFar, SoFar

(* No option is waiting, and the argument is no value and no file.         *)
LEMMA NothingRead ==
  ASSUME args \in Seq(Argument), Tame, MeantSoFar, at \in 1..Len(args),
         source_files \in Seq(Path), values \in [Collected -> Seq(Entry)],
         \A o \in Awaiting : ~prev_was_dash[o], Arg.opt \notin Awaiting \union {""},
         at' = at + 1, outcome = "running",
         UNCHANGED <<args, prev_was_dash, dash_o_was_set, out_file, values, source_files>>
  PROVE  MeantSoFar'
<1>1. /\ Arg \in Argument /\ at \notin FilePlaces /\ \A o \in Awaiting : at \notin ValuePlaces(o)
      /\ FileNames[at] = Arg.value /\ \A o : Meant(o)[at] = Value(o)
  BY Here
<1>2. OutFiles' = OutFiles
  BY DEF OutFiles
<1>3. dash_o_was_set' \/ out_file' = NullPtr
  BY DEF MeantSoFar
<1>4. "o" \in Awaiting /\ \A o \in Collected : o \in Awaiting
  BY DEF Awaiting
<1>5. \A o \in Awaiting : prev_was_dash'[o] <=> Arg.opt = o /\ Arg.value = ""
  OBVIOUS
<1> QED
  BY <1>1, <1>2, <1>3, <1>4, <1>5, ReadOn

LEMMA ValuesTyped ==
  ASSUME args \in Seq(Argument), values \in [Collected -> Seq(Entry)], OptionsNext,
         at \in Nat \ {0}
  PROVE  values' \in [Collected -> Seq(Entry)]
<1>1. CASE \E o \in Collected : Collect(o)
  <2>1. PICK o \in Collected : Collect(o)
    BY <1>1
  <2>2. Arg \in Argument
    BY <2>1 DEF Collect, Reading, Arg
  <2>3. Value(o) \in Entry
    BY <2>2, ValueIs
  <2>4. values' = values \/ values' = [values EXCEPT ![o] = Append(@, Value(o))]
    BY <2>1 DEF Collect
  <2>5. values[o] \in Seq(Entry) /\ o \in Collected
    BY <2>1
  <2>6. Append(values[o], Value(o)) \in Seq(Entry)
    BY ONLY <2>3, <2>5
  <2>7. [values EXCEPT ![o] = Append(@, Value(o))] \in [Collected -> Seq(Entry)]
    BY <2>6, Zenon
  <2> QED
    BY <2>4, <2>7
<1>2. CASE ~\E o \in Collected : Collect(o)
  BY <1>2 DEF OptionsNext, PrintHelp, SetEmitLLVM, DashO, SetOptLevel, SourceFile, EndOfOptions,
     InvalidUsage, options
<1> QED
  BY <1>1, <1>2

(* The loop ends, with an error or behind the last argument.               *)
LEMMA StopMeans ==
  ASSUME MeantSoFar, UNCHANGED <<args, at, prev_was_dash, dash_o_was_set, values, source_files>>,
         dash_o_was_set => out_file' = out_file,
         outcome' # "running" \/ dash_o_was_set
  PROVE  MeantSoFar'
<1>1. OutFiles' = OutFiles
  BY DEF OutFiles
<1>2. \A o : Waits(o)' <=> Waits(o)
  BY DEF Waits
<1> QED
  BY <1>1, <1>2, ArgumentsStay DEF MeantSoFar, SoFar

LEMMA DashOMeans ==
  ASSUME args \in Seq(Argument), Tame, MeantSoFar, at \in 1..Len(args),
         source_files \in Seq(Path), values \in [Collected -> Seq(Entry)],
         prev_was_dash \in [Awaiting -> BOOLEAN],
         DashO, ~InvalidUsage
  PROVE  MeantSoFar'
<1> DEFINE awaits == Arg.opt = "o" /\ ~Attached
<1>1. /\ outcome = "running" /\ Handled("o") /\ ~Repeated
      /\ prev_was_dash' = [prev_was_dash EXCEPT !["o"] = awaits]
      /\ dash_o_was_set' = (dash_o_was_set \/ ~awaits)
      /\ out_file' = IF awaits \/ Value("o") \in {Bare("-"), Plain("-")} THEN out_file
                     ELSE Value("o")
      /\ at' = at + 1
      /\ UNCHANGED <<args, values, source_files, outcome>>
  BY DEF DashO, Reading
<1>2. /\ Arg \in Argument
      /\ at \in FilePlaces <=> Arg.opt = "" /\ \A o \in Awaiting : ~prev_was_dash[o]
      /\ \A o \in Awaiting :
           at \in ValuePlaces(o) <=>
             \/ prev_was_dash[o]
             \/ Arg.opt = o /\ Arg.value # "" /\ \A e \in Awaiting : ~prev_was_dash[e]
      /\ \A o \in Awaiting : prev_was_dash[o] =>
           Arg.opt \in {"", "-"} /\ \A e \in Awaiting : prev_was_dash[e] => e = o
      /\ FileNames[at] = Arg.value /\ \A o : Meant(o)[at] = Value(o)
      /\ OutNames[at] = IF Value("o") \in {Bare("-"), Plain("-")} THEN NullPtr
                        ELSE Value("o")
  BY Here
<1>3. "o" \in Awaiting /\ \A o \in Collected : o \in Awaiting /\ o # "o"
  BY DEF Awaiting, Collected
<1>4. \A o \in Awaiting : o \notin {"", "-"}
  BY DEF Awaiting, Collected
<1>5. \A o \in Awaiting : o # "o" => ~prev_was_dash[o]
  BY <1>1, <1>2, <1>3, <1>4 DEF Handled
<1>6. at \notin FilePlaces /\ \A o \in Collected : at \notin ValuePlaces(o)
  BY <1>1, <1>2, <1>3, <1>4, <1>5 DEF Handled
<1>7. \A o \in Awaiting : prev_was_dash'[o] <=> Arg.opt = o /\ Arg.value = ""
  <2> TAKE o \in Awaiting
  <2>1. CASE o = "o"
    BY <1>1, <1>3, <2>1 DEF Attached
  <2>2. CASE o # "o"
    <3>1. ~prev_was_dash'[o]
      BY <1>1, <1>5, <2>2
    <3>2. Arg.opt # o
      BY <1>1, <1>2, <1>3, <1>4, <2>2 DEF Handled
    <3> QED
      BY <3>1, <3>2
  <2> QED
    BY <2>1, <2>2
<1>8. at \in ValuePlaces("o") <=> ~awaits
  BY <1>1, <1>2, <1>3, <1>4, <1>5 DEF Handled, Attached
<1>9. ~awaits => ~dash_o_was_set
  BY <1>1, <1>2, <1>3, <1>4 DEF Repeated, Handled, Attached
<1>10. ~dash_o_was_set => out_file = NullPtr
  BY <1>1 DEF MeantSoFar
<1> HIDE DEF awaits
<1>11. ~awaits => out_file' = OutNames[at]
  BY <1>1, <1>2, <1>9, <1>10
<1>12. dash_o_was_set' \/ out_file' = NullPtr
  BY <1>1, <1>10
<1>13. OutFiles' = IF at \in ValuePlaces("o") THEN Append(OutFiles, OutNames[at]) ELSE OutFiles
  <2>1. CASE awaits
    BY <1>1, <1>8, <2>1 DEF OutFiles
  <2>2. CASE ~awaits
    <3>1. OutFiles = <<>> /\ OutFiles' = <<OutNames[at]>>
      BY <1>1, <1>9, <1>11, <2>2 DEF OutFiles
    <3>2. Append(<<>>, OutNames[at]) = <<OutNames[at]>>
      OBVIOUS
    <3> QED
      BY <1>8, <2>2, <3>1, <3>2
  <2> QED
    BY <2>1, <2>2
<1> QED
  BY <1>1, <1>2, <1>6, <1>7, <1>12, <1>13, ReadOn

LEMMA CollectMeans ==
  ASSUME args \in Seq(Argument), Tame, MeantSoFar, at \in 1..Len(args),
         source_files \in Seq(Path), values \in [Collected -> Seq(Entry)],
         prev_was_dash \in [Awaiting -> BOOLEAN],
         NEW c \in Collected, Collect(c)
  PROVE  MeantSoFar'
<1> DEFINE awaits == Arg.opt = c /\ ~Attached
<1>1. /\ outcome = "running" /\ Handled(c) /\ \A e \in Earlier(c) : ~Handled(e)
      /\ prev_was_dash' = [prev_was_dash EXCEPT ![c] = awaits]
      /\ values' = IF awaits THEN values ELSE [values EXCEPT ![c] = Append(@, Value(c))]
      /\ at' = at + 1
      /\ UNCHANGED <<args, dash_o_was_set, out_file, source_files, outcome>>
  BY DEF Collect, Reading
<1>2. /\ Arg \in Argument
      /\ at \in FilePlaces <=> Arg.opt = "" /\ \A o \in Awaiting : ~prev_was_dash[o]
      /\ \A o \in Awaiting :
           at \in ValuePlaces(o) <=>
             \/ prev_was_dash[o]
             \/ Arg.opt = o /\ Arg.value # "" /\ \A e \in Awaiting : ~prev_was_dash[e]
      /\ \A o \in Awaiting : prev_was_dash[o] =>
           Arg.opt \in {"", "-"} /\ \A e \in Awaiting : prev_was_dash[e] => e = o
      /\ FileNames[at] = Arg.value /\ \A o : Meant(o)[at] = Value(o)
  BY Here
<1>3. c \in Awaiting /\ "o" \in Awaiting /\ "o" \notin Collected
        /\ \A o \in Collected : o \in Awaiting
  BY DEF Awaiting, Collected
<1>4. \A o \in Awaiting : o \notin {"", "-"}
  BY DEF Awaiting, Collected
<1>5. \A o \in Awaiting : o # c => ~prev_was_dash[o]
  BY <1>1, <1>2, <1>3, <1>4 DEF Handled
<1>6. at \notin FilePlaces /\ \A o \in Awaiting : o # c => at \notin ValuePlaces(o)
  BY <1>1, <1>2, <1>3, <1>4, <1>5 DEF Handled
<1>7. \A o \in Awaiting : prev_was_dash'[o] <=> Arg.opt = o /\ Arg.value = ""
  <2> TAKE o \in Awaiting
  <2>1. CASE o = c
    BY <1>1, <1>3, <2>1 DEF Attached
  <2>2. CASE o # c
    <3>1. ~prev_was_dash'[o]
      BY <1>1, <1>5, <2>2
    <3>2. Arg.opt # o
      BY <1>1, <1>2, <1>3, <1>4, <2>2 DEF Handled
    <3> QED
      BY <3>1, <3>2
  <2> QED
    BY <2>1, <2>2
<1>8. at \in ValuePlaces(c) <=> ~awaits
  BY <1>1, <1>2, <1>3, <1>4, <1>5 DEF Handled, Attached
<1>9. dash_o_was_set' \/ out_file' = NullPtr
  BY <1>1 DEF MeantSoFar
<1> HIDE DEF awaits
<1>10. \A o \in Collected : values'[o] = IF at \in ValuePlaces(o)
                                         THEN Append(values[o], Value(o)) ELSE values[o]
  <2> TAKE o \in Collected
  <2>1. CASE o = c
    BY <1>1, <1>8, <2>1
  <2>2. CASE o # c
    BY <1>1, <1>3, <1>6, <2>2
  <2> QED
    BY <2>1, <2>2
<1>11. OutFiles' = IF at \in ValuePlaces("o") THEN Append(OutFiles, OutNames[at]) ELSE OutFiles
  BY <1>1, <1>3, <1>6 DEF OutFiles
<1> QED
  BY <1>1, <1>2, <1>6, <1>7, <1>9, <1>10, <1>11, ReadOn

LEMMA SourceFileMeans ==
  ASSUME args \in Seq(Argument), Tame, MeantSoFar, at \in 1..Len(args),
         source_files \in Seq(Path), values \in [Collected -> Seq(Entry)],
         Arg.opt = "" => Arg.value \in Path,
         SourceFile, Arg.opt = ""
  PROVE  MeantSoFar'
<1>1. /\ outcome = "running" /\ \A o \in Awaiting : ~prev_was_dash[o]
      /\ source_files' = Append(source_files, Arg.value) /\ at' = at + 1
      /\ UNCHANGED <<args, prev_was_dash, dash_o_was_set, out_file, values, outcome>>
  BY DEF SourceFile, Reading, Handled
<1>2. \A o \in Awaiting : o # ""
  BY DEF Awaiting, Collected
<1>3. /\ Arg \in Argument /\ at \in FilePlaces /\ \A o \in Awaiting : at \notin ValuePlaces(o)
      /\ FileNames[at] = Arg.value /\ \A o : Meant(o)[at] = Value(o)
  BY <1>1, <1>2, Here
<1>4. "o" \in Awaiting /\ \A o \in Collected : o \in Awaiting
  BY DEF Awaiting
<1>5. \A o \in Awaiting : prev_was_dash'[o] <=> Arg.opt = o /\ Arg.value = ""
  BY <1>1, <1>2
<1>6. OutFiles' = OutFiles
  BY <1>1 DEF OutFiles
<1>7. dash_o_was_set' \/ out_file' = NullPtr
  BY <1>1 DEF MeantSoFar
<1> QED
  BY <1>1, <1>3, <1>4, <1>5, <1>6, <1>7, ReadOn

LEMMA OptionsMeant ==
  ASSUME IInv, args # <<>>, Tame, MeantSoFar, prev_was_dash \in [Awaiting -> BOOLEAN],
         values \in [Collected -> Seq(Entry)],
         OptionsNext, stage' = "options"
  PROVE  MeantSoFar'
<1>1. stage = "options"
  BY DEF OptionsNext, PrintHelp, SetEmitLLVM, DashO, SetOptLevel, Collect, SourceFile,
     EndOfOptions, Reading
<1>2. args \in CommandLines /\ at \in Nat \ {0} /\ source_files \in Seq(Path)
  BY <1>1 DEF IInv, OptionsOK, StateOK
<1>3. args \in Seq(Argument) /\ \A k \in 1..Len(args) : args[k].opt = "" => args[k].value \in Path
  BY <1>2, CommandLinesAssumption DEF Argument
<1>4. Reading => at \in 1..Len(args) /\ (Arg.opt = "" => Arg.value \in Path)
  <2>1. Reading => at <= Len(args)
    BY DEF Reading
  <2>2. Len(args) \in Nat
    BY <1>3, LenProperties
  <2>3. Reading => at \in 1..Len(args)
    BY ONLY <1>2, <2>1, <2>2
  <2> QED
    BY <1>3, <2>3 DEF Arg
<1>5. \A o \in Awaiting : Reading /\ prev_was_dash[o] => Arg.opt \in {"", "-"}
  BY <1>3, <1>4, Here
<1>6. CASE InvalidUsage
  BY <1>6, StopMeans DEF InvalidUsage, options
<1>7. CASE PrintHelp
  BY <1>7, StopMeans DEF PrintHelp, options
<1>8. CASE SetEmitLLVM
  <2>1. Reading /\ Arg.opt = "-emit-llvm" /\ at' = at + 1 /\ outcome = "running"
          /\ UNCHANGED <<args, prev_was_dash, dash_o_was_set, out_file, values, source_files>>
    BY <1>8 DEF SetEmitLLVM, EmitLLVM, Reading
  <2>2. Arg.opt \notin Awaiting \union {""} /\ \A o \in Awaiting : ~prev_was_dash[o]
    BY <1>5, <2>1 DEF Awaiting, Collected
  <2> QED
    BY <1>2, <1>3, <1>4, <2>1, <2>2, NothingRead
<1>9. CASE DashO /\ ~InvalidUsage
  BY <1>2, <1>3, <1>4, <1>9, DashOMeans DEF DashO
<1>10. CASE SetOptLevel /\ ~InvalidUsage
  <2>1. Reading /\ Arg.opt = "O" /\ at' = at + 1 /\ outcome = "running"
          /\ UNCHANGED <<args, prev_was_dash, dash_o_was_set, out_file, values, source_files>>
    BY <1>10 DEF SetOptLevel, DashCapO, Reading
  <2>2. Arg.opt \notin Awaiting \union {""} /\ \A o \in Awaiting : ~prev_was_dash[o]
    BY <1>5, <2>1 DEF Awaiting, Collected
  <2> QED
    BY <1>2, <1>3, <1>4, <2>1, <2>2, NothingRead
<1>11. CASE \E c \in Collected : Collect(c)
  BY <1>2, <1>3, <1>4, <1>11, CollectMeans DEF Collect
<1>12. CASE SourceFile /\ ~InvalidUsage
  <2>1. Arg.opt = "" /\ Reading
    BY <1>12 DEF SourceFile
  <2> QED
    BY <1>2, <1>3, <1>4, <1>12, <2>1, SourceFileMeans
<1>13. CASE EndOfOptions
  <2>1. /\ UNCHANGED <<args, at, prev_was_dash, dash_o_was_set, values, source_files>>
        /\ dash_o_was_set => out_file' = out_file
        /\ outcome' = "no source files"
    BY <1>13 DEF EndOfOptions
  <2> QED
    BY <2>1, StopMeans
<1> QED
  BY <1>6, <1>7, <1>8, <1>9, <1>10, <1>11, <1>12, <1>13 DEF OptionsNext

LEMMA InitMeaning == Init => MeaningInv
<1> SUFFICES ASSUME Init PROVE MeaningInv
  OBVIOUS
<1>1. /\ at = 1 /\ prev_was_dash = [o \in Awaiting |-> FALSE] /\ dash_o_was_set = FALSE
      /\ out_file = NullPtr /\ values = [o \in Collected |-> <<>>] /\ source_files = <<>>
  BY DEF Init, OptionsInit
<1>2. values \in [Collected -> Seq(Entry)]
  BY <1>1
<1>3. \A places, texts : Lists(<<>>, SoFar(places), texts)
  <2> TAKE places, texts
  <2>1. SoFar(places) = {}
    BY <1>1 DEF SoFar
  <2>2. Cardinality(SoFar(places)) = 0 /\ Len(<<>>) = 0
    BY <2>1, FS_EmptySet
  <2> QED
    BY <2>1, <2>2 DEF Lists
<1>4. \A o \in Collected : values[o] = <<>>
  BY <1>1
<1>5. \A o \in Awaiting : prev_was_dash[o] <=> Waits(o)
  BY <1>1 DEF Waits
<1>6. MeantSoFar
  BY <1>1, <1>3, <1>4, <1>5 DEF MeantSoFar, OutFiles
<1> QED
  BY <1>2, <1>6 DEF MeaningInv

LEMMA MeaningStep ==
  ASSUME IInv, Typed, MeaningInv, [Next]_vars
  PROVE  MeaningInv'
<1> SUFFICES ASSUME stage' = "options"
             PROVE  /\ values' \in [Collected -> Seq(Entry)]
                    /\ args' # <<>> /\ Tame' => MeantSoFar'
  BY DEF MeaningInv
<1>1. CASE OptionsNext
  <2>1. stage = "options" /\ args' = args
    BY <1>1, OptionsTyped DEF OptionsNext, PrintHelp, SetEmitLLVM, DashO, SetOptLevel, Collect,
       SourceFile, EndOfOptions, Reading
  <2>2. args \in Seq(Argument) /\ at \in Nat \ {0}
    BY <2>1, CommandLinesAssumption DEF IInv, OptionsOK, Argument
  <2>3. prev_was_dash \in [Awaiting -> BOOLEAN]
    BY DEF Typed, OptionsTypeOK
  <2>4. Tame' = Tame
    BY <2>1, ArgumentsStay
  <2> QED
    BY <1>1, <2>1, <2>2, <2>3, <2>4, ValuesTyped, OptionsMeant DEF MeaningInv
<1>2. CASE UNCHANGED <<options, source_files, stage, outcome>>
  <2>1. UNCHANGED <<args, at, prev_was_dash, dash_o_was_set, out_file, values, source_files,
                    outcome, stage>>
    BY <1>2 DEF options
  <2>2. \A o : Waits(o)' <=> Waits(o)
    BY <2>1 DEF Waits
  <2>3. OutFiles' = OutFiles
    BY <2>1 DEF OutFiles
  <2>4. Tame' = Tame /\ (MeantSoFar => MeantSoFar')
    BY <2>1, <2>2, <2>3, ArgumentsStay DEF MeantSoFar, SoFar
  <2> QED
    BY <2>1, <2>4 DEF MeaningInv
<1>3. ASSUME ~OptionsNext PROVE UNCHANGED <<options, source_files, stage, outcome>>
  <2>1. CASE UNCHANGED vars
    BY <2>1 DEF vars, asked
  <2>2. CASE Ask \/ ReadFile \/ StartCompiling \/ StartTests \/ NextTest
    BY <2>2 DEF Ask, ReadFile, StartCompiling, StartTests, NextTest, At
  <2>3. CASE TestsDone \/ WriteTest \/ WriteOutput \/ Success
    BY <2>3 DEF TestsDone, WriteTest, WriteOutput, Success, At
  <2>4. CASE SetupTargetMachine \/ Tokenize \/ Parse \/ CodegenAndOptimize
    BY <2>4 DEF SetupTargetMachine, Tokenize, Parse, CodegenAndOptimize, At, Throw, Into,
       PrintAnd, FileDone, NextFile
  <2>5. CASE DumpIR \/ Lower \/ KeepModule \/ Link \/ NothingToLink
    BY <2>5 DEF DumpIR, Lower, KeepModule, Link, NothingToLink, At, Throw, Into,
       PrintAnd, FileDone, NextFile, Return
  <2> QED
    BY <1>3, <2>1, <2>2, <2>3, <2>4, <2>5 DEF Next
<1> QED
  BY <1>1, <1>2, <1>3

LEMMA MeaningFollows == IInv /\ Typed /\ MeaningInv => OptionsMeanWhatTheySay
<1> SUFFICES ASSUME IInv, Typed, MeaningInv, stage = "options", at > Len(args),
                    args # <<>>, Tame
             PROVE  /\ Lists(source_files, FilePlaces, FileNames)
                    /\ \A o \in Collected : Lists(values[o], ValuePlaces(o), Meant(o))
                    /\ Lists(OutFiles, ValuePlaces("o"), OutNames)
  BY DEF OptionsMeanWhatTheySay, OutFiles
<1>1. at = Len(args) + 1 /\ Len(args) \in Nat
  BY DEF Typed, OptionsTypeOK
<1>2. \A S \in SUBSET (1..Len(args)) : SoFar(S) = S
  <2>1. 1..(at - 1) = 1..Len(args)
    BY ONLY <1>1
  <2> QED
    BY ONLY <2>1 DEF SoFar
<1>3. FilePlaces \subseteq 1..Len(args) /\ \A o : ValuePlaces(o) \subseteq 1..Len(args)
  BY DEF FilePlaces, ValuePlaces
<1> QED
  BY <1>2, <1>3 DEF MeaningInv, MeantSoFar

LEMMA Always == Spec => [](IInv /\ Typed /\ TestsInv /\ MeaningInv)
<1>1. Init => IInv /\ Typed /\ TestsInv /\ MeaningInv
  BY InitInv, InitTyped, InitTests, InitMeaning
<1>2. (IInv /\ Typed /\ TestsInv /\ MeaningInv) /\ [Next]_vars
        => (IInv /\ Typed /\ TestsInv /\ MeaningInv)'
  BY NextInv, TypedStep, TestsStep, MeaningStep
<1> QED
  BY <1>1, <1>2, PTL DEF Spec

(* For any command lines, any files and any reports: main, runTests and    *)
(* compileAll keep their indices inside their vectors, and never have more *)
(* outputs or modules than source files.                                   *)
THEOREM DriverTypeOK == Spec => []TypeOK
BY Always, TypeFollows, PTL

(* For any tests and any reports, whatever the tests before gave: runTests *)
(* writes what was made of a test to the file of this test.                *)
THEOREM TestsKeepTheirOutput == Spec => []TestsHaveTheirOutput
BY Always, TestsFollow, PTL

(* For command lines of any length: main gives each option the values, and *)
(* compileAll the source files, that a person reads there, unless an       *)
(* option stands where a value is expected.                                *)
THEOREM OptionsAreReadAsMeant == Spec => []OptionsMeanWhatTheySay
BY Always, MeaningFollows, PTL

-----------------------------------------------------------------------------
(* Between two runs for a module the limit has not been used up, and the   *)
(* text that was kept is the text of the module.                           *)
OptimizeInv ==
  /\ OptimizeTypeOK
  /\ pipeline \in [IR -> IR]
  /\ is_first_run <=> runs = 0
  /\ runs = 0 => pre_mod_ir = NoText /\ post_mod_ir = NoText /\ cleanups = 0
  /\ runs > 0 => /\ level = "O3" /\ post_mod_ir = module /\ cleanups = 1
                 /\ n_max_pipeline_runs > 0
                 /\ runs + n_max_pipeline_runs <= Unsigned
  /\ report.cleanups = 1
  /\ UnchangedOrUsedUp

-----------------------------------------------------------------------------
(* The decrement of an unsigned number.                                    *)
LEMMA RunsLeftValue ==
  ASSUME n_max_pipeline_runs \in 0..(Unsigned - 1)
  PROVE  /\ n_max_pipeline_runs > 0 => RunsLeft = n_max_pipeline_runs - 1
         /\ n_max_pipeline_runs = 0 => RunsLeft = Unsigned - 1
         /\ RunsLeft \in 0..(Unsigned - 1)
BY NumbersAssumption DEF RunsLeft

LEMMA OptimizeInitInv == OptimizeInit => OptimizeInv
BY NumbersAssumption, MaxRunsAssumption
   DEF OptimizeInit, OptimizeInv, OptimizeTypeOK, UnchangedOrUsedUp

LEMMA RunAgainInv ==
  ASSUME OptimizeInv, RunAgain
  PROVE  OptimizeInv'
<1>1. /\ n_max_pipeline_runs \in 0..(Unsigned - 1) /\ Unsigned \in Nat
      /\ runs \in Nat /\ pipeline[module] \in IR
  BY NumbersAssumption DEF OptimizeInv, OptimizeTypeOK
<1>2. /\ level = "O3" /\ RunsLeft # 0 /\ PreIR # PostIR
      /\ done \in 0..Modules /\ UNCHANGED <<pipeline, level, done, report>>
  BY DEF RunAgain, Again, OptimizeInv, OptimizeTypeOK
<1>3. n_max_pipeline_runs > 1
  <2>1. CASE n_max_pipeline_runs = 0
    <3>1. runs = 0
      BY <1>1, <2>1 DEF OptimizeInv
    <3>2. PreIR = PostIR
      BY <2>1, <3>1 DEF OptimizeInv, PreIR, PostIR, Compared
    <3> QED
      BY <1>2, <3>2
  <2>2. CASE n_max_pipeline_runs = 1
    BY <1>1, <1>2, <2>2, RunsLeftValue
  <2> QED
    BY <1>1, <2>1, <2>2
<1>4. RunsLeft = n_max_pipeline_runs - 1
  BY <1>1, <1>3, RunsLeftValue
<1>5. n_max_pipeline_runs' = n_max_pipeline_runs - 1 /\ runs' = runs + 1
  BY <1>4 DEF RunAgain
<1>6. PreIR = post_mod_ir /\ PostIR = pipeline[module]
  BY <1>2, <1>3 DEF PreIR, PostIR, Compared
<1>7. /\ module' = pipeline[module] /\ pre_mod_ir' = post_mod_ir
      /\ post_mod_ir' = pipeline[module] /\ is_first_run' = FALSE
  BY <1>6 DEF RunAgain
<1>8. cleanups' = 1
  BY <1>1 DEF RunAgain, Cleanups, OptimizeInv
<1>9. runs' + n_max_pipeline_runs' <= Unsigned
  BY <1>1, <1>5 DEF OptimizeInv
<1>10. OptimizeTypeOK'
  <2>1. runs' \in 0..Unsigned /\ n_max_pipeline_runs' \in 0..(Unsigned - 1)
    BY <1>1, <1>3, <1>5, <1>9
  <2>2. post_mod_ir \in IR \union {NoText}
    BY DEF OptimizeInv, OptimizeTypeOK
  <2>3. module' \in IR /\ pre_mod_ir' \in IR \union {NoText}
    BY <1>1, <1>7, <2>2
  <2>4. post_mod_ir' \in IR \union {NoText}
    BY <1>1, <1>7
  <2>5. done' \in 0..Modules
    BY <1>2
  <2>6. is_first_run' \in BOOLEAN
    BY <1>7
  <2>7. cleanups' \in 0..1
    BY <1>8
  <2> QED
    BY <2>1, <2>3, <2>4, <2>5, <2>6, <2>7 DEF OptimizeTypeOK
<1>11. UnchangedOrUsedUp'
  BY <1>1, <1>5 DEF UnchangedOrUsedUp
<1> QED
  BY <1>1, <1>2, <1>3, <1>5, <1>7, <1>8, <1>9, <1>10, <1>11 DEF OptimizeInv

(* A comparison with a text that has not been taken yet never says that    *)
(* nothing has changed.                                                    *)
LEMMA LastRunInv ==
  ASSUME OptimizeInv, LastRun
  PROVE  OptimizeInv'
<1>1. /\ n_max_pipeline_runs \in 0..(Unsigned - 1) /\ Unsigned \in Nat
      /\ runs \in Nat /\ pipeline[module] \in IR
  BY NumbersAssumption DEF OptimizeInv, OptimizeTypeOK
<1>2. /\ ~Again /\ n_max_pipeline_runs' = RunsLeft /\ module' \in IR
      /\ pre_mod_ir' = NoText /\ post_mod_ir' = NoText /\ is_first_run' = TRUE
      /\ runs' = 0 /\ cleanups' = 0 /\ UNCHANGED <<pipeline, level>>
      /\ report' = [changed |-> pipeline[module] # module,
                    runs |-> runs + 1, cleanups |-> Cleanups]
  BY DEF LastRun
<1>3. done' \in 0..Modules
  BY NumbersAssumption DEF LastRun, OptimizeInv, OptimizeTypeOK
<1>4. report'.cleanups = 1
  BY <1>1, <1>2 DEF Cleanups, OptimizeInv
<1>5. OptimizeTypeOK'
  BY <1>1, <1>2, <1>3, RunsLeftValue DEF OptimizeTypeOK
<1>6. ASSUME pipeline[module] # module, level = "O3"
      PROVE  RunsLeft \in {0, Unsigned - 1}
  <2>1. CASE n_max_pipeline_runs <= 1
    BY <1>1, <2>1, RunsLeftValue
  <2>2. CASE n_max_pipeline_runs > 1
    <3>1. PreIR = post_mod_ir /\ PostIR = pipeline[module]
      BY <1>6, <2>2 DEF PreIR, PostIR, Compared
    <3>2. post_mod_ir # pipeline[module]
      BY <1>1, <1>6, IRAssumption DEF OptimizeInv
    <3> QED
      BY <1>2, <1>6, <3>1, <3>2 DEF Again
  <2> QED
    BY <1>1, <2>1, <2>2
<1>7. UnchangedOrUsedUp'
  BY <1>2, <1>6 DEF UnchangedOrUsedUp
<1> QED
  BY <1>1, <1>2, <1>4, <1>5, <1>7 DEF OptimizeInv

LEMMA OptimizeNextInv == OptimizeInv /\ [OptimizeNext]_optimizing => OptimizeInv'
<1> SUFFICES ASSUME OptimizeInv, [OptimizeNext]_optimizing PROVE OptimizeInv'
  OBVIOUS
<1>1. CASE UNCHANGED optimizing
  BY <1>1 DEF optimizing, OptimizeInv, OptimizeTypeOK, UnchangedOrUsedUp
<1> QED
  BY <1>1, RunAgainInv, LastRunInv DEF OptimizeNext

LEMMA OptimizeInvariance == OptimizeSpec => []OptimizeInv
<1> QED
  BY OptimizeInitInv, OptimizeNextInv, PTL DEF OptimizeSpec

-----------------------------------------------------------------------------
(* The loop keeps its state well typed: no module is run through the       *)
(* pipeline more often than an unsigned number can count.                  *)
THEOREM OptimizerTypeOK == OptimizeSpec => []OptimizeTypeOK
<1>1. OptimizeInv => OptimizeTypeOK
  BY DEF OptimizeInv
<1> QED
  BY OptimizeInvariance, <1>1, PTL

(* batchOptimizeModules leaves a module it optimizes with O3 when a run    *)
(* changed nothing or the limit, shared by all modules, is used up.        *)
THEOREM OptimizerUnchangedOrUsedUp == OptimizeSpec => []UnchangedOrUsedUp
<1>1. OptimizeInv => UnchangedOrUsedUp
  BY DEF OptimizeInv
<1> QED
  BY OptimizeInvariance, <1>1, PTL

(* CleanupPass runs once for every module, whatever happened to the limit. *)
THEOREM OptimizerCleanedOnce == OptimizeSpec => []CleanedOnce
<1>1. OptimizeInv => CleanedOnce
  BY DEF OptimizeInv, CleanedOnce
<1> QED
  BY OptimizeInvariance, <1>1, PTL
=============================================================================
