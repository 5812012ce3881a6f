------------------------------- MODULE Driver -------------------------------
(***************************************************************************)
(* The driver of source/main.cpp: main reads the command line (Arguments)  *)
(* and the source files, compileAll takes them one after the other through *)
(* the tokenizer, the parser, the code generator, the optimizer and the    *)
(* lowering, and main writes what it returns.  Without arguments runTests  *)
(* does the same with each file of a directory.                            *)
(*                                                                         *)
(* What the stages make of a file is chosen in advance (`verdict`): the    *)
(* errors and warnings they report.  A text is the path it was read from.  *)
(* main and runTests only ever ask for an assembly file; compileAll is     *)
(* modelled for every CompilerOutKind it has branches for.                 *)
(***************************************************************************)
EXTENDS Arguments

CONSTANTS
  Path,      (* the paths of source files                                  *)
  OutPath    (* out_filename, the name of a linked output                  *)

ASSUME PathAssumption == OutPath \notin Path
ASSUME CommandLinesAssumption ==
  /\ CommandLines \subseteq Seq([opt : STRING, value : STRING])
  /\ \A a \in CommandLines : \A k \in 1..Len(a) : a[k].opt = "" => a[k].value \in Path

PerFile  == {"tokens", "ast", "llvm_ir", "optimized_llvm_ir", "asm_", "obj", "bitcode"}
Combined == {"combined_obj", "exe"}
OutKind  == PerFile \union Combined
LTOKind  == {"none", "full", "thin"}

(* What is reported about a file: pr_errors, cg_errs and cg_warns.         *)
Verdict == [pr_errors : BOOLEAN, cg_errs : BOOLEAN, cg_warns : BOOLEAN]

Freed == "freed"   (* memory that has been given back                      *)

VARIABLES
  out_kind, lto_kind, verdict,   (* what is asked for, and of which files  *)
  tests,     (* the files runTests has still to compile                    *)
  files,     (* the SourceFileInfos that have been read                    *)
  i,         (* the file compileAll is at                                  *)
  optimized, (* its module went through the optimizer                      *)
  printed,   (* the paths whose errors and warnings have been printed      *)
  modules,   (* the modules kept for linking                               *)
  outs,      (* the OutFileInfos                                           *)
  disk,      (* what is in the files                                       *)
  test_out   (* what runTests has written, per test                        *)

asked  == <<options, source_files, out_kind, lto_kind, verdict>>
result == <<printed, modules, outs>>
vars   == <<asked, stage, outcome, tests, files, i, optimized, result, disk, test_out>>

NoReports == [pr_errors |-> FALSE, cg_errs |-> FALSE, cg_warns |-> FALSE]
Source(p) == [of |-> p, code |-> p, what |-> "source", optimized |-> FALSE]
Nothing   == [of |-> OutPath, code |-> OutPath, what |-> "nothing", optimized |-> FALSE]

Init ==
  /\ OptionsInit
  /\ out_kind = "asm_" /\ lto_kind = "none" /\ verdict = [p \in Path |-> NoReports]
  /\ tests = {} /\ files = <<>> /\ i = 1 /\ optimized = FALSE
  /\ printed = <<>> /\ modules = <<>> /\ outs = <<>>
  /\ disk = [p \in Path \union {OutPath} |-> Source(p)]
  /\ test_out = [p \in Path |-> Nothing]

At(s) == outcome = "running" /\ stage = s
Left  == i <= Len(source_files)
Testing == args = <<>>

VerdictsOn(paths) ==
  {v \in [Path -> Verdict] : \A p \in Path \ paths : v[p] = NoReports}

-----------------------------------------------------------------------------
(* What is asked for.                                                      *)
Ask ==
  /\ At("asked")
  /\ ForgetOptions
  /\ out_kind' \in OutKind
  /\ lto_kind' \in IF out_kind' \in Combined THEN LTOKind ELSE {"none"}
  /\ verdict' \in VerdictsOn(ToSet(source_files))
  /\ stage' = "reading"
  /\ UNCHANGED <<source_files, outcome, tests, files, i, optimized, result, disk, test_out>>

(* No arguments: runTests, over a directory in which any files may be.     *)
StartTests ==
  /\ At("options") /\ Testing
  /\ \E S \in SUBSET Path : tests' = S /\ verdict' \in VerdictsOn(S)
  /\ stage' = "tests"
  /\ UNCHANGED <<options, source_files, out_kind, lto_kind, outcome, files, i, optimized,
                 result, disk, test_out>>

(* The files of a directory come in any order.  The content of a test      *)
(* lives as long as it is compiled.                                        *)
NextTest ==
  /\ At("tests")
  /\ \E p \in tests :
       /\ tests' = tests \ {p} /\ source_files' = <<p>>
       /\ files' = <<[file |-> p, code |-> p]>>
  /\ stage' = "setup" /\ i' = 1
  /\ printed' = <<>> /\ modules' = <<>> /\ outs' = <<>>
  /\ UNCHANGED <<options, out_kind, lto_kind, verdict, outcome, optimized, disk, test_out>>

TestsDone ==
  /\ At("tests") /\ tests = {}
  /\ outcome' = "success"
  /\ UNCHANGED <<asked, stage, tests, files, i, optimized, result, disk, test_out>>

(* The content of a file is a local variable of the loop that reads it, of *)
(* which files keeps the address: what is there when the loop goes on is   *)
(* the content of the next file, or anything.                              *)
ReadFile ==
  /\ At("reading") /\ Len(files) < Len(source_files)
  /\ LET path == source_files[Len(files) + 1]
     IN  \E was \in {Freed, path} :
           files' = Append([k \in 1..Len(files) |-> [files[k] EXCEPT !.code = was]],
                           [file |-> path, code |-> path])
  /\ UNCHANGED <<asked, stage, outcome, tests, i, optimized, result, disk, test_out>>

StartCompiling ==
  /\ At("reading") /\ Len(files) = Len(source_files)
  /\ \E kept \in BOOLEAN :
       files' = [k \in 1..Len(files) |->
                   IF kept THEN files[k] ELSE [files[k] EXCEPT !.code = Freed]]
  /\ stage' = "setup"
  /\ UNCHANGED <<asked, outcome, tests, i, optimized, result, disk, test_out>>

Quiet == UNCHANGED <<asked, tests, files, disk, test_out>>
Throw(why) == outcome' = why /\ UNCHANGED <<stage, i, optimized, result>>

(* setupTargetMachine: LLVM may not know the target of the host.           *)
SetupTargetMachine ==
  /\ At("setup")
  /\ \/ stage' = "file" /\ UNCHANGED <<outcome, i, optimized, result>>
     \/ Throw("critical failure")
  /\ Quiet

-----------------------------------------------------------------------------
File == files[i].file
Reports == verdict[File]
Clean == Reports = NoReports
Content(what) == [of |-> File, code |-> files[i].code, what |-> what, optimized |-> optimized]

NextFile == i' = i + 1 /\ stage' = "file" /\ optimized' = FALSE
Into(s)  == stage' = s /\ UNCHANGED <<outcome, i, optimized, result>>

(* COMPILE_ALL_FILE_DONE: the output has the path of the source file.      *)
FileDone(what) ==
  /\ outs' = Append(outs, [file |-> File, content |-> Content(what)])
  /\ NextFile
  /\ UNCHANGED <<modules, outcome>>

(* printErrorsAndWarnings; Diagnostics shows that it may throw for every   *)
(* file about which something is reported.                                 *)
PrintAnd(what, reported) ==
  \/ /\ FileDone(what)
     /\ printed' = IF reported THEN Append(printed, File) ELSE printed
  \/ reported /\ Throw("out of range")

(* What the tokenizer does is undefined for some files (Lexer).            *)
Tokenize ==
  /\ At("file") /\ Left
  /\ \/ Throw("undefined")
     \/ IF out_kind = "tokens" THEN FileDone("tokens") /\ UNCHANGED printed
        ELSE Into("tokenized")
  /\ Quiet

(* The parser and the code generator may end the program (the crashes of   *)
(* Parser and Codegen), and the parser may never return: a statement that  *)
(* is given up before it consumed a token is parsed again and again.       *)
Parse ==
  /\ At("tokenized")
  /\ \/ \E why \in {"internal error", "undefined"} : Throw(why)
     \/ Into("stalled")
     \/ IF out_kind = "ast" THEN PrintAnd("ast", Reports.pr_errors) ELSE Into("parsed")
  /\ Quiet

(* Mutant: the state of the file before is kept.                           *)
OptimizeOnce ==
  /\ At("parsed")
  /\ \/ Throw("internal error")
     \/ /\ optimized' = (out_kind # "llvm_ir" /\ Clean /\ outs = <<>>)
        /\ stage' = "generated"
        /\ UNCHANGED <<outcome, i, result>>
  /\ Quiet

(* codegen, and optimizeModule unless something was reported.              *)
CodegenAndOptimize ==
  /\ At("parsed")
  /\ \/ Throw("internal error")
     \/ /\ optimized' = (out_kind # "llvm_ir" /\ Clean)
        /\ stage' = "generated"
        /\ UNCHANGED <<outcome, i, result>>
  /\ Quiet

DumpIR ==
  /\ At("generated")
  /\ out_kind \in {"llvm_ir", "optimized_llvm_ir"} \/ ~Clean
  /\ PrintAnd("llvm_ir", ~Clean)
  /\ Quiet

(* lowerModuleToFormatNoLinking.  Only bitcode is written without asking   *)
(* the target machine and the verifier.                                    *)
Lower ==
  /\ At("generated") /\ Clean /\ out_kind \in {"asm_", "obj", "bitcode"}
  /\ \/ FileDone(out_kind) /\ UNCHANGED printed
     \/ out_kind # "bitcode" /\ Throw("irrecoverable exception")
  /\ Quiet

KeepModule ==
  /\ At("generated") /\ Clean /\ out_kind \in Combined
  /\ modules' = Append(modules, Content("module"))
  /\ NextFile
  /\ UNCHANGED <<outcome, printed, outs>>
  /\ Quiet

-----------------------------------------------------------------------------
(* Mutant: the outputs are counted from zero.                              *)
ReturnFromZero == stage' = "writing" /\ i' = 0

Return == stage' = "writing" /\ i' = 1

(* lowerModulesToFormatNoLTO for a combined_obj: the modules are linked,   *)
(* unless two define the same function, the callback optimizes the linked  *)
(* module (lto_kind full), and it is lowered as one object.  A module that *)
(* was kept has outlived the LLVMContext of its file's ctx, so that        *)
(* linking it is undefined.                                                *)
Linked == [of |-> OutPath, code |-> OutPath, what |-> "linked", optimized |-> lto_kind = "full"]
LinkErrors == {"undefined", "cross-module linking failed", "irrecoverable exception"}

(* External libraries (exe) are not implemented.                           *)
Link ==
  /\ At("file") /\ ~Left /\ out_kind \in Combined
  /\ IF outs # <<>> THEN Throw("unreachable: outs should be empty")
     ELSE IF lto_kind = "thin" THEN Throw("thin lto not yet supported")
     ELSE \/ \E why \in LinkErrors : Throw(why)
          \/ out_kind = "exe" /\ Throw("not implemented")
          \/ /\ out_kind = "combined_obj"
             /\ outs' = <<[file |-> OutPath, content |-> Linked]>> /\ modules' = <<>>
             /\ Return /\ UNCHANGED <<outcome, optimized, printed>>
  /\ Quiet

NothingToLink ==
  /\ At("file") /\ ~Left /\ out_kind \in PerFile
  /\ Return
  /\ UNCHANGED <<outcome, optimized, result>>
  /\ Quiet

(* Mutant: the loop does not go on to the next output.                     *)
WriteAgain ==
  /\ At("writing") /\ ~Testing /\ i <= Len(outs)
  /\ disk' = [disk EXCEPT ![outs[i].file] = outs[i].content]
  /\ UNCHANGED <<asked, stage, outcome, tests, files, i, optimized, result, test_out>>

WriteOutput ==
  /\ At("writing") /\ ~Testing /\ i <= Len(outs)
  /\ disk' = [disk EXCEPT ![outs[i].file] = outs[i].content]
  /\ i' = i + 1
  /\ UNCHANGED <<asked, stage, outcome, tests, files, optimized, result, test_out>>

Success ==
  /\ At("writing") /\ ~Testing /\ i > Len(outs)
  /\ outcome' = "success"
  /\ UNCHANGED <<asked, stage, tests, files, i, optimized, result, disk, test_out>>

(* Mutant: the test is written where main would write it.                  *)
WriteTestInPlace ==
  /\ At("writing") /\ Testing
  /\ disk' = [disk EXCEPT ![outs[1].file] = outs[1].content]
  /\ stage' = "tests"
  /\ UNCHANGED <<asked, outcome, tests, files, i, optimized, result, test_out>>

(* runTests takes the first output, and its own name for it.               *)
WriteTest ==
  /\ At("writing") /\ Testing
  /\ IF outs = <<>> THEN outcome' = "out of range" /\ UNCHANGED <<stage, test_out>>
     ELSE /\ test_out' = [test_out EXCEPT ![source_files[1]] = outs[1].content]
          /\ stage' = "tests" /\ UNCHANGED outcome
  /\ UNCHANGED <<asked, tests, files, i, optimized, result, disk>>

Next ==
  \/ OptionsNext /\ UNCHANGED <<out_kind, lto_kind, verdict, tests, files, i, optimized,
                                result, disk, test_out>>
  \/ Ask \/ ReadFile \/ StartCompiling
  \/ StartTests \/ NextTest \/ TestsDone \/ WriteTest
  \/ SetupTargetMachine
  \/ Tokenize \/ Parse \/ CodegenAndOptimize \/ DumpIR \/ Lower \/ KeepModule
  \/ Link \/ NothingToLink \/ WriteOutput \/ Success

Spec == Init /\ [][Next]_vars

(* Nothing in the driver waits for anything else.                          *)
FairSpec == Spec /\ WF_vars(Next)

-----------------------------------------------------------------------------
Compiling == {"reading", "setup", "file", "tokenized", "stalled", "parsed", "generated"}

TypeOK ==
  /\ OptionsTypeOK
  /\ files \in Seq([file : Path, code : Path \union {Freed}])
  /\ i \in 1..(Len(source_files) + 1) /\ optimized \in BOOLEAN
  /\ stage \in Compiling \union {"options", "asked", "tests", "writing"}
  /\ Len(outs) <= Len(source_files) /\ Len(modules) <= Len(source_files)
  /\ \A k \in 1..Len(outs) : outs[k].file \in Path \union {OutPath}
  /\ printed \in Seq(Path) /\ tests \subseteq Path

(* compileAll keeps the promises of Compiler: whatever is asked for and    *)
(* whatever is reported about the other files, each file gives the result  *)
(* that is due, machine code and linked modules are only made of optimized *)
(* modules about which nothing was reported, reports are printed before    *)
(* anything of the file is returned, and nothing is linked if a module is  *)
(* missing.                                                                *)
ResultOf(c)   == [of |-> c.of, what |-> c.what, optimized |-> c.optimized]
OutResults    == [k \in 1..Len(outs) |-> ResultOf(outs[k].content)]
ModuleResults == [k \in 1..Len(modules) |-> ResultOf(modules[k])]
Request ==
  IF stage \notin Compiling THEN [files |-> <<>>]
  ELSE [files |-> source_files, kind |-> out_kind,
        reports |-> [k \in 1..Len(source_files) |-> verdict[source_files[k]]]]
Status == IF outcome = "running" THEN "running" ELSE "ended"
CompileAll == INSTANCE Compiler WITH
  request <- Request, outs <- OutResults, modules <- ModuleResults, status <- Status
ImplementsCompiler == CompileAll!Spec

(* The driver comes to an end, whatever is asked for and reported, unless  *)
(* the parser does not return.                                             *)
EndsUnlessParserStalls == <>(outcome # "running" \/ stage = "stalled")

(* The tests that have been run each have their own assembly or IR in the  *)
(* file that belongs to them, made of what was in the test, and the test   *)
(* is left as it was.                                                      *)
TestsHaveTheirOutput ==
  Testing /\ stage = "tests" /\ source_files # <<>> =>
    \A p \in Path :
      /\ disk[p] = Source(p)
      /\ test_out[p] # Nothing =>
           /\ p \notin tests
           /\ test_out[p].of = p /\ test_out[p].code = p
           /\ test_out[p].what = IF verdict[p] = NoReports THEN "asm_" ELSE "llvm_ir"

(* message_strings.hpp:8: "Specifies the name of the output file".  No     *)
(* other file is written, least of all a source file.                      *)
SourcesAreKept == \A p \in Path : disk[p] = Source(p)
=============================================================================
