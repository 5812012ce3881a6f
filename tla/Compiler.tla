------------------------------ MODULE Compiler ------------------------------
(***************************************************************************)
(* What compileAll of source/main.cpp promises, without how: each file of  *)
(* a call gives one result, in the order of the files, and what it is      *)
(* depends on the kind of output that is asked for and on the reports      *)
(* about this file, on nothing else.  A file is compiled in one step.      *)
(***************************************************************************)
EXTENDS Integers, Sequences

VARIABLES
  request,   (* the call that is being answered, or NoRequest              *)
  outs,      (* the outputs, in order                                      *)
  modules,   (* the modules that wait to be linked                         *)
  printed,   (* the files whose reports have been printed                  *)
  status

vars == <<request, outs, modules, printed, status>>

NoRequest == [files |-> <<>>]

Init ==
  /\ request = NoRequest
  /\ outs = <<>> /\ modules = <<>> /\ printed = <<>>
  /\ status = "running"

-----------------------------------------------------------------------------
Kind    == request.kind
Turn    == Len(outs) + Len(modules) + 1   (* the number of the next file   *)
File    == request.files[Turn]
Reports == request.reports[Turn]

(* The reports of the parser come with its tree, those of the code         *)
(* generator with the module; tokens come without any.                     *)
Reported == Reports.pr_errors \/ (Kind # "ast" /\ (Reports.cg_errs \/ Reports.cg_warns))
IsLinked == Kind \in {"combined_obj", "exe"}

(* What the file gives: the LLVM IR in place of machine code if something  *)
(* was reported about it, and then it has not been optimized.              *)
What ==
  IF Kind \in {"tokens", "ast"} THEN Kind
  ELSE IF Reported \/ Kind = "optimized_llvm_ir" THEN "llvm_ir"
  ELSE IF IsLinked THEN "module" ELSE Kind
Optimized == Kind \notin {"tokens", "ast", "llvm_ir"} /\ ~Reported
Result    == [of |-> File, what |-> What, optimized |-> Optimized]

Call ==
  /\ status = "running" /\ request = NoRequest /\ request'.files # <<>>
  /\ outs' = <<>> /\ modules' = <<>> /\ printed' = <<>>
  /\ UNCHANGED status

CompileFile ==
  /\ status = "running" /\ request # NoRequest /\ Turn <= Len(request.files)
  /\ IF What = "module"
       THEN modules' = Append(modules, Result) /\ UNCHANGED <<outs, printed>>
       ELSE /\ outs' = Append(outs, Result)
            /\ printed' = IF Kind # "tokens" /\ Reported THEN Append(printed, File) ELSE printed
            /\ UNCHANGED modules
  /\ UNCHANGED <<request, status>>

(* All files are compiled, and linked if that is asked for, which needs a  *)
(* module of every file.                                                   *)
Answer ==
  /\ status = "running" /\ request # NoRequest /\ Turn > Len(request.files)
  /\ IF IsLinked THEN /\ Len(modules) = Len(request.files) /\ modules' = <<>>
                      /\ Len(outs') = 1 /\ outs'[1].what = "linked"
     ELSE UNCHANGED <<outs, modules>>
  /\ request' = NoRequest
  /\ UNCHANGED <<printed, status>>

(* The program may end at any time, and then leaves everything as it is.   *)
End ==
  /\ status = "running" /\ status' = "ended"
  /\ UNCHANGED <<request, outs, modules, printed>>

Next == Call \/ CompileFile \/ Answer \/ End

Spec == Init /\ [][Next]_vars
=============================================================================
