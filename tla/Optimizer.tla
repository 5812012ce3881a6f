----------------------------- MODULE Optimizer -----------------------------
(***************************************************************************)
(* codegen::batchOptimizeModules of source/LLVMCodeGen/optimization.cpp;   *)
(* codegen::optimizeModule is the same loop for one module.  LLVM's        *)
(* pipeline is some function on the texts of modules.                      *)
(***************************************************************************)
EXTENDS Integers, Sequences

CONSTANTS
  Modules,   (* the number of modules                                      *)
  MaxRuns,   (* n_max_pipeline_runs, an unsigned number                    *)
  Unsigned,  (* the modulus of unsigned numbers                            *)
  IR         (* what the text of a module can be                           *)

ASSUME NumbersAssumption == Modules \in Nat \ {0} /\ Unsigned \in Nat
ASSUME MaxRunsAssumption == MaxRuns \in 1..(Unsigned - 1)

OptLevel == {"O0", "O1", "O2", "Os", "Oz", "O3"}
NoText   == "no text"
ASSUME IRAssumption == NoText \notin IR

VARIABLES
  pipeline, level,      (* level is the parameter opt_level               *)
  module,               (* the text of the module that is optimized        *)
  n_max_pipeline_runs, is_first_run, pre_mod_ir, post_mod_ir,
  done,                 (* the number of modules that are finished         *)
  runs,                 (* history: of the pipeline, for this module       *)
  cleanups,             (* history: of CleanupPass, for this module        *)
  report                (* history: of the module that was finished last   *)

optimizing == <<pipeline, level, module, n_max_pipeline_runs, is_first_run,
               pre_mod_ir, post_mod_ir, done, runs, cleanups, report>>

OptimizeInit ==
  /\ pipeline \in [IR -> IR] /\ level \in OptLevel
  /\ module \in IR
  /\ n_max_pipeline_runs = MaxRuns
  /\ is_first_run = TRUE /\ pre_mod_ir = NoText /\ post_mod_ir = NoText
  /\ done = 0 /\ runs = 0 /\ cleanups = 0
  /\ report = [changed |-> FALSE, runs |-> 1, cleanups |-> 1]

(* Mutant: n_max_pipeline_runs is a signed number.                         *)
RunsLeftSigned == n_max_pipeline_runs - 1

RunsLeft == (n_max_pipeline_runs - 1) % Unsigned
Compared == level = "O3" /\ n_max_pipeline_runs > 1
PreIR    == IF Compared THEN post_mod_ir ELSE pre_mod_ir
(* Mutant: the text after the run is not kept.                             *)
PostIRUnwritten == post_mod_ir

PostIR   == IF Compared THEN pipeline[module] ELSE post_mod_ir
Again    == level = "O3" /\ RunsLeft # 0 /\ PreIR # PostIR
Cleanups == IF is_first_run THEN cleanups + 1 ELSE cleanups

(* One run of the pipeline after which there is another one.               *)
RunAgain ==
  /\ done < Modules /\ Again
  /\ module' = pipeline[module]
  /\ pre_mod_ir' = PreIR /\ post_mod_ir' = PostIR
  /\ n_max_pipeline_runs' = RunsLeft
  /\ is_first_run' = FALSE
  /\ runs' = runs + 1 /\ cleanups' = Cleanups
  /\ UNCHANGED <<pipeline, level, done, report>>

(* The last run for a module, and the beginning of the next one.           *)
LastRun ==
  /\ done < Modules /\ ~Again
  /\ report' = [changed |-> pipeline[module] # module,
                runs |-> runs + 1, cleanups |-> Cleanups]
  /\ module' \in IR
  /\ pre_mod_ir' = NoText /\ post_mod_ir' = NoText
  /\ n_max_pipeline_runs' = RunsLeft
  /\ is_first_run' = TRUE
  /\ done' = done + 1 /\ runs' = 0 /\ cleanups' = 0
  /\ UNCHANGED <<pipeline, level>>

OptimizeNext == RunAgain \/ LastRun

OptimizeSpec == OptimizeInit /\ [][OptimizeNext]_optimizing

-----------------------------------------------------------------------------
OptimizeTypeOK ==
  /\ module \in IR /\ n_max_pipeline_runs \in 0..(Unsigned - 1)
  /\ pre_mod_ir \in IR \union {NoText} /\ post_mod_ir \in IR \union {NoText}
  /\ is_first_run \in BOOLEAN /\ done \in 0..Modules
  /\ runs \in 0..Unsigned /\ cleanups \in 0..1

(* Whatever has been left over of the limit, or has wrapped around, from   *)
(* the modules before it, a module that is optimized with O3 is finished   *)
(* when a run changed nothing, or the limit is used up and may have just   *)
(* wrapped around.                                                         *)
UnchangedOrUsedUp ==
  (report.changed /\ level = "O3" /\ runs = 0) =>
     n_max_pipeline_runs \in {0, Unsigned - 1}

(* CleanupPass runs once for every module, before its first pipeline run.  *)
CleanedOnce == report.cleanups = 1 /\ (runs > 0 => cleanups = 1)
=============================================================================
