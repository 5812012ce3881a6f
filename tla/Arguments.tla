------------------------------ MODULE Arguments ------------------------------
(***************************************************************************)
(* The loop of main (source/main.cpp) over the command line.  Each branch  *)
(* of its chain of ifs is an action, guarded by the branches before it.    *)
(*                                                                         *)
(* An argument is a record: `opt` is the option it begins with ("" for one *)
(* that does not begin with a dash, "-" for a dash alone, "?" for an       *)
(* unknown option) and `value` what follows the option in the argument, or *)
(* the whole argument without one.  `-o x` is two arguments, `-ox` one.    *)
(* Of what follows -O only the first character is represented.             *)
(* The empty argument is left out.  Driver goes on where the loop ends.    *)
(***************************************************************************)
EXTENDS Integers, Sequences, FiniteSets, SequencesExt

CONSTANT CommandLines   (* sequences of arguments                          *)

Plain(v)  == [opt |-> "", value |-> v]
Bare(o)   == [opt |-> o, value |-> ""]
NullPtr   == [opt |-> "null", value |-> ""]
Levels    == {"0", "1", "2", "s", "z", "3"}
Collected == {"l", "I", "J"}   (* the options that may be repeated         *)
Awaiting  == {"o"} \union Collected

VARIABLES
  args, at,
  prev_was_dash,   (* per option: its value is the next argument           *)
  dash_o_was_set, out_file,
  opt_level, opt_level_has_been_set,
  values,   (* link_dynamic_libs, user_include_paths, sys_include_paths    *)
  source_files,
  stage, outcome   (* shared with Driver                                   *)

options == <<args, at, prev_was_dash, dash_o_was_set, out_file, opt_level,
             opt_level_has_been_set, values>>

OptionsInit ==
  /\ args \in CommandLines /\ at = 1
  /\ prev_was_dash = [o \in Awaiting |-> FALSE]
  /\ dash_o_was_set = FALSE /\ out_file = NullPtr
  /\ opt_level = "1" /\ opt_level_has_been_set = FALSE
  /\ values = [o \in Collected |-> <<>>]
  /\ source_files = <<>> /\ stage = "options" /\ outcome = "running"

(* The options are not read any more: the command line may have been one   *)
(* of source files alone.                                                  *)
ForgetOptions ==
  /\ args' = [k \in 1..Len(source_files) |-> Plain(source_files[k])] /\ at' = 1
  /\ prev_was_dash' = [o \in Awaiting |-> FALSE]
  /\ dash_o_was_set' = FALSE /\ out_file' = NullPtr
  /\ opt_level' = "1" /\ opt_level_has_been_set' = FALSE
  /\ values' = [o \in Collected |-> <<>>]

-----------------------------------------------------------------------------
Arg == args[at]
Attached == Arg.value # ""
Reading  == outcome = "running" /\ stage = "options" /\ args # <<>> /\ at <= Len(args)

Help         == Arg.opt \in {"-h", "--help"}
EmitLLVM     == Arg.opt = "-emit-llvm"
Handled(o)   == Arg.opt = o \/ prev_was_dash[o]
DashCapO     == Arg.opt = "O" /\ Attached

(* Mutant: the option is not cut off its value.                            *)
ValueWhole(o) == Arg

(* What a branch takes as the value of its option: the rest of the         *)
(* argument that is the option itself, or the argument behind it.          *)
Value(o) == IF Arg.opt = o THEN Plain(Arg.value) ELSE Arg

InvalidUsage == outcome' = "invalid usage" /\ UNCHANGED <<options, source_files>>

PrintHelp ==
  /\ Reading /\ Help
  /\ outcome' = "help"
  /\ UNCHANGED <<options, source_files, stage>>

(* emit_llvm is set and not read.                                          *)
SetEmitLLVM ==
  /\ Reading /\ EmitLLVM
  /\ at' = at + 1
  /\ UNCHANGED <<args, prev_was_dash, dash_o_was_set, out_file, opt_level,
                 opt_level_has_been_set, values, source_files, stage, outcome>>

Repeated ==
  IF Arg.opt = "o" THEN prev_was_dash["o"] \/ (Attached /\ dash_o_was_set)
  ELSE dash_o_was_set

(* -o, and what is behind it: a dash stands for no file.                   *)
DashO ==
  /\ Reading /\ ~Help /\ ~EmitLLVM /\ Handled("o")
  /\ IF Repeated THEN InvalidUsage
     ELSE LET awaits == Arg.opt = "o" /\ ~Attached
          IN  /\ prev_was_dash' = [prev_was_dash EXCEPT !["o"] = awaits]
              /\ dash_o_was_set' = (dash_o_was_set \/ ~awaits)
              /\ out_file' = IF awaits \/ Value("o") \in {Bare("-"), Plain("-")} THEN out_file
                             ELSE Value("o")
              /\ at' = at + 1
              /\ UNCHANGED <<args, opt_level, opt_level_has_been_set, values,
                             source_files, outcome>>
  /\ UNCHANGED stage

(* -O with the level in the same argument.  The switch is over the first   *)
(* character behind it (arg[2]): -O3x sets the level that -O3 sets.        *)
SetOptLevel ==
  /\ Reading /\ DashCapO /\ ~Handled("o")
  /\ IF opt_level_has_been_set \/ Arg.value \notin Levels THEN InvalidUsage
     ELSE /\ opt_level' = Arg.value /\ opt_level_has_been_set' = TRUE
          /\ at' = at + 1
          /\ UNCHANGED <<args, prev_was_dash, dash_o_was_set, out_file, values,
                         source_files, outcome>>
  /\ UNCHANGED stage

(* The options of which one of an earlier branch waits, or is there.       *)
Earlier(o) == CASE o = "l" -> {"o"} [] o = "I" -> {"o", "l"} [] o = "J" -> {"o", "l", "I"}

(* -l, -I and -J, and what is behind them.                                 *)
Collect(o) ==
  /\ Reading /\ ~Help /\ ~EmitLLVM /\ ~DashCapO
  /\ Handled(o) /\ \A e \in Earlier(o) : ~Handled(e)
  /\ LET awaits == Arg.opt = o /\ ~Attached
     IN  /\ prev_was_dash' = [prev_was_dash EXCEPT ![o] = awaits]
         /\ values' = IF awaits THEN values ELSE [values EXCEPT ![o] = Append(@, Value(o))]
  /\ at' = at + 1
  /\ UNCHANGED <<args, dash_o_was_set, out_file, opt_level, opt_level_has_been_set,
                 source_files, stage, outcome>>

SourceFile ==
  /\ Reading /\ ~Help /\ ~EmitLLVM /\ ~DashCapO /\ \A o \in Awaiting : ~Handled(o)
  /\ IF Arg.opt # "" THEN InvalidUsage
     ELSE /\ source_files' = Append(source_files, Arg.value)
          /\ at' = at + 1
          /\ UNCHANGED <<args, prev_was_dash, dash_o_was_set, out_file, opt_level,
                         opt_level_has_been_set, values, outcome>>
  /\ UNCHANGED stage

(* Behind the loop.  An option that still waits for its value is forgotten *)
(* (out_file stays null behind a dash).                                    *)
EndOfOptions ==
  /\ outcome = "running" /\ stage = "options" /\ args # <<>> /\ at > Len(args)
  /\ out_file' = IF dash_o_was_set THEN out_file ELSE Plain("a.out")
  /\ IF source_files = <<>> THEN outcome' = "no source files" /\ UNCHANGED stage
     ELSE stage' = "asked" /\ UNCHANGED outcome
  /\ UNCHANGED <<args, at, prev_was_dash, dash_o_was_set, opt_level,
                 opt_level_has_been_set, values, source_files>>

OptionsNext ==
  \/ PrintHelp \/ SetEmitLLVM \/ DashO \/ SetOptLevel
  \/ \E o \in Collected : Collect(o)
  \/ SourceFile \/ EndOfOptions

-----------------------------------------------------------------------------
OptionsTypeOK ==
  /\ at \in 1..(Len(args) + 1) /\ opt_level \in Levels
  /\ prev_was_dash \in [Awaiting -> BOOLEAN]
  /\ dash_o_was_set \in BOOLEAN /\ opt_level_has_been_set \in BOOLEAN

(* The command line as it is read by a person: an argument directly behind *)
(* an option without a value is the value of this option, of several such  *)
(* options in a row each second one, and every argument is an option, such *)
(* a value, or a source file.                                              *)
Awaits(a)  == a.opt \in Awaiting /\ a.value = ""
Before(p)  == {q \in 1..(p - 1) : \A r \in q..(p - 1) : Awaits(args[r])}
IsValue(p) == Cardinality(Before(p)) % 2 = 1

FilePlaces == {p \in 1..Len(args) : args[p].opt = "" /\ ~IsValue(p)}
FileNames  == [p \in 1..Len(args) |-> args[p].value]
ValuePlaces(o) ==
  {p \in 1..Len(args) : IF IsValue(p) THEN args[p - 1].opt = o
                        ELSE args[p].opt = o /\ args[p].value # ""}
Meant(o) ==
  [p \in 1..Len(args) |-> IF args[p].opt = o THEN Plain(args[p].value) ELSE args[p]]
OutNames ==
  [p \in 1..Len(args) |-> IF Meant("o")[p] \in {Bare("-"), Plain("-")} THEN NullPtr
                          ELSE Meant("o")[p]]

(* What is at the places, one after the other.                             *)
Lists(list, places, texts) ==
  /\ Len(list) = Cardinality(places)
  /\ \A p \in places : list[Cardinality(places \intersect (1..p))] = texts[p]

(* A command line in which no option is where a value is expected.         *)
Tame == \A p \in 1..Len(args) : IsValue(p) => args[p].opt \in {"", "-"}

(* On such a command line, if it is accepted, the options have the values  *)
(* and the source files are the files a person reads there: none is taken  *)
(* for the value of an option far before it.                               *)
OptionsMeanWhatTheySay ==
  (stage = "options" /\ at > Len(args) /\ args # <<>> /\ Tame) =>
    /\ Lists(source_files, FilePlaces, FileNames)
    /\ \A o \in Collected : Lists(values[o], ValuePlaces(o), Meant(o))
    /\ Lists(IF dash_o_was_set THEN <<out_file>> ELSE <<>>, ValuePlaces("o"), OutNames)
=============================================================================
