# A verification of coatc

coatc compiles a small language to assembly through LLVM: it reads files, turns
each into tokens, a syntax tree, an LLVM module, an optimized module and at last
into an output file. This directory models its own logic in TLA+, checks it with
TLC and proves parts of it with TLAPS. LLVM is outside of it.

The program is sequential. There are no threads, no messages and nothing that
survives a run, so there are no interleavings, crashes or retries to model. What
makes it hard is of another kind: loops that carry flags over many characters,
iterators that are copied and advanced in recursive calls, exceptions that are
thrown in the middle of half-built structures, pointers to objects on the stack of
functions that may be left at any time, and basic blocks that are created, filled
and connected in three different orders.

## The system

| Component | Source | State | Operations | Correct if |
|---|---|---|---|---|
| Lexer | `source/lexer.cpp` | position, line, four flags, the token vector | `tokenize` | tokens are pieces of the source, in order, none from a comment, with the right line and value |
| Expression scan | `parser.cpp` 269-422 | parenthesis stack, flags, ranges of operands | first half of `parseExpression` | no token is lost between the ranges, ranges are balanced |
| Operator fusion | `parser.cpp` 4-20, 449-537 | list of operators and operand indices, vector of owned nodes | second half of `parseExpression` | the tree of precedence and left associativity; every operand has one owner |
| Parser | `parser.cpp` 72-261, 540-849 | iterators, error list, the functions in progress | one function per construct, recovery in `parseBlock` | it ends, errors are caught, what is written is read back |
| Syntax tree | `ast.hpp`, `ast.cpp` | nodes | JSON output | what is printed can be loaded again as the same tree |
| Code generator | `LLVMCodeGen/codegen.cpp` | scopes (`State`), the module, the builder's insertion point, errors, warnings | one `codegen` per node | lexical scoping, the blocks do what the tree says, variables accessed while they live, terminated once cleaned |
| Cleanup pass | `LLVMCodeGen/cleanup_pass.cpp` | basic blocks | removes what follows a terminator | every block ends with its first terminator, nothing that is used is removed |
| Optimizer | `LLVMCodeGen/optimization.cpp` | the limit of runs, the texts before and after a run | `optimizeModule`, `batchOptimizeModules` | it ends, cleans every module, stops at a fixed point or at the limit |
| Lowering, external linking | `LLVMCodeGen/lowering.cpp`, `external_linking.cpp` | - | module to assembly, object, bitcode, one linked object | - |
| Driver | `main.cpp` 174-361, 449-491 | the files, the outputs, the modules kept for linking | `compileAll`, reading and writing of `main`, `runTests` | each file gives the result that is due, only clean modules are lowered, reports are printed, tests are kept apart |
| Diagnostics | `main.cpp` 62-152 | three lists of reports | merge by line, print with the lines around | each report printed once, in order of lines |
| Command line | `main.cpp` 342-447, `message_strings.hpp` | option flags | the loop over the arguments | options mean what the help says |
| Support | `lib.hpp`, `lib.cpp` | the position in a `SizedArray` | `consumeFront` | never called on an empty array |
| Global pass dump | `fixme_dump.hpp` | - | - | (not included anywhere) |

They interact by calls only: the driver calls the stages for one file after the
other. What they share is data that one stage leaves to the next: the token
vector (tokens point into the text of the file, iterators into the vector), the
tree, the module, and three lists of reports, which decide in the driver whether
a module is optimized and lowered.

### What is hard in it

- A flag of the lexer is reset at the end of an iteration that a `continue` may
  skip, so that it acts on a lexeme far away.
- An expression is found by a scan before it is known what it is; the parts are
  parsed by copies of the iterator, with lengths computed by unsigned
  subtraction.
- Errors are exceptions. The parser catches them per statement and goes on from
  wherever the iterator was; the code generator catches them per statement and
  goes on with the basic blocks that are there.
- `ctx->state` points into the stack frames of the code generator.
- Branches are created from the block that is current *after* the code of the
  nested parts.
- The driver changes its way through the stages with every report, and output
  kinds exist that the command line cannot ask for yet.
- Three lists of reports are merged by numbers that stand for lines, for the end of
  the file and for an empty list, and lines are counted from zero and from one.
- An option that takes its value from the next argument is a flag that survives
  the iteration that set it.

`PROJECT.json` lists each of these hazards at its line with the properties that
are about it, or the reason why none is.

## The modules

### Lexer (`Lexer`, `LexerReference`, `LexerProofs`)

The state is the local state of `tokenize`. A source is a sequence over ten
classes of characters. Each branch of the loop, up to its `continue`, is an
action: `BeginComment`, `SkipSpace`, `NewLine`, `SkipComment`, `HexPrefix`,
`ReadZero`, `StartWord`, `StartNumber`, `ReadSingle`, `SkipOther`; the two inner
loops are `WordStep`/`WordEnd` and `NumberStep`/`NumberEnd`; `Finish` is what
follows the loop. Between the first and last step of an inner loop `i` is the
cursor, `start` the variable of the same name. Two history variables, `at` of a
token and `zero_at`, remember where it was really read. Keywords are words, and
the column is left out.

`LexerReference` has the tokens of the lexical grammar as a recursive definition.
It is compared with the loop on the sources where no flag outlives its purpose;
`TameSlashes` and `TameZeros` say which those are, and so describe the others.

### Expressions (`ScanResult`, `ExprScan`, `ExprScanProofs`, `OperatorFusion`, `FusionResult`, `OperatorFusionReference`, `OperatorFusionProofs`)

`ExprScan` walks the loop of `parseExpression` with its stack and flags; the
variables have the code's names and the actions are its branches. `ScanResult` is
the same in closed form: the first position where the scan stops, the operators
at depth zero, the ranges between them. `MatchesScanResult` says that they agree,
and `Parser` then uses the closed form, so that it has no state for the scan.

`OperatorFusion` has the three passes. `epnis`, `new_epnis`, `operands`, `i` and
`prev_was_operator` are the code's variables; `moved` is the set of indices where
a null `unique_ptr` is left. The checks that throw are four actions in the order
of the code. `FusionResult` has the passes as a fold over a list of trees, with every
way in which they fail or lose an operand. `OperatorFusionReference` compares both:
`FusesAsFolded` says that the passes and the fold agree on every list, so that `Parser`
may use the fold; `FusesByPrecedence` says that the tree is the one of the grammar.

### Parser (`Parser`, `ParserMC`, `ParserReference`, `ParserProofs`, `AstJson`)

A recursive-descent parser is a state machine with a stack. `todo` is what the
active functions have still to do, as instructions: take a token of a set, look
at one, run another function, build a node. `iters` are the `ParseState`s that
are alive, the last one being the `ps` of the running function: `limited_ps` and
the `ParseState`s of operands are pushed on it. `nodes` are the nodes the active
functions hold. A `catch` instruction ends every try block; `Throw` unwinds to
the next one, with the iterators as they are by then, which is the point: a
statement that fails leaves the block's iterator where it was when the exception
was thrown. The straight-line functions (`IfCond`, `WhileLoop`, `Return`, ...)
are sequences of instructions in the order of their calls; where a function
branches there is an action (`ElseBranch`, `MoreArguments`, `StatementEnd`, ...).
The loop that parses the operands of an expression is an instruction with the ranges
that are left, one iteration of it the action `NextOperand`.
`parseBlock` is `ParseBlock` (search for the end and for the result),
`NextStatement`, `EndOfStatements` and `MakeBlock`. `Returned` is the caller's
stutter when the parser has come to its end, so that any other state without a
next step is a deadlock.

The scan is `ScanResult`'s. The fusion is one step, `FuseOperands`: it takes the tree
that `FusionResult` makes of the operators and the parsed operands, throws if there
is a syntax error, and ends the program where the passes reach what they call
unreachable. So an expression is a tree of `BinaryOp` and `UnaryOp` nodes, a negative
number among them, also where the passes lose a part of it.

`ParserReference` writes trees as source and says that `Parser` reads them back;
`ParserMC` adds short token sequences, right and wrong. The header of the former
lists the constructs that are left out because the parser does not read them back.

`AstJson` is the output kind `ast`. It maps the nodes of `Parser` to the classes of
`ast.hpp`, has `toJsonString` of each class a reachable tree can hold, `UnaryOp`
included, as a sequence of lexemes, and a reader for the JSON that is meant.
`PrintedTreeLoads` says that what is printed for a tree that the parser returns is the
text of that tree, except where the code cuts it off: a `let` without a value.

### Code generator and cleanup pass (`Codegen`, `CodegenReference`, `CodegenMC`, `CodegenProofs`, `CodegenLifetimeProofs`)

Again a machine with a stack: `todo` holds what the codegen functions have still
to do, `values` the pointers they hold (null, a constant or argument, or the place of an
instruction), `frames` their `State`
objects and `state` the one `ctx->state` points to, which is a number of a frame
that may be gone. `blocks` are the basic blocks, `ip` the insertion point. Of the
instructions the terminators with their ordered targets, allocas, the stores of poison
behind them, loads, stores, calls, operators and lifetime marks are kept, each with the
values it uses. `WellFormed` is what `llvm::verifyModule`
asks of such blocks: terminators, targets, and operands that are in the function
(that they come before their uses on every path is a part of `WellFormedOnceCleaned`).
`VerifyModule` is the call. `Cleaned` is what `CleanupPass::run` makes of a block: it
erases what stands behind the first terminator, whether its values are used elsewhere or
not.
An allocation of the block, a branch and its insertion are steps of the functions
as in the code, cut where a nested codegen is called. The loops over arguments,
statements and definitions are instructions (`Each`, `TryEach`, `DefineEach`), one
iteration of each an action (`NextOperand`, `NextStatement`, `NextDefinition`).

The programs are a constant. `Trees` are the syntax trees they are made of, each with
its subtrees, as the parser builds them (`TreesAssumption`): a set of trees can be of
any size and depth, and the proofs are about all of them. What a name has to mean is
stated on the declarations that are active, `own` of each frame (a history variable):
`LexicalScoping` says that each frame binds a name to the last declaration of it in
the innermost block that has one.

`CodegenReference` has the meaning of a program twice: `Execute` reads it from the
syntax tree, `RunFrom` walks the cleaned blocks. Both are given the outcomes of
the conditions they meet and leave a trace of calls, loads and stores;
`ExecutesLikeSource` compares the traces of every sequence of outcomes. This is
what finds a swapped branch, a loop that re-enters its body instead of its
condition, or a block that is inserted where nothing jumps to.

`AllPrograms` in `CodegenMC` are toplevel blocks the parser can return.
`For::codegen` is not modelled: no for loop reaches it (run `parser_for`).

### Optimizer (`Optimizer`, `DriverProofs`)

LLVM's pipeline is an arbitrary function on the texts of modules. The loop is
`RunAgain` and `LastRun`; one module is `optimizeModule`, several are
`batchOptimizeModules`, whose limit is shared by all modules and wraps around. Its
definitions have names of their own (`OptimizeInit`, `RunsLeft`, ...), because
`DriverProofs` is about it and about `Driver`, which hands it the modules; `level` is
the parameter `opt_level`, a name that `Arguments` has for the option.

### Diagnostics (`Diagnostics`, `DiagnosticsProofs`)

A file is a sequence of characters and line feeds. `SplitAtLineFeed` and
`LastLine` are the loop of `compileAll` that fills `code_lines`, with the unsigned
`code.length - 1`; `Report` puts any reports the earlier stages can make on any of
the three lists; `PrintNext` is an iteration of `printErrorsAndWarnings`, which
chooses a list, consumes its front and prints it with the rows around its line, or
throws from `lines.at`. The specification of the merge is stated on what was
reported (`reported`, a history variable) and what came out (`printed`).

### Command line and driver (`Arguments`, `Driver`, `Compiler`, `DriverMC`, `DriverProofs`)

`Arguments` is the loop over the arguments, one action for each branch, guarded by
the branches before it; its flags `prev_was_dash` are the variables
`prev_was_dash_o`, `_l`, ... of the code. `Driver` extends it with everything that
follows. `verdict` fixes what is reported about each file. `ReadFile` is the loop
of `main` over the paths, with the lifetime of the string it reads into;
`SetupTargetMachine`, `Tokenize`, `Parse`, `CodegenAndOptimize`, `DumpIR`, `Lower`,
`KeepModule` are `compileAll`'s way through a file; `Link` is what follows the loop;
`WriteOutput` the loop of `main` over the outputs. `StartTests`, `NextTest` and
`WriteTest` are `runTests`, which calls the same `compileAll` for the files of a
directory. `main` asks for assembly only, `compileAll` is modelled for every kind
(`Ask`). Uses of memory that has been freed are nondeterministic: the content of a
file may be the one of a later file or none; linking a module whose `LLVMContext`
is gone may do anything, which ends the model. The crashes that `Parser` and
`Codegen` show, and the exception of `Diagnostics`, are outcomes that may happen to
any file they can happen to.

`Compiler` is the abstract specification of `compileAll`. Its state is the call that
is being answered, the outputs, the modules that wait, and the files whose reports
have been printed; its only way to treat a file is `CompileFile`, one step that gives
the result that is due for the kind that is asked for and the reports on this file.
The refinement mapping (at the end of `Driver`) forgets the stage a file is at, the
contents, and how the outcome came about.

## What is checked

Bounds are constants of the configurations, and counters of errors are capped.

| Run | Bounds | States | Shows |
|---|---|---|---|
| `lexer` | sources up to 5 characters of 9 classes | 0.6 million | spans, comments, lines, termination; the tokens of the grammar |
| `expr_scan` | ranges up to 6 tokens of 8 types | 1.4 million | what is stripped is there; the closed form |
| `fusion` | up to 7 entries, 4 operators | 0.5 million | ownership; the right trees; the fold that `Parser` uses |
| `parser` | every sequence up to 3 of 15 token types in 5 contexts, and written trees of depth up to 4: 21474 inputs | 0.8 million | nested iterators; all errors caught; every block has its end; trees read back as written, and loaded back as printed; it ends unless stalled |
| `codegen` | 6833 programs: up to three statements per function, nested up to 4 deep; 4 conditions per run | 0.3 million | scoping, lifetimes, the blocks do what the tree says, terminated once cleaned, and well formed if returns come last |
| `diagnostics` | files up to 6 characters, up to 3 reports, one row around each | 0.16 million | nothing lost, the order of the merge, the right rows, where it throws |
| `driver` | 30925 command lines up to 4 arguments, 2 paths, all kinds and reports | 0.8 million | `Driver` implements `Compiler`; options read as written; tests kept apart; it ends unless the parser stalls |
| `optimizer` | 3 modules, 4 texts, 3 runs, numbers modulo 8 | 0.04 million | fixed point or limit |

Why the bounds are enough to be of interest: five characters hold a comment or a
hexadecimal literal behind another lexeme; six tokens hold nested and mismatched
brackets beside an operator; seven entries hold three operators of different
precedence, where a wrong level or associativity shows; three tokens behind a
function's head are enough for each of the parser's errors in each statement, and
its contexts put them into a condition, an argument and the toplevel. The
programs of `codegen` nest blocks in branches in loops, with returns and failing
statements at each place; four conditions are two iterations of a loop with a
branch in it. Six characters hold three lines, an empty one among them, with and
without a line feed at the end, and three reports one on each list or all on one.
Two files are the least for one that has reports beside one that has none, three
have both orders; four arguments hold an option that waits, what it waits for, and
a file and an option behind it. The limit of the optimizer wraps within three
modules.

Fairness is `WF_vars(Next)` for `Termination` of the lexer and for
`EndsUnlessParserStalls` of the driver. The code
is sequential and waits for nothing, so that a step that can be taken is taken;
nothing weaker would let any program end, nothing stronger is assumed. The driver is
exempt in one state only, `stage = "stalled"`, which `Parse` may enter with any file:
there the toplevel loop of the parser never returns. The parser's
`EndsUnlessStalled` needs no fairness: it says that no behaviour takes steps for
ever (`<>[][FALSE]_vars`) unless the block loop has stalled, and its run checks for
deadlock, so that a behaviour that stops has stopped where the parser returns.
Deadlock is not checked elsewhere: every machine stops when its function has
returned or thrown.

The properties, apart from one type invariant in each module, are commented where
they are defined. The ones to look at first: `ImplementsCompiler`;
`ExecutesLikeSource`, `LexicalScoping`, `AccessesAreLive` and `WellFormedOnceCleaned`; `RoundTrip`,
`PrintedTreeLoads`, `IteratorsNested` and `EndsUnlessStalled`; `SpansOrdered` and
`MatchesReference`; `OwnedOnce`, `FusesByPrecedence` and `FusesAsFolded`; `NothingIsLost` and
`ThrowsForTheLastLine`; `OptionsMeanWhatTheySay`.

### Where the code and its comments disagree

These runs check what a comment, message or help text says, and TLC refutes it.
`PROJECT.json` quotes the line for each.

| Run | The code |
|---|---|
| `fusion_handled` | `a - b` is fused to `a` |
| `parser_for` | no for loop can be parsed |
| `codegen_return` | every function with a `return` fails the verifier |
| `driver_sources` | the output replaces the source file |

The models have more such behaviour, which the properties leave room for or
describe exactly, and which a reader may want to know of:

- `///` and `/ /` remove a token that is not the slash, or pop an empty vector:
  `MatchesReference` is stated outside of `TameSlashes`, `Lexer` has the outcome
  "undefined", and `Driver` the same outcome of its step `Tokenize`.
- A file that is just `x` makes the program run for ever: the statement throws without
  having consumed a token, and the toplevel loop of `parseBlock` tries it again
  (`parser.cpp:785`). `EndsUnlessStalled` and `EndsUnlessParserStalls` exempt this.
- `x -` becomes `x`, and so does `x - y` (`FusionResult`, `Turn`), while `- x` is an
  expression; so `DanglingIsNotFused` is stated without a minus.
- Every variable is stored to before its lifetime starts: `allocaInDeclBlock` stores
  poison behind the `alloca`, in the first basic block (`Allocated`). `AccessesAreLive`
  is about reads and about what the program writes, and says that the poison is nowhere
  else.
- The cleanup pass erases instructions whose values are still used: of `return a; a`
  the second load of `a`, which the `ret` at the end of the function returns. The
  program does not get there, because the verifier rejects the module before
  (`codegen.cpp:232`) and the optimizer is left out then (`main.cpp:242`).
  `WellFormedOnceCleaned` is stated for programs in which returns come last in their
  block, `TerminatedOnceCleaned` is about terminators only.
- `(x);` throws an exception that is called unreachable (`ExprScan`, the outcome
  "unreachable: paren"), and so does an operator at the end of an expression
  (`OperatorFusion`). Unbalanced braces end the program with an internal error;
  `BlockEndIsFound` says that nothing else does.
- The brace of an empty block is not consumed, so that `fn a(b) {}` is an error;
  so is `{ ; }`. `RoundTrip` has no such trees.
- A global variable cannot be used in a function, and an initialized one ends the
  program (`GenVarRef`, `GlobalCodegen`).
- A file may be compiled from the memory of a string that is gone, and a report
  about one file makes the linking of the others throw (`ReadFile`, `Link`).
- With the limit of one run that `compileAll` passes, O3 runs the pipeline once,
  although a comment promises a fixed point; `UnchangedOrUsedUp` is what holds, which is
  weaker. It is checked for several modules too, as `batchOptimizeModules` would treat
  them; the program does not call that function.
- A report about the last line of a file ends the program with `std::out_of_range`
  instead of being printed: `prettyPrintErr` asks for the line by a number that
  counts from one. `ThrowsForTheLastLine` says for which reports. The last
  character of a file without a line feed at its end is not printed (`RowsAreLines`),
  and 0, the line of the end of the file, comes first in the merge.
- In the output kind `ast`, `let x;` ends the object without its closing brace, and
  whether a function is extern is not printed (`AstJson`). `For::toJsonString` would
  print its body as the initialization; no for loop gets there.
- `-l -o x f` takes `f` for a library and `-o` at the end of the command line is
  forgotten: a flag waits for the next argument that no earlier branch takes.
  `OptionsMeanWhatTheySay` is stated for command lines without an option where a
  value is expected. `-O 3` is invalid usage, `-O3` is not, and neither is `-O3x`: of the
  value only the first character is looked at (`SetOptLevel`). The help names `-O0` as
  the default where the code sets `-O1`, and `-o` and `-emit-llvm` are read and not used.
- The assembly that `lowerModuleToFormatNoLinking` returns is written by the
  destructor of a stream behind the return statement. `Driver` assumes the elision
  of the copy that the language permits and the build does.

## What is proved

TLAPS proves these for every value of the constants that the assumptions of the
modules allow. Each rests on an inductive invariant of its module (`IInv`, if nothing
else is said), and has one step or lemma for each action.

`DriverProofs`, for any set of paths, any command lines and any reports:

- `DriverImplementsCompiler`: `Driver` implements `Compiler`. Each action is shown to
  be a step of `Compiler` or none under the refinement mapping (`Simulates`).
  The mapping reads the file that is compiled from the number of results there are,
  the driver from its counter and the vector it has read, so `IInv` says that these
  agree (`FilesOK`), that a module is optimized when and only when it has been
  generated without reports (`StageOK`), and that the calls begin without results.
  `CommandLinesAssumption` says that arguments that are not options are paths.
- `DriverTypeOK`. `Typed` adds to `IInv` that there are never more outputs or kept
  modules than source files, and the types of what the options set.
- `TestsKeepTheirOutput`: each test that has been run has its own assembly or IR, and
  no file on the disk has changed. `TestsInv` follows one test through the stages: its
  list of files is the one test, everything that has been made is made of its text,
  only assembly is asked for, and the tests that have been written are not among those
  that are left.
- `OptionsAreReadAsMeant`: `OptionsMeanWhatTheySay` says in a closed form, of the
  places on the command line, which are values and which are files, and what each
  option has been given. `MeantSoFar` says it of the arguments in front of `at`: the
  flags that are set are those of the argument just read, and each list of values
  is that of the places so far.

`DiagnosticsProofs`, for files of any length, any number of reports, any number of
rows and any modulus that is larger than the lines of a file:

- `DiagnosticsTypeOK`, `ReportsPrintedInOrder`, and `NeverConsumesEmptyList`: the -1
  that stands for an empty list never wins. `PrintedInOrder` is about what has been
  printed; `IInv` adds that what is at the front of the other lists may follow it
  (`FrontsFollow`), which is what the choice of the smallest front keeps.
- `ReportsAreNotLost`: of each list, what has been printed is its beginning and what
  is left its end.
- `RowsPrintedAreLines` and `OnlyTheLastLineThrows`. `RowsInv` says of the loop that
  fills `code_lines` that each row is a line with its line feed behind it (`Closed`)
  and that no line feed is behind the start of the next one so far (`Open`), and of its
  result how many rows there are and that each is its line but for the last character
  of the last line (`LinesAre`). The rest is counting line feeds.

In `DriverProofs` too, for any number of modules, any limit, any modulus and any
pipeline, about `OptimizeSpec`:

- `OptimizerTypeOK`, `OptimizerUnchangedOrUsedUp`, `OptimizerCleanedOnce`. `OptimizeInv` says
  that between two runs for a module the text that was kept is the module's and the
  limit has not been used up; so a limit that wrapped around in the module before
  can not make two texts look equal that have not both been taken.

`LexerProofs`, for sources of every length, every set of character classes and
every modulus of literals:

- `LexerTypeOK`: the state of `tokenize` is well typed; in particular the cursor
  never leaves the source.
- `LexerSpansOrdered`: token texts lie in the source and end in order. This is
  not inductive: the token of a pending zero, and the one of a run, are pushed
  later than the characters they end with. `IInv` adds that all recorded tokens
  have ended by `Reached`, the position from which the next token can only end
  later (one before the cursor with a pending zero, the start of a run inside
  one), that `hex_mode` implies two characters behind the cursor, and that a run
  that has not moved is about to.
- `LexerSkipsComments` and `LexerNamesLines`: no token is made of characters of a
  comment, and each has the line on which it begins. `CommentInv` ties the flags to the
  characters: behind a slash it is noted or a comment has begun, behind a character of
  a comment `is_comment` is set, `line` is one more than the line feeds passed, and a
  run or a pending zero began outside of comments on the line it is going to get.

`OperatorFusionProofs`, for expressions of every length and every set of
operators:

- `FusionTypeOK`, `FusionOwnedOnce`, `FusionListOwns`: the passes never move an
  operand out of a null pointer and never name one twice. `IInv` adds what makes
  it inductive: the two parts of the list, what the pass has placed and what it
  has not reached, each name distinct operands that have not been moved, and
  share none.
- `DanglingIsRefused`: an expression without a minus, in which operators and operands
  take turns and that begins or ends with an operator, is never fused to a tree. (With a
  minus this is not so: `- x` is an expression and `x -` loses its operator.)
  `DanglingInv` says
  that operators and operands still take turns in the list that is fused and in what
  the pass has placed, that the list still begins or ends with an operator or is empty,
  and how `prev_was_operator` tells the end of what has been placed (`TurnsGoOn`).

`ExprScanProofs`, for token lists of every length over any types:

- `ScanTypeOK`, `ScanStripsParens` and `ScanMatchesClosedForm`: the loop stops where
  the closed form of `ScanResult` says, with the same operands, operators and error,
  and what it strips as a parenthesis is one. So `Parser` may use the closed form for
  expressions of every length. `IInv` says that the stack holds the parentheses that
  are open (`StackIsOpen`), that nothing before the cursor stops the scan, that the
  ranges are the operands between the operators at depth zero (`OperandsCut`,
  `ShapeListed`), and what `entirely_wrapped_in_parens` means at each place.

`ParserProofs`, for every token sequence:

- `ParserTypeOK`, `ParserIteratorsNest`, `ParserCatchesEveryError` and
  `ParserFindsBlockEnds`. Recursion is the difficulty: what is true at a step depends on
  all the functions that wait. `IInv` says that there are, for the instructions of
  `todo`, the numbers of `ParseState`s and nodes that are there when each is reached,
  that each instruction changes these as its function does (`Moves`), and that the last
  one leaves the one `ParseState` and one node of a program (`Stack`). Behind every
  instruction that throws there is a `catch` that goes back to no more than there is,
  and a range that has still to be entered lies in front of what its `ParseState` has
  left. For the ends of blocks each `ParseState` holds a stretch of tokens whose braces
  close no more than they open, counted from its end (`LevelOn`), provided the braces
  of the whole file match.

`CodegenProofs`, for every set of names, trees and programs:

- `CodegenTypeOK`, and `CodegenStateIsAlive`: `ctx->state` is never used when the frame
  it points to is gone. `IInv` counts frames and values per instruction as in
  `ParserProofs` (`Balanced`); every `catch` finds what it goes back to (`Spares`); and
  the pointer is the last frame except between an exception that gives up the result of
  a block and the end of this block, which follows at once (`Alive`, `Follows`).
- `CodegenScopesLexically`: the copied maps of names agree with lexical scoping. `Scoped`
  says it of each frame relative to the one around it, which is what a step changes.
- `CodegenTerminatedOnceCleaned`: what is generated without an error and without a null
  operand is a module in which, once it is cleaned, every basic block ends with its only
  terminator and branches to basic blocks of its function; and without return statements
  this is so before. It says nothing of the operands, which the cleanup pass can leave
  without a value (above); TLC checks them as `WellFormedOnceCleaned`.
  `TerminatedOnceCleaned` speaks of the end
  only. `WiredInv`, the invariant behind it, says at every step which basic blocks may
  still lack a terminator or be no part of their function: those that a pending
  instruction owes (`Owed`, `Due`), each owed once, and the one that code is generated
  in. Everything else ends and branches to what is inserted or due (`Joined`), and there
  are as many returns as functions, more only if something may stand behind a terminator
  (`Returning`). It has to be an invariant of runs without errors: an exception leaves
  basic blocks behind that nobody ends. `MaxErrors` is at least two, or the count could
  not tell that the verifier's complaint is the first error.

`CodegenLifetimeProofs`, which extends `CodegenProofs`, for every set of names, trees and
programs:

- `CodegenAccessesAreLive`: in what is generated without an error, once it is cleaned,
  every variable that is accessed is allocated in the first basic block of its function,
  and no path reads it, or writes what the program assigns to it, before its lifetime
  starts or after it has ended. The store of poison is in that first basic block and
  nowhere else.
  `AccessesAreLive` speaks of the paths through all basic blocks at the end, the
  invariant has to say why there is none while they are being made. The basic blocks of a
  block of the source are a region that control enters only from the one in front of
  it (`Walled`), where the lifetimes of the block's variables start; they are accessed
  only in the region, and their lifetimes end only in the basic block behind it (`Held`,
  `Left`). So a path to an access from anywhere outside has passed the start. `LiveInv`
  says this of the blocks that are open (`Opened`), with the insertion point inside their
  regions, and of those that have been left (`Gone`), into which nothing refers that is
  still to be done (`Avoids`). Regions are intervals of numbers, because what is created
  after a block was entered and before it is left belongs to it; therefore `LiveInv` also
  says that the pending instructions refer to basic blocks in the order of the blocks they
  belong to (`Nested`), which variables each frame has and that no two share one
  (`Scopes`), and that the variable of a pending declaration is allocated and unused
  (`Awaits`). It is claimed as long as there has been no error, like `WiredInv`, which it
  rests on. `EndInv` is what is left of it in the module that is verified; from there the
  paths are followed by induction over their length (`Reached`).

All rest on the named assumptions of their modules: the constants are sets of the
classes, types, operators and trees the language has, and the bounds are numbers. TLC
evaluates the assumptions in the runs.

`DanglingIsNotFused` (`DanglingIsRefused`) and `CleanedOnce` (`OptimizerCleanedOnce`) are
proved and in no run: of the first, `FusesAsFolded` checks the same passes with every
list; the second matters if several modules are optimized by one call, which the program
does not do.

Only model-checked are:

- the comparisons with recursive definitions and folds: `MatchesReference`,
  `FusesByPrecedence`, `FusesAsFolded`, `RoundTrip`, `PrintedTreeLoads`,
  `ExecutesLikeSource`, `WellFormedOnceCleaned` (whose premise is recursive). What a recursive definition
  computes for inputs of every size needs induction over data, which is beyond the
  provers;
- liveness: `Termination`, `EndsUnlessParserStalls` and `EndsUnlessStalled`.

## What is not modelled

- The text of messages, colours, arrows and columns, the printed tokens: layout
  without state.
- Arithmetic in generated code, types (there is one), the truncation of literals
  to eight bits: the properties of `Codegen` do not depend on values.
- LLVM: its passes are a function in `Optimizer`, a verdict in `Driver`, and the
  bytes it writes are a content in `Driver`.
- `For::codegen` and `For::toJsonString`: no such node leaves the parser (run
  `parser_for`), so that no state the program can be in calls them.
- `lowerModulesToExeWithLTO`, which is not called, and external linking, which is one
  `throw`: an outcome of `Link`.
- The constructors and accessors of `ast.hpp`, whose nodes are records here; the
  global pass dump, which is not included; commented-out code; the files that CMake
  generated.

## Plan

Done, in this order: `Lexer`, `LexerProofs`; `OperatorFusion`, its reference and
proofs; `ScanResult`, `ExprScan`; `Parser` and its reference; `Codegen`;
`Driver`; `Optimizer`; `AstJson`; the cleanup pass and `CodegenReference`;
`Diagnostics`; `Arguments`; `Compiler` and the refinement; the proofs of
`Diagnostics`, `Optimizer` and `Driver`; then those of `ExprScan`, `Parser` and
`Codegen`, and of the rest of `Lexer`, `Diagnostics` and `Driver`; last
`CodegenTerminatedOnceCleaned` and `CodegenAccessesAreLive`; `FusionResult`, and the
operands of instructions in `Codegen`.

What could follow is a proof that the code executes like its source. `Execute` is
recursive on trees, so that it would have to be stated as a simulation: the regions of
`LiveInv` are the places at which the two are to be compared.
