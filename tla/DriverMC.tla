------------------------------ MODULE DriverMC ------------------------------
(***************************************************************************)
(* Command lines for Driver: up to four arguments, up to three of them     *)
(* plain, so that an option without a value can stand two places before    *)
(* the argument it takes.                                                  *)
(***************************************************************************)
EXTENDS Driver

Opt(o, v) == [opt |-> o, value |-> v]
ArgumentsUsed ==
  {Plain(p) : p \in Path}
    \union {Bare(o) : o \in {"o", "l", "I", "J", "-", "-h", "-emit-llvm"}}
    \union {Opt("o", "p"), Opt("l", "p"), Opt("O", "3"), Opt("O", "x")}

AllCommandLines ==
  {a \in BoundedSeq(ArgumentsUsed, 4) : Cardinality({k \in 1..Len(a) : a[k].opt = ""}) <= 3}

(* The source files alone.                                                 *)
FilesOnly == BoundedSeq({Plain(p) : p \in Path}, 3) \ {<<>>}
=============================================================================
