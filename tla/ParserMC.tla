------------------------------ MODULE ParserMC ------------------------------
(***************************************************************************)
(* Inputs for Parser: every short sequence of tokens, put where the body   *)
(* of a function, the condition of an if or a part of the file stands, and *)
(* the files that ParserReference writes.                                  *)
(***************************************************************************)
EXTENDS AstJson

CONSTANTS
  BodyToken,   (* the tokens of the part that varies                       *)
  BodyLen      (* bound on its length                                      *)

FunctionHead == <<"fn", "a", "(", "b", ")", "{">>

AroundBodies ==
  {<<FunctionHead, <<"}", "eof">>>>,
   <<FunctionHead \o <<"if">>, <<"{", "b", "}", "}", "eof">>>>,
   <<FunctionHead \o <<"a", "=", "a", "(">>, <<")", ";", "}", "eof">>>>,
   << <<>>, <<"let", "a", ";", "eof">> >>,
   << <<"let", "a">>, <<"eof">> >>}

AllInputs ==
  {around[1] \o body \o around[2] :
     around \in AroundBodies, body \in BoundedSeq(BodyToken, BodyLen)}

InputsAndFiles == AllInputs \union Files
=============================================================================
