---------------------------- MODULE MCCompiler ----------------------------
(* The libraries and the spelling of programs, for the MC modules of the       *)
(* compiler.                                                                   *)
EXTENDS Compiler

\* The characters the programs are written with
MCCharacters ==
  {"[", "]", ":", " ", "$", "*", "{", "}", "#", "<", ">", "L", "1", "2", "3", "4", "5", "7",
   "a", "b", "c", "e", "f", "g", "k", "p", "q", "r", "t", "u", "v", "w", "x", "y", "z"}

Extern(name, type, target) == [name |-> name, type |-> type, body |-> 0, target |-> target]

MCVSL       == <<Extern(<<"#">>, "comment", NoText)>>
MCLibraries == <<Extern(<<"r">>, "return_arg", NoText), Extern(<<"e">>, "eval_symbol", <<"v">>)>>

NoCocktail == <<>>

Def(name, body)   == <<"[", name, ":">> \o body \o <<"]">>
Call(name)        == <<"[", name, "]">>
CallOn(name, arg) == <<"[", name, " ">> \o arg \o <<"]">>
CallNamedBy(call) == <<"[">> \o call \o <<"]">>
ArgsRef           == <<"$", "*">>

UpTo(n, words) == {FlattenSeq(s) : s \in BoundedSeq(words, n) \ {<<>>}}
=============================================================================
