----------------------------- MODULE MCFaults -----------------------------
(* The programs on which the code departs from its assertions and its          *)
(* documentation, each next to one on which it does not.                       *)
EXTENDS MCCompiler

\* A body with an undefined call, used once and used twice
UndefinedInSharedBody == {Def("f", Call("g")) \o Call("f"),
                          Def("f", Call("g")) \o Call("f") \o Call("f")}

\* A name computed by a call, and by a definition
NamedByBlock == {Def("a", <<"t">>) \o CallNamedBy(Call("a")), CallNamedBy(Def("a", <<"t">>))}

(* The body of a calls e: once where it is the library's function, then first  *)
(* where the block around defines another e.  There the body, which is written *)
(* second without that block, still has the scope of its first resolution.     *)
EvaluatedInSharedBody ==
  {Def("a", Call("e")) \o Def("v", <<"3">>) \o Call("a"),
   Def("a", Call("e")) \o CallOn("u", Def("e", <<"L">>) \o Def("v", <<"2">>) \o Call("a")) \o Def("v", <<"3">>) \o Call("a")}

\* e with and without a definition of v
EvaluatedSymbol == {Def("v", <<"2">>) \o Call("e"), Call("e")}
=============================================================================
