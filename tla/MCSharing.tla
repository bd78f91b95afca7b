---------------------------- MODULE MCSharing ----------------------------
(* Model checking of programs in which bodies are shared: definitions called   *)
(* without arguments, from several places, from each other and from            *)
(* themselves, by name and by computed name.                                   *)
EXTENDS MCCompiler

BodyWords == {<<" ", "x">>, ArgsRef, Call("b"), Call("a"), CallOn("b", ArgsRef), CallOn("a", <<"y">>),
              Call("e"), CallNamedBy(Call("b"))}

BodiesOfB == {<<"#">>, Call("v") \o Call("u"), Def("v", Call("u")) \o ArgsRef}

Tops == {Call("a"), Call("a") \o <<" ">> \o Call("a"), CallOn("a", CallOn("b", Call("v") \o <<" ", "z">>)),
         CallOn("r", Call("a") \o <<" ">>) \o Call("v"), CallNamedBy(Def("a", <<"t">>)),
         CallOn("u", Def("v", <<"5">>) \o Call("a")) \o Call("a"),
         <<"[">> \o Call("b") \o <<" ", "x", "]">> \o Call("a"),
         Def("v", <<"t">>) \o Def("e", <<"t">>) \o Call("a")}

MCPrograms ==
  {Def("a", a) \o t \o Def("b", b) : a \in UpTo(2, BodyWords), b \in BodiesOfB, t \in Tops}
  \union {<<"[", "a", ":", "]">>, <<"]">>, <<"[", "a", " ", "{", "#", " ", "x", "#", "}", "]">>}
=============================================================================
