---------------------------- MODULE MCExpansion ----------------------------
(* Model checking of programs in which no body is shared: every definition     *)
(* that contains a call is called with arguments, and refers to them at most   *)
(* once.  No block has two different definitions of a name, nor one of a       *)
(* library's: there the code takes the first, and its tests want the last.     *)
EXTENDS MCCompiler, Expansion

Words == {<<" ", "x">>, Call("u"), CallOn("u", Call("v")), CallOn("b", <<"y">>),
          CallOn("b", Call("v")), CallOn("r", Call("v")), Call("e"), Def("v", <<"2">>)}

\* Up to two words, and "$*" at most once: before, between or after
Bodies == UpTo(2, Words) \union {ArgsRef \o w : w \in Words} \union {w \o ArgsRef : w \in Words}

BodiesOfB == {ArgsRef, <<"<">> \o ArgsRef \o <<">">>, Def("v", <<"4">>) \o ArgsRef,
              CallOn("r", Call("e")) \o ArgsRef}

Tops == {CallOn("a", <<"y">>), CallOn("a", CallOn("b", Call("v"))),
         CallOn("u", CallOn("a", Call("e"))), CallOn("#", CallOn("a", <<"y">>)) \o Call("v"),
         CallOn("a", Def("v", <<"5">>) \o Call("u")) \o CallOn("a", Call("v"))}

MCPrograms == {Def("a", a) \o t \o Def("b", b) \o Def("v", <<"3">>) :
                 a \in Bodies, b \in BodiesOfB, t \in Tops}

(* No assertion, bad pointer or full arena stops the evaluation of such a      *)
(* program, and what it writes is what the program means.                      *)
OutputIsMeaning ==
  Finished => /\ fault = "none"
              /\ NonBlank(Output) = ProgramExpansion(parsed, Libraries \o VSL)

\* The nodes under the bodies of the program's definitions, as they were parsed
RECURSIVE Below(_)
Below(id) == {id} \union UNION {Below(parsed[id].childs[k]) : k \in DOMAIN parsed[id].childs}
Definition(id) == parsed[id].type = "ASSIGNMENT"

(* Calling a definition leaves it as it was written: a call with arguments     *)
(* works on a copy of the body.                                                *)
DefinitionsIntact ==
  \A id \in DOMAIN parsed : Definition(id) => \A n \in Below(id) : nodes[n] = parsed[n]
=============================================================================
