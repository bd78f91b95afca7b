---------------------------- MODULE MCCocktail ----------------------------
(* Model checking of the two passes of a compilation with a cocktailing        *)
(* library, on programs that leave calls undefined and have neither escapes,   *)
(* literals nor computed names.                                                *)
EXTENDS MCCompiler

\* The library defines w and c; c calls a name that only programs define
MCCocktail == Def("w", <<"1", " ">>) \o Def("c", <<"<">> \o ArgsRef \o <<">">> \o Call("a"))

Words == {<<" ", "x">>, Call("u"), CallOn("u", <<"y", " ">> \o Call("v")), Call("w"),
          CallOn("c", Call("v")), CallOn("r", Call("u")), CallOn("#", Call("w"))}

ArgWords == {<<"z">>, Call("w"), CallOn("u", CallOn("c", <<" ", "k">>)), Def("w", <<"7">>) \o Call("w")}

MCPrograms == {t \o CallOn("a", arg) \o Def("a", a \o ArgsRef) :
                 a \in UpTo(2, Words), t \in {<<>>, <<"p", " ">>, Call("w"), CallOn("c", <<"q">>)}, arg \in ArgWords}

CocktailNames == {<<"w">>, <<"c">>}

PassTwoDone == Finished /\ pass = 2 /\ fault = "none"
FirstOutput == SubSeq(program, 1, Len(program) - Len(Cocktail))

NonBlanks(s) == SelectSeq(s, LAMBDA ch : ch \notin Blanks)

\* The names of the calls that are still in a text
NamesIn(text) == {<<text[i + 1]>> : i \in {j \in 1..(Len(text) - 1) : text[j] = "["}}

\* The names programs and the library call or define, one character each
Names == {<<c>> : c \in {"a", "u", "v", "w", "c", "r", "#"}}

(* do_calls_undefined writes an undefined call so that the cocktail pass reads *)
(* the same call again: every name it reads is one that was written, and a     *)
(* document that calls nothing the cocktail defines comes out of the second    *)
(* pass as it came out of the first.                                           *)
UndefinedSurvives ==
  PassTwoDone =>
    /\ \A id \in DOMAIN parsed : parsed[id].type = "SYMBOL" => parsed[id].text \in Names
    /\ NamesIn(FirstOutput) \intersect CocktailNames = {}
         => NonBlanks(Output) = NonBlanks(FirstOutput)

(* Every program gets through both passes: the fresh context of the second has *)
(* room again, and nothing the first pass writes stops it.  No call of a name  *)
(* the cocktail defines is left then, and the program's definitions, gone with *)
(* the first context, are unknown there.                                       *)
CocktailResolved ==
  Finished => /\ PassTwoDone
              /\ NamesIn(Output) \intersect CocktailNames = {}
              /\ <<"c">> \in NamesIn(FirstOutput) => <<"a">> \in NamesIn(Output)
=============================================================================
