----------------------------- MODULE Expansion -----------------------------
(* What a Vinum program means, stated on its syntax tree and without scopes,   *)
(* resolution passes or rewriting: a call stands for the body of the           *)
(* definition it names, with the call's arguments for "$*"; a definition is    *)
(* visible in the whole block it is written in, also before it, and in what    *)
(* that block calls; a call that names nothing stays.  The nearest block that  *)
(* defines a name gives its meaning, the arguments of a call being nearer than *)
(* the body they are given to and the libraries farthest; in one block the     *)
(* last definition of a name is meant (vinumc/tests/functions_test.c:39,       *)
(* expansion_test.c:14, both still to do in the code).                         *)
(* Blanks are left out: Eval's blank reduction is not part of the meaning.     *)
EXTENDS Ast, VutStr

\* The definitions written directly among the given nodes
Definitions(ns, childs) ==
  LET defs == SelectSeq(childs, LAMBDA c : ns[c].type = "ASSIGNMENT")
  IN  [k \in DOMAIN defs |-> [name |-> ns[ns[defs[k]].childs[1]].text, type |-> "internal",
                              body |-> ns[defs[k]].childs[2], target |-> NoText]]

\* An environment is a sequence of blocks, the innermost first.  What a name
\* means there, NoMeaning if no block defines it
NoMeaning == [name |-> NoText, type |-> "none", body |-> 0, target |-> NoText]
Meant(env, name) ==
  LET named  == [k \in DOMAIN env |-> SelectSeq(env[k], LAMBDA e : e.name = name)]
      blocks == SelectSeq(named, LAMBDA defs : defs # <<>>)
  IN  IF blocks = <<>> THEN NoMeaning ELSE Last(blocks[1])

NonBlank(text) == SelectSeq(text, LAMBDA c : c \notin Blanks)

RECURSIVE ExpandAll(_, _, _, _), Expand(_, _, _, _)

\* The text the nodes stand for in env, where "$*" stands for the nodes args
ExpandAll(ns, childs, env, args) ==
  FlattenSeq([k \in DOMAIN childs |-> Expand(ns, childs[k], env, args)])

Expand(ns, id, env, args) ==
  LET n == ns[id]
      callArgs == IF Len(n.childs) > 1 THEN ns[n.childs[2]].childs ELSE <<>>
      name     == ns[n.childs[1]].text
      here     == <<Definitions(ns, callArgs)>> \o env
      e        == Meant(here, name)
      \* A body in the place of the call: its definitions behind the call's arguments
      Placed(body, arguments) ==
        LET childs == ns[body].childs
        IN  ExpandAll(ns, childs, <<here[1], Definitions(ns, childs)>> \o env, arguments)
  IN  CASE n.type \in {"TEXT", "LITERAL"} -> NonBlank(n.text)
        [] n.type = "ARG_REF_ALL_ARGS"    -> ExpandAll(ns, args, env, <<>>)
        [] n.type = "ASSIGNMENT"          -> <<>>
        [] n.type = "CALL" ->
             CASE e.type = "none"        -> <<"[">> \o name \o ExpandAll(ns, callArgs, here, <<>>) \o <<"]">>
               [] e.type = "internal"    -> Placed(e.body, callArgs)
               [] e.type = "comment"     -> <<>>
               [] e.type = "return_arg"  -> ExpandAll(ns, callArgs, here, <<>>)
               [] e.type = "eval_symbol" -> Placed(Meant(here, e.target).body, <<>>)

\* The text of a whole program
ProgramExpansion(ns, library) ==
  LET childs == ns[1].childs
  IN  ExpandAll(ns, childs, <<Definitions(ns, childs), library>>, <<>>)
=============================================================================
