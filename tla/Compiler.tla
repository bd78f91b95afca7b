------------------------------ MODULE Compiler ------------------------------
(* compiler_compile of vinumc/libvinumc.c: a program is parsed and evaluated;  *)
(* when cocktailing libraries were given, the output with their text after it  *)
(* is parsed and evaluated again, in a fresh context without the libraries.    *)
EXTENDS Parser, Eval

CONSTANTS
  Programs,    \* the sources
  Cocktail,    \* the text of the cocktailing libraries, <<>> if none was given
  Libraries,   \* the extern functions of the libraries loaded with --with
  VSL          \* those of the built-in library, registered after them

\* An extern function has no body, and a name it may evaluate
ExternEntry == [name : Seq(Characters), type : ExternKinds, body : {0}, target : Seq(Characters)]

ASSUME CompilerAssumption ==
  /\ Programs \subseteq Seq(Characters) /\ Cocktail \in Seq(Characters)
  /\ Libraries \in Seq(ExternEntry) /\ VSL \in Seq(ExternEntry)

VARIABLES
  program,     \* the source of the current pass
  pass,        \* 1, or 2 for the cocktail pass
  parsed       \* history: the AST as the parser left it, <<>> before

vars == <<nodes, lexVars, parserVars, evalVars, program, pass, parsed>>

Init ==
  /\ program \in Programs
  /\ ParserInit(program)
  /\ scopes = <<>> /\ agenda = <<>> /\ outs = <<>>
  /\ fault = "none"
  /\ boundIn = <<>>
  /\ pass = 1
  /\ parsed = <<>>

Parse == ParseStep /\ UNCHANGED <<evalVars, program, pass, parsed>>

\* compiler_parse has returned; its verdict is not looked at
Started == scopes # <<>>

Start ==
  /\ parsing # "running" /\ ~ Started
  /\ StartEval(IF pass = 1 THEN Libraries \o VSL ELSE VSL)
  /\ parsed' = nodes
  /\ UNCHANGED <<nodes, lexVars, parserVars, program, pass>>

Evaluate == Started /\ EvalStep /\ UNCHANGED <<lexVars, parserVars, program, pass, parsed>>

\* The pass is over; the output is in the one buffer left
PassDone == Started /\ agenda = <<>> /\ fault = "none"
Output == outs[1]

\* Mutant of SecondPass: the cocktailing libraries are not appended
SecondPassAlone ==
  /\ PassDone /\ pass = 1 /\ Cocktail # <<>>
  /\ pass' = 2
  /\ program' = Output
  /\ source' = Output /\ conds' = <<"INITIAL">> /\ textBuffer' = <<>> /\ token' = NoToken
  /\ nodes' = <<>> /\ stack' = <<>> /\ parsing' = "running"
  /\ scopes' = <<>> /\ outs' = <<>> /\ boundIn' = <<>> /\ parsed' = <<>>
  /\ UNCHANGED <<agenda, fault>>

SecondPass ==
  LET text == Output \o Cocktail IN
  /\ PassDone /\ pass = 1 /\ Cocktail # <<>>
  /\ pass' = 2
  /\ program' = text
  /\ source' = text /\ conds' = <<"INITIAL">> /\ textBuffer' = <<>> /\ token' = NoToken
  /\ nodes' = <<>> /\ stack' = <<>> /\ parsing' = "running"
  /\ scopes' = <<>> /\ outs' = <<>> /\ boundIn' = <<>> /\ parsed' = <<>>
  /\ UNCHANGED <<agenda, fault>>

Finished == \/ fault # "none"
            \/ PassDone /\ (pass = 2 \/ Cocktail = <<>>)

Next == Parse \/ Start \/ Evaluate \/ SecondPass \/ (Finished /\ UNCHANGED vars)

\* One thread, that never waits: it runs until it has finished
Spec == Init /\ [][Next]_vars /\ WF_vars(Next)
-----------------------------------------------------------------------------
Scopes == DOMAIN scopes

FrameOps == {"resolve_symbols", "resolve_calls", "bind", "copy", "instantiate",
             "do_calls", "close", "invoke", "returned"}

EntryRecord == [name : Seq(Characters), type : ExternKinds \union {"internal"},
                body : NodeIds \union {0}, target : Seq(Characters)]

TypeOK ==
  /\ \A s \in Scopes : /\ scopes[s].father \in Scopes \union {0}
                       /\ scopes[s].node \in NodeIds
                       /\ ToSet(scopes[s].childs) \subseteq Scopes
                       /\ scopes[s].namespace \in Seq(EntryRecord)
  /\ \A id \in NodeIds : /\ nodes[id].type \in NodeTypes
                         /\ ToSet(nodes[id].childs) \subseteq NodeIds
  /\ \A k \in DOMAIN agenda : /\ agenda[k].op \in FrameOps
                              /\ agenda[k].scope \in Scopes \union {0}
                              /\ agenda[k].node \in NodeIds
                              /\ agenda[k].flags \subseteq Flags
  /\ \A k \in DOMAIN outs : outs[k] \in Seq(Characters)
  /\ fault \in Faults
  /\ DOMAIN boundIn \subseteq NodeIds

(* The scopes are a tree rooted in the base scope: a scope is a child of its   *)
(* father and of no other, and fathers come before their children, so that the *)
(* walk of find_symbol_on_scopes up the fathers ends.                          *)
ScopeTree ==
  \A s \in Scopes :
    /\ IF s = 1 THEN scopes[s].father = 0 ELSE scopes[s].father \in 1..(s - 1)
    /\ \A t \in Scopes : Cardinality({k \in DOMAIN scopes[t].childs : scopes[t].childs[k] = s})
                          = (IF scopes[s].father = t THEN 1 ELSE 0)

(* resolve_calls finds the scope resolve_symbols made for the call: the error  *)
(* "Could not find call scope" (eval.c:289) is not printed.  (True of the      *)
(* programs of MCSharing; README.md has one in which a call of a shared body   *)
(* is bound again between the two passes.)                                     *)
CallScopeFound ==
  At("resolve_calls") /\ Type(Head1.node) = "CALL" =>
    FindScopeChild(Head1.scope, Head1.node) # 0

(* Every call is resolved before it is written: do_calls never meets a call    *)
(* that resolve_calls_call has not bound, and so drops none without a trace.   *)
ResolvedBeforeWritten == AtEmitCall => Head1.node \in DOMAIN boundIn

Blank(c) == c \in Blanks

(* Blank reduction leaves no two blanks together in any output, whatever calls *)
(* and arguments the two come from, and none at its start.                     *)
BlanksReduced ==
  \A k \in DOMAIN outs : \A i \in DOMAIN outs[k] :
    Blank(outs[k][i]) => i > 1 /\ ~ Blank(outs[k][i - 1])

\* The scopes from s up to the base
Above(s) == LET above[t \in 0..Len(scopes)] ==
                  IF t = 0 THEN {} ELSE {t} \union above[scopes[t].father]
            IN  above[s]

\* The program is still being resolved: its do_calls, the last thing to run, waits
Resolving == agenda # <<>> /\ Last(agenda) = Frame("do_calls", 0, 1)

ComputedNames == \E id \in DOMAIN parsed : parsed[id].type = "SYMBOL" /\ parsed[id].text = NoText

NamesOf(scope) == {scope.namespace[i].name : i \in DOMAIN scope.namespace}

(* A definition is seen by every call of its block, wherever in the block it   *)
(* is written: no scope is given a new name once a call below it has been      *)
(* bound.  (A computed name is resolved, and its definitions shared, out of    *)
(* turn; arguments that a body uses twice are resolved twice, and define the   *)
(* same names again.)                                                          *)
DefinedBeforeBound ==
  [][~ ComputedNames /\ Resolving =>
       \A n \in DOMAIN boundIn : \A s \in Above(scopes[boundIn[n]].father) :
         s \in DOMAIN scopes' => NamesOf(scopes'[s]) \subseteq NamesOf(scopes[s])]_vars

\* Binding gives a call of the program a second child: a body, or what is made for this call
CallAsBound(id) ==
  \E c \in NodeIds : /\ nodes[id] = [parsed[id] EXCEPT !.childs = <<parsed[id].childs[1], c>>]
                     /\ Len(parsed[id].childs) = 2 => c \notin DOMAIN parsed

\* It marks the name of the call
NameAsBound(id) ==
  /\ nodes[id] = [parsed[id] EXCEPT !.type = nodes[id].type]
  /\ nodes[id].type \in {"FUNCTION", "UNDEFINED"}
  /\ \E c \in DOMAIN boundIn \intersect DOMAIN parsed :
       parsed[c].type = "CALL" /\ parsed[c].childs[1] = id

\* The node is as the parser left it, or binding has changed it
AsWritten(id) == \/ nodes[id] = parsed[id]
                 \/ id \in DOMAIN boundIn /\ parsed[id].type = "CALL" /\ CallAsBound(id)
                 \/ NameAsBound(id)

(* The AST the parser made is the one memory of what the program says, and the *)
(* evaluator rewrites it in place.  Whatever is called, and however bodies are *)
(* shared, copied and filled with arguments, it changes a call that has been   *)
(* bound, and the name of one, and nothing else: a body keeps its "$*" and its *)
(* texts, and a call written with arguments is never given a body but a copy.  *)
ProgramKept == \A id \in DOMAIN parsed : AsWritten(id)

(* Only the document's computed names lead to a NULL function, a moved scope or *)
(* a name that is no call: a call that is written by name finds the function   *)
(* it was bound to again when it runs (eval.c:370 looks it up in the base      *)
(* scope, whatever scope it was bound in), also in bodies that were copied or  *)
(* shared, or evaluated by a library, and when the document redefines the name.*)
NamedCallsSafe == fault \in {"not_a_call", "bad_function", "stale_scope"} => ComputedNames

(* Every output buffer has one owner waiting for it: a call whose name, or     *)
(* whose function's arguments or result, is being written; the first is the    *)
(* program's.  So no text goes to the buffer of another call.                  *)
BuffersMatchFrames ==
  Started => Len(outs) = 1 + Cardinality({k \in DOMAIN agenda :
                                            \/ agenda[k].op \in {"invoke", "returned"}
                                            \/ agenda[k].op = "bind" /\ Computed(agenda[k])})

(* An extern function evaluates symbols in the scope its call was last         *)
(* resolved in (eval.c:283), or in one with the same meanings, although it is  *)
(* given the first one made for the node (eval.c:358).  (True of programs that *)
(* share no body.)                                                             *)
RunsWhereResolved ==
  At("invoke") =>
    \A s \in Above(RunScope(Head1)) \union Above(boundIn[Head1.node]) :
      \A i \in DOMAIN scopes[s].namespace :
        LET name == scopes[s].namespace[i].name
        IN  FindSymbol(RunScope(Head1), name) = FindSymbol(boundIn[Head1.node], name)

\* The node of the document that is being written: those after it are still on the agenda
NodeBeingWritten ==
  LET childs  == nodes[1].childs
      waiting == {k \in DOMAIN agenda : agenda[k].op = "do_calls" /\ agenda[k].node \in ToSet(childs)}
  IN  childs[Len(childs) - Cardinality(waiting)]

(* docs/library_development.md:26: "You can use this functions to get data     *)
(* from the callee context".  While the document is written, an extern         *)
(* function runs in a scope that is under the call being written, not under    *)
(* one that was written before or comes later.                                 *)
CalleeContext ==
  At("invoke") /\ ~ Resolving =>
    \E s \in Above(RunScope(Head1)) : scopes[s].node = NodeBeingWritten

(* eval.c:196 asserts that the first child of a call being resolved is a       *)
(* SYMBOL.                                                                     *)
SymbolAsserted == fault # "not_a_symbol"

\* eval.c:208 asserts that the block that computes a name is a call.
NameAsserted == fault # "not_a_call"

(* docs/library_development.md:30: ctx_eval_symbol "evalues and returns the    *)
(* text value of a symbol finding it by name", and its result has a status     *)
(* (line 21) to say that it could not.                                         *)
SymbolEvaluated == fault # "bad_symbol"

\* The compiler comes to an end, by itself or when its arenas are full
Terminates == <>Finished
=============================================================================
