------------------------------ MODULE Reader ------------------------------
(* The front end of the compiler: compiler_parse (libvinumc.c) on one source,  *)
(* the scanner and the parser taking turns.                                    *)
EXTENDS Parser

CONSTANT Sources   \* the texts to read

ASSUME SourcesAssumption == Sources \subseteq Seq(Characters)

VARIABLE program   \* the text being read

vars == <<nodes, program, lexVars, parserVars>>

Init == program \in Sources /\ ParserInit(program)

\* yyparse has returned
Returned == parsing # "running" /\ UNCHANGED vars

Next == (ParseStep /\ UNCHANGED program) \/ Returned

\* yyparse runs to its end: nothing in the compiler waits or yields
Spec == Init /\ [][Next]_vars /\ WF_vars(Next)
-----------------------------------------------------------------------------
TypeOK ==
  /\ source \in Seq(Characters) /\ textBuffer \in Seq(Characters)
  /\ conds \in Seq(StartConds \union {"IN_LITERAL"})
  /\ nodes \in Seq(NodeRecord)
  /\ token \in TokenRecord
  /\ stack \in Seq(StackItem)
  /\ parsing \in {"running", "accepted", "error"}

(* Whatever the source, and wherever a syntax error stops the parser, every    *)
(* node has the children the evaluator reads without looking: a call its name  *)
(* and at most its arguments, a definition both its name and its body.         *)
WellShaped == \A id \in NodeIds : Shape(nodes, id)

\* The places among the children of all nodes where id stands
Parents(id) == {place \in NodeIds \X (1..Len(nodes)) :
                  /\ place[2] \in DOMAIN nodes[place[1]].childs
                  /\ nodes[place[1]].childs[place[2]] = id}

Holders(id) == {k \in DOMAIN stack : stack[k].node = id}

(* No node the scanner or the parser makes is lost or used twice: it has one   *)
(* parent, or it waits in the stack or in the lookahead token.                 *)
EachNodeOnce ==
  \A id \in NodeIds :
    Cardinality(Parents(id)) + Cardinality(Holders(id)) + (IF token.node = id THEN 1 ELSE 0) = 1

Count(sym) == Cardinality({k \in DOMAIN stack : stack[k].sym = sym})

(* The scanner's start conditions and the parser's stack tell the same story:  *)
(* one condition per open block, the name's conditions exactly while the       *)
(* parser waits for a name, and CONTENT in a body.                             *)
ScannerAgrees ==
  NeedsToken /\ token = NoToken /\ Cond # "IN_LITERAL" =>
    /\ Len(conds) = 1 + Count("[")
    /\ TopSym = "program" => Cond = "INITIAL"
    /\ TopSym = "["       => Cond = "DEFINE_CALL_NAME"
    /\ TopSym = "symbol"  => Cond \in {"HAS_CALL_NAME", "CONTENT"}
    /\ TopSym \in {":", "args"} => Cond = "CONTENT"

(* Text is never left in the buffer when another token is returned, so it can  *)
(* neither be lost nor end up in a later block.                                *)
TextFlushed == token # NoToken => textBuffer = <<>>

(* libvinumc.h says of the text buffer: "preventing having two consecutive     *)
(* TEXT nodes that could be just one node".  Escapes and the characters that   *)
(* only look like the start of something do not break a text in two.           *)
NoAdjacentText ==
  \A id \in NodeIds : \A k \in 2..Len(nodes[id].childs) :
    ~ (nodes[nodes[id].childs[k]].type = "TEXT" /\ nodes[nodes[id].childs[k - 1]].type = "TEXT")

(* What the tree and the source are compared by: their characters without      *)
(* those of the markup, in lower case.  In a source without escapes and        *)
(* literals the markup is the brackets, the colon and the blanks.              *)
Markup ==
  Blanks \union {"[", "]", ":"}
  \union (IF \E i \in DOMAIN program : program[i] \in {"\\", "{"}
          THEN {"\\", "{", "#", "}"} ELSE {})

Kept(c, markup) == IF c \in markup THEN <<>> ELSE <<ToLower(c)>>
Bare(s, markup) == FlattenSeq([i \in DOMAIN s |-> Kept(s[i], markup)])

\* What a node stands for: its text, then its children, left to right
Own(n) == IF n.type = "ARG_REF_ALL_ARGS" THEN <<"$", "*">> ELSE n.text

Spelled(ns, markup) ==
  LET spelled[id \in DOMAIN ns] ==
        Bare(Own(ns[id]), markup)
        \o FlattenSeq([k \in DOMAIN ns[id].childs |-> spelled[ns[id].childs[k]]])
  IN  spelled

(* An accepted source is all in the tree, in order: names, texts, literals and *)
(* argument references, left to right, are the source without its markup       *)
(* (dry_flex.l, dry_bison.y: no rule drops text, or takes it twice).           *)
TreeSpellsSource ==
  parsing = "accepted" => Spelled(nodes, Markup)[1] = Bare(program, Markup)

\* Whatever it is given, the front end comes to an end
ReadingEnds == <>(parsing # "running")
=============================================================================
