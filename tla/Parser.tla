------------------------------ MODULE Parser ------------------------------
(* The grammar of vinumc/dry_bison.y as the shift-reduce machine bison makes   *)
(* of it: one action per group of productions, yylex called only when the top  *)
(* of the stack does not decide (a bison default reduction takes no token).    *)
EXTENDS Lexer

VARIABLES stack,    \* bison's stack: grammar symbols with their AST nodes
          parsing   \* "running", "accepted" or "error" (yyerror, then YYABORT)

parserVars == <<stack, parsing>>

Terminals    == {"[", "]", ":", "SYMBOL", "TEXT", "LITERAL", "ARG_REF_ALL_ARGS"}
Leaves       == {"TEXT", "LITERAL", "ARG_REF_ALL_ARGS"}
Nonterminals == {"program", "block", "args", "args_child", "symbol"}

Item(sym, node) == [sym |-> sym, node |-> node]

Height  == Len(stack)
Sym(k)  == IF k \in DOMAIN stack THEN stack[k].sym ELSE "bottom"
TopSym  == Sym(Height)
Node(k) == stack[k].node

\* The stack with its n topmost items reduced to one
Reduced(n, sym, node) == Append(SubSeq(stack, 1, Height - n), Item(sym, node))

\* The tokens each state that needs one accepts
Acceptable ==
  CASE TopSym = "program"           -> Leaves \union {"[", "EOF"}
    [] TopSym = "["                 -> {"SYMBOL", "["}
    [] TopSym = "symbol"            -> Leaves \union {"[", "]", ":"}
    [] TopSym = ":"                 -> Leaves \union {"["}
    [] TopSym = "args"              -> Leaves \union {"[", "]"}
    [] OTHER                        -> {}

NeedsToken == parsing = "running" /\ Acceptable # {}

ReadToken ==
  /\ NeedsToken
  /\ Lex
  /\ UNCHANGED parserVars

HasToken == NeedsToken /\ token # NoToken

Shift ==
  /\ HasToken
  /\ token.kind \in Acceptable \ {"EOF"}
  /\ stack' = Append(stack, Item(token.kind, token.node))
  /\ token' = NoToken
  /\ UNCHANGED <<source, conds, textBuffer, nodes, parsing>>

Accept ==
  /\ HasToken
  /\ token.kind = "EOF"
  /\ "EOF" \in Acceptable
  /\ parsing' = "accepted"
  /\ UNCHANGED <<source, conds, textBuffer, token, nodes, stack>>

(* The grammar has no error production: yyerror prints and yyparse gives up.   *)
(* compiler_parse ignores its result, and what was built so far is evaluated.  *)
SyntaxError ==
  /\ HasToken
  /\ token.kind \notin Acceptable
  /\ parsing' = "error"
  /\ UNCHANGED <<source, conds, textBuffer, token, nodes, stack>>

Reduce == parsing = "running" /\ UNCHANGED <<source, conds, textBuffer, token, parsing>>

\* program: %empty
ReduceEmptyProgram ==
  /\ stack = <<>>
  /\ nodes' = NewNode(nodes, "PROGRAM", NoText)
  /\ stack' = <<Item("program", Len(nodes) + 1)>>
  /\ Reduce

\* Mutant of ReduceAppendChild: the child is dropped
ReduceAppendNothing ==
  /\ TopSym = "args_child"
  /\ Sym(Height - 1) \in {"program", "args"}
  /\ stack' = Front(stack)
  /\ UNCHANGED nodes
  /\ Reduce

\* program: program args_child, and args: args args_child
ReduceAppendChild ==
  /\ TopSym = "args_child"
  /\ Sym(Height - 1) \in {"program", "args"}
  /\ nodes' = AddChild(nodes, Node(Height - 1), Node(Height))
  /\ stack' = Front(stack)
  /\ Reduce

\* args: args_child
ReduceFirstArg ==
  /\ TopSym = "args_child"
  /\ Sym(Height - 1) \in {"symbol", ":"}
  /\ nodes' = AddChild(NewNode(nodes, "ARGS", NoText), Len(nodes) + 1, Node(Height))
  /\ stack' = Reduced(1, "args", Len(nodes) + 1)
  /\ Reduce

\* args_child: TEXT | LITERAL | ARG_REF_ALL_ARGS | block
ReduceArgsChild ==
  /\ TopSym \in Leaves \union {"block"}
  /\ Sym(Height - 1) # "["
  /\ stack' = Reduced(1, "args_child", Node(Height))
  /\ UNCHANGED nodes
  /\ Reduce

\* symbol: SYMBOL, which is made lower case
ReduceName ==
  /\ TopSym = "SYMBOL"
  /\ nodes' = SetText(nodes, Node(Height), Lower(nodes[Node(Height)].text))
  /\ stack' = Reduced(1, "symbol", Node(Height))
  /\ Reduce

\* symbol: block, a computed name: a SYMBOL without text over the block
ReduceComputedName ==
  /\ TopSym = "block"
  /\ Sym(Height - 1) = "["
  /\ nodes' = AddChild(NewNode(nodes, "SYMBOL", NoText), Len(nodes) + 1, Node(Height))
  /\ stack' = Reduced(1, "symbol", Len(nodes) + 1)
  /\ Reduce

\* ast_node_new_nvl and an ast_add_child for each of the children
NewBlock(type, childs) == Append(nodes, [type |-> type, text |-> NoText, childs |-> childs])

\* Mutant of ReduceAssignment: the children are added in the other order
ReduceAssignmentSwapped ==
  /\ TopSym = "]"
  /\ Sym(Height - 2) = ":"
  /\ nodes' = NewBlock("ASSIGNMENT", <<Node(Height - 1), Node(Height - 3)>>)
  /\ stack' = Reduced(5, "block", Len(nodes) + 1)
  /\ Reduce

\* block: '[' symbol ':' args ']'
ReduceAssignment ==
  /\ TopSym = "]"
  /\ Sym(Height - 2) = ":"
  /\ nodes' = NewBlock("ASSIGNMENT", <<Node(Height - 3), Node(Height - 1)>>)
  /\ stack' = Reduced(5, "block", Len(nodes) + 1)
  /\ Reduce

\* block: '[' symbol args ']'
ReduceCallWithArgs ==
  /\ TopSym = "]"
  /\ Sym(Height - 1) = "args" /\ Sym(Height - 2) = "symbol"
  /\ nodes' = NewBlock("CALL", <<Node(Height - 2), Node(Height - 1)>>)
  /\ stack' = Reduced(4, "block", Len(nodes) + 1)
  /\ Reduce

\* block: '[' symbol ']'
ReduceCall ==
  /\ TopSym = "]"
  /\ Sym(Height - 1) = "symbol"
  /\ nodes' = NewBlock("CALL", <<Node(Height - 1)>>)
  /\ stack' = Reduced(3, "block", Len(nodes) + 1)
  /\ Reduce

ParseStep ==
  \/ ReadToken \/ Shift \/ Accept \/ SyntaxError
  \/ ReduceEmptyProgram \/ ReduceAppendChild \/ ReduceFirstArg \/ ReduceArgsChild
  \/ ReduceName \/ ReduceComputedName
  \/ ReduceAssignment \/ ReduceCallWithArgs \/ ReduceCall

ParserInit(src) ==   \* compiler_parse: a fresh scanner and a fresh parser
  /\ source = src
  /\ conds = <<"INITIAL">>
  /\ textBuffer = <<>>
  /\ token = NoToken
  /\ nodes = <<>>
  /\ stack = <<>>
  /\ parsing = "running"
-----------------------------------------------------------------------------
NodeIds == DOMAIN nodes

NodeRecord == [type : NodeTypes, text : Seq(Characters), childs : Seq(Nat)]

TokenRecord == [kind : Terminals \union {"none", "EOF"}, node : NodeIds \union {0}]
StackItem   == [sym : Terminals \union Nonterminals, node : NodeIds \union {0}]

(* Every node the grammar actions make has the shape the evaluator takes for   *)
(* granted when it reads child 0 and child 1 without a bound check.            *)
Shape(ns, id) ==
  LET n == ns[id]
      ChildType(k) == ns[n.childs[k]].type
  IN  CASE n.type = "ASSIGNMENT" -> /\ Len(n.childs) = 2
                                    /\ ChildType(1) = "SYMBOL"
                                    /\ ChildType(2) = "ARGS"
        [] n.type = "CALL"       -> /\ Len(n.childs) \in {1, 2}
                                    /\ ChildType(1) = "SYMBOL"
                                    /\ Len(n.childs) = 2 => ChildType(2) = "ARGS"
        [] n.type = "SYMBOL"     -> IF n.text # NoText
                                    THEN n.childs = <<>>
                                    ELSE /\ Len(n.childs) = 1
                                         /\ ChildType(1) \in {"CALL", "ASSIGNMENT"}
        [] n.type \in {"ARGS", "PROGRAM"} ->
             \A k \in DOMAIN n.childs :
               ChildType(k) \in Leaves \union {"CALL", "ASSIGNMENT"}
        [] OTHER                 -> n.type \in Leaves /\ n.childs = <<>>
=============================================================================
