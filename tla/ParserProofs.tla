---------------------------- MODULE ParserProofs ----------------------------
(* What every step of the scanner and of the parser keeps, for every text: the *)
(* types of their variables and the shape of the tree.                         *)
EXTENDS Parser, SequenceTheorems, WellFoundedInduction, TLAPS

\* A set of naturals that is not empty has a least element
LEMMA MinFacts ==
  ASSUME NEW T \in SUBSET Nat, T # {}
  PROVE  Min(T) \in T /\ \A y \in T : Min(T) <= y
<1>1. PICK x \in T : \A y \in T : ~ (<<y, x>> \in OpToRel(<, Nat))
  BY WFMin, NatLessThanWellFounded, Zenon
<1>2. \A y \in T : <<y, x>> \in Nat \X Nat
  OBVIOUS
<1>3. ASSUME NEW y \in T, y < x PROVE FALSE
  <2>1. <<y, x>> \in OpToRel(<, Nat)
    BY <1>2, <1>3 DEF OpToRel
  <2> QED
    BY <1>1, <2>1
<1>4. \A y \in T : x <= y
  BY <1>3
<1> QED
  BY <1>4 DEF Min

\* The greatest element of a finite set of numbers
LEMMA MaxFacts ==
  ASSUME NEW n \in Nat, NEW T \in SUBSET (0..n), T # {}
  PROVE  Max(T) \in T /\ \A y \in T : Max(T) >= y
<1> DEFINE U == {n - y : y \in T}
<1>1. U \in SUBSET Nat /\ U # {}
  <2>1. \A y \in T : n - y \in Nat
    OBVIOUS
  <2>2. PICK y \in T : TRUE
    OBVIOUS
  <2>3. n - y \in U
    BY <2>2
  <2> QED
    BY <2>1, <2>3
<1>2. PICK y \in T : Min(U) = n - y
  BY <1>1, MinFacts
<1>3. \A z \in T : Min(U) <= n - z
  BY <1>1, MinFacts
<1>4. \A z \in T : y >= z
  BY <1>2, <1>3
<1> QED
  BY <1>4 DEF Max

\* RunLength counts characters of the text, up to the first that is not in S
LEMMA RunLengthFacts ==
  ASSUME NEW s \in Seq(Characters), NEW S
  PROVE  /\ RunLength(s, S) \in 0..Len(s)
         /\ \A i \in 1..RunLength(s, S) : s[i] \in S
         /\ RunLength(s, S) < Len(s) => s[RunLength(s, S) + 1] \notin S
<1> DEFINE T == {n \in 0..Len(s) : \A i \in 1..n : s[i] \in S}
<1>1. T \in SUBSET (0..Len(s)) /\ 0 \in T
  OBVIOUS
<1>2. Len(s) \in Nat /\ T # {}
  BY <1>1
<1>3. Max(T) \in T /\ \A y \in T : Max(T) >= y
  BY <1>1, <1>2, MaxFacts
<1>4. RunLength(s, S) = Max(T)
  BY DEF RunLength
<1>5. ASSUME Max(T) < Len(s), s[Max(T) + 1] \in S PROVE FALSE
  <2> DEFINE n == Max(T)
  <2>1. n \in Nat /\ n + 1 \in 0..Len(s) /\ \A i \in 1..n : s[i] \in S
    BY <1>2, <1>3, <1>5
  <2> HIDE DEF n
  <2>2. \A i \in 1..(n + 1) : s[i] \in S
    BY <1>5, <2>1 DEF n
  <2>3. n + 1 \in T
    BY <2>1, <2>2
  <2> HIDE DEF T
  <2> QED
    BY <1>3, <2>1, <2>3 DEF n
<1> QED
  BY <1>3, <1>4, <1>5

-----------------------------------------------------------------------------
(* What the tree is at every moment, and how it may change.                    *)

Blocks == {"CALL", "ASSIGNMENT"}

\* A sequence of nodes whose children are nodes of it, and of the right shape
Tree(ns) ==
  /\ ns \in Seq(NodeRecord)
  /\ \A id \in DOMAIN ns : /\ \A k \in DOMAIN ns[id].childs : ns[id].childs[k] \in DOMAIN ns
                           /\ Shape(ns, id)

\* No node is lost, none changes its type, and no name is lost
Grows(ns, ms) ==
  /\ Len(ns) <= Len(ms)
  /\ \A id \in DOMAIN ns : /\ ms[id].type = ns[id].type
                           /\ ns[id].text # NoText => ms[id].text # NoText

\* A node whose own children are kept keeps its shape in a tree that grows
LEMMA ShapeKept ==
  ASSUME NEW ns, Tree(ns), NEW ms \in Seq(NodeRecord), Grows(ns, ms),
         NEW id \in DOMAIN ns,
         ms[id].childs = ns[id].childs, ms[id].text = NoText <=> ns[id].text = NoText
  PROVE  /\ \A k \in DOMAIN ms[id].childs : ms[id].childs[k] \in DOMAIN ms
         /\ Shape(ms, id)
<1>1. DOMAIN ns \subseteq DOMAIN ms
  BY DEF Tree, Grows
<1>2. \A k \in DOMAIN ns[id].childs :
        /\ ns[id].childs[k] \in DOMAIN ns
        /\ ms[ns[id].childs[k]].type = ns[ns[id].childs[k]].type
  BY DEF Tree, Grows
<1>3. ns[id].childs \in Seq(Nat) /\ ms[id].type = ns[id].type
  <2>1. ns \in Seq(NodeRecord) /\ id \in 1..Len(ns)
    BY DEF Tree
  <2>2. ns[id] \in NodeRecord
    BY <2>1
  <2> QED
    BY <2>2 DEF Grows, NodeRecord
<1>4. DOMAIN ns[id].childs = 1..Len(ns[id].childs)
  BY <1>3
<1>5. Shape(ns, id)
  BY DEF Tree
<1>6. Shape(ms, id)
  <2> DEFINE n == ns[id]
             m == ms[id]
  <2>1. m.type = n.type /\ m.childs = n.childs /\ (m.text = NoText <=> n.text = NoText)
    BY <1>3
  <2>2. \A k \in 1..Len(n.childs) : ms[n.childs[k]].type = ns[n.childs[k]].type
    BY <1>2, <1>4
  <2>3. Len(n.childs) \in Nat /\ DOMAIN m.childs = 1..Len(n.childs)
    BY <1>3, <1>4, <2>1
  <2>4. DOMAIN n.childs = 1..Len(n.childs)
    BY <1>4
  <2> HIDE DEF n, m
  <2> QED
    BY <1>5, <2>1, <2>2, <2>3, <2>4 DEF Shape, n, m
<1> QED
  BY <1>1, <1>2, <1>6

\* ast_add_node: a node whose children are there and that has its shape
LEMMA AppendTree ==
  ASSUME NEW ns, Tree(ns), NEW n \in NodeRecord,
         \A k \in DOMAIN n.childs : n.childs[k] \in DOMAIN ns,
         Shape(Append(ns, n), Len(ns) + 1)
  PROVE  Tree(Append(ns, n)) /\ Grows(ns, Append(ns, n))
<1> DEFINE ms == Append(ns, n)
<1>1. /\ ns \in Seq(NodeRecord) /\ ms \in Seq(NodeRecord)
      /\ Len(ms) = Len(ns) + 1
      /\ \A id \in DOMAIN ns : ms[id] = ns[id]
      /\ ms[Len(ns) + 1] = n
      /\ DOMAIN ms = DOMAIN ns \union {Len(ns) + 1}
  BY DEF Tree
<1>2. Grows(ns, ms)
  BY <1>1 DEF Grows
<1>3. ASSUME NEW id \in DOMAIN ns
      PROVE  /\ \A k \in DOMAIN ms[id].childs : ms[id].childs[k] \in DOMAIN ms
             /\ Shape(ms, id)
  BY <1>1, <1>2, ShapeKept
<1> QED
  BY <1>1, <1>2, <1>3 DEF Tree

\* ast_add_child, where any number of texts and blocks may be
LEMMA AddChildTree ==
  ASSUME NEW ns, Tree(ns), NEW p \in DOMAIN ns, NEW c \in DOMAIN ns,
         ns[p].type \in {"ARGS", "PROGRAM"}, ns[c].type \in Leaves \union Blocks
  PROVE  Tree(AddChild(ns, p, c)) /\ Grows(ns, AddChild(ns, p, c))
<1> DEFINE ms == AddChild(ns, p, c)
<1>1. ns \in Seq(NodeRecord) /\ p \in 1..Len(ns) /\ c \in 1..Len(ns)
  BY DEF Tree
<1>2. ns[p] \in NodeRecord /\ ns[p].childs \in Seq(Nat) /\ c \in Nat
  <2>1. ns[p] \in NodeRecord
    BY <1>1
  <2> QED
    BY <1>1, <2>1 DEF NodeRecord
<1>3. Append(ns[p].childs, c) \in Seq(Nat)
  BY <1>2
<1>4. [ns[p] EXCEPT !.childs = Append(@, c)] \in NodeRecord
  BY <1>2, <1>3 DEF NodeRecord
<1>5. /\ ms \in Seq(NodeRecord) /\ Len(ms) = Len(ns) /\ DOMAIN ms = DOMAIN ns
      /\ \A id \in DOMAIN ns : id # p => ms[id] = ns[id]
      /\ ms[p] = [ns[p] EXCEPT !.childs = Append(@, c)]
  BY <1>1, <1>4 DEF AddChild
<1>6. ms[p].type = ns[p].type /\ ms[p].text = ns[p].text /\ ms[p].childs = Append(ns[p].childs, c)
  BY <1>2, <1>5 DEF NodeRecord
<1>7. Grows(ns, ms)
  <2>1. Len(ns) <= Len(ms)
    BY <1>1, <1>5
  <2> HIDE DEF ms
  <2>2. ASSUME NEW id \in DOMAIN ns
        PROVE  ms[id].type = ns[id].type /\ ms[id].text = ns[id].text
    BY <1>5, <1>6
  <2> QED
    BY <2>1, <2>2 DEF Grows
<1>8. ASSUME NEW id \in DOMAIN ns, id # p
      PROVE  /\ \A k \in DOMAIN ms[id].childs : ms[id].childs[k] \in DOMAIN ms
             /\ Shape(ms, id)
  BY <1>5, <1>7, <1>8, ShapeKept
<1>9. /\ \A k \in DOMAIN ms[p].childs : ms[p].childs[k] \in DOMAIN ms
      /\ Shape(ms, p)
  <2>1. ASSUME NEW k \in DOMAIN ms[p].childs
        PROVE  /\ ms[p].childs[k] \in DOMAIN ms
               /\ ms[ms[p].childs[k]].type \in Leaves \union Blocks
    <3>1. CASE k = Len(ns[p].childs) + 1
      <4>1. ms[p].childs[k] = c
        BY <1>2, <1>6, <3>1
      <4> QED
        BY <1>5, <1>6, <4>1
    <3>2. CASE k \in 1..Len(ns[p].childs)
      <4>1. ms[p].childs[k] = ns[p].childs[k] /\ k \in DOMAIN ns[p].childs
        BY <1>2, <1>6, <3>2
      <4>2. ns[p].childs[k] \in DOMAIN ns /\ Shape(ns, p)
        BY <4>1 DEF Tree
      <4>3. ns[ns[p].childs[k]].type \in Leaves \union Blocks
        BY <4>1, <4>2 DEF Shape, Blocks
      <4> QED
        BY <1>5, <1>7, <4>1, <4>2, <4>3 DEF Grows
    <3> QED
      BY <1>2, <1>6, <3>1, <3>2
  <2> HIDE DEF ms
  <2>2. Shape(ms, p)
    BY <1>6, <2>1 DEF Shape, Blocks
  <2> QED
    BY <2>1, <2>2
<1> QED
  BY <1>5, <1>7, <1>8, <1>9 DEF Tree

\* ast_set_text, of a name by a name
LEMMA SetTextTree ==
  ASSUME NEW ns, Tree(ns), NEW id \in DOMAIN ns, ns[id].text # NoText,
         NEW text \in Seq(Characters), text # NoText
  PROVE  Tree(SetText(ns, id, text)) /\ Grows(ns, SetText(ns, id, text))
<1> DEFINE ms == SetText(ns, id, text)
<1>1. ns \in Seq(NodeRecord) /\ id \in 1..Len(ns)
  BY DEF Tree
<1>2. ns[id] \in NodeRecord
  BY <1>1
<1>3. [ns[id] EXCEPT !.text = text] \in NodeRecord
  BY <1>2 DEF NodeRecord
<1>4. /\ ms \in Seq(NodeRecord) /\ Len(ms) = Len(ns) /\ DOMAIN ms = DOMAIN ns
      /\ \A i \in DOMAIN ns : i # id => ms[i] = ns[i]
      /\ ms[id] = [ns[id] EXCEPT !.text = text]
  BY <1>1, <1>3 DEF SetText
<1>5. ms[id].type = ns[id].type /\ ms[id].text = text /\ ms[id].childs = ns[id].childs
  BY <1>2, <1>4 DEF NodeRecord
<1>6. Grows(ns, ms)
  <2>1. Len(ns) <= Len(ms)
    BY <1>1, <1>4
  <2> HIDE DEF ms
  <2>2. ASSUME NEW i \in DOMAIN ns
        PROVE  ms[i].type = ns[i].type /\ (ns[i].text # NoText => ms[i].text # NoText)
    BY <1>4, <1>5
  <2> QED
    BY <2>1, <2>2 DEF Grows
<1>7. ASSUME NEW i \in DOMAIN ns
      PROVE  /\ \A k \in DOMAIN ms[i].childs : ms[i].childs[k] \in DOMAIN ms
             /\ Shape(ms, i)
  BY <1>4, <1>5, <1>6, ShapeKept
<1> QED
  BY <1>4, <1>6, <1>7 DEF Tree

\* ast_node_new and ast_add_child: a fresh node with one child
LEMMA NewWithChild ==
  ASSUME NEW ns, Tree(ns), NEW type \in NodeTypes, NEW c \in Nat
  PROVE  AddChild(NewNode(ns, type, NoText), Len(ns) + 1, c)
           = Append(ns, [type |-> type, text |-> NoText, childs |-> <<c>>])
<1> DEFINE new == [type |-> type, text |-> NoText, childs |-> <<>>]
           full == [type |-> type, text |-> NoText, childs |-> <<c>>]
<1>1. ns \in Seq(NodeRecord) /\ new \in NodeRecord /\ full \in NodeRecord
  BY DEF Tree, NodeRecord, NoText
<1>2. [new EXCEPT !.childs = Append(@, c)] = full
  OBVIOUS
<1>3. [Append(ns, new) EXCEPT ![Len(ns) + 1] = full] = Append(ns, full)
  <2> HIDE DEF new, full
  <2> DEFINE s == [Append(ns, new) EXCEPT ![Len(ns) + 1] = full]
             t == Append(ns, full)
  <2>1. s \in Seq(NodeRecord) /\ t \in Seq(NodeRecord) /\ Len(s) = Len(t)
    BY <1>1
  <2>2. ASSUME NEW i \in 1..Len(s) PROVE s[i] = t[i]
    <3>1. Append(ns, new) \in Seq(NodeRecord) /\ Len(Append(ns, new)) = Len(ns) + 1
      BY <1>1
    <3>2. CASE i = Len(ns) + 1
      <4>1. Len(ns) + 1 \in DOMAIN Append(ns, new)
        BY <1>1, <3>1
      <4>2. s[Len(ns) + 1] = full
        BY <4>1
      <4>3. t[Len(ns) + 1] = full
        BY <1>1
      <4> QED
        BY <3>2, <4>2, <4>3
    <3>3. CASE i \in 1..Len(ns)
      <4>1. i \in DOMAIN Append(ns, new) /\ i # Len(ns) + 1
        BY <1>1, <3>1, <3>3
      <4>2. s[i] = Append(ns, new)[i]
        BY <4>1
      <4> QED
        BY <1>1, <3>3, <4>2
    <3>4. Len(s) = Len(ns) + 1 /\ Len(ns) \in Nat
      BY <1>1, <2>1
    <3> QED
      BY <3>2, <3>3, <3>4
  <2> QED
    BY <2>1, <2>2, SeqEqual
<1>4. Append(ns, new)[Len(ns) + 1] = new
  BY <1>1
<1> QED
  BY <1>2, <1>3, <1>4 DEF AddChild, NewNode

\* A tree that does not change grows
LEMMA GrowsSame == ASSUME NEW ns, Tree(ns) PROVE Grows(ns, ns)
BY DEF Tree, Grows

-----------------------------------------------------------------------------
(* What the tokens and the symbols on the parser's stack stand for.            *)

\* The types of the nodes a symbol of the grammar may stand for
TypesOf(sym) ==
  CASE sym = "program"              -> {"PROGRAM"}
    [] sym = "args"                 -> {"ARGS"}
    [] sym \in {"symbol", "SYMBOL"} -> {"SYMBOL"}
    [] sym = "block"                -> Blocks
    [] sym = "args_child"           -> Leaves \union Blocks
    [] sym \in Leaves               -> {sym}
    [] OTHER                        -> {}

HasNode == Nonterminals \union Leaves \union {"SYMBOL"}

Stands(ns, sym, id) ==
  sym \in HasNode => /\ id \in DOMAIN ns
                     /\ ns[id].type \in TypesOf(sym)
                     /\ sym = "SYMBOL" => ns[id].text # NoText

\* What stands for a node keeps it in a tree that grows
LEMMA StandsKept ==
  ASSUME NEW ns, Tree(ns), NEW ms, Tree(ms), Grows(ns, ms),
         NEW sym, NEW id, Stands(ns, sym, id)
  PROVE  Stands(ms, sym, id)
<1>1. DOMAIN ns \subseteq DOMAIN ms
  BY DEF Tree, Grows
<1> QED
  BY <1>1 DEF Stands, Grows

LexTypes ==
  /\ source \in Seq(Characters) /\ textBuffer \in Seq(Characters)
  /\ conds \in Seq(StartConds \union {"IN_LITERAL"})

TokenInv == token \in TokenRecord /\ Stands(nodes, token.kind, token.node)

-----------------------------------------------------------------------------
\* The scanner

\* What is left of the source after n characters is a text
LEMMA DropType ==
  ASSUME LexTypes, NEW n \in Nat
  PROVE  Drop(n) \in Seq(Characters)
<1>1. source \in Seq(Characters) /\ Len(source) \in Nat
  BY DEF LexTypes
<1>2. \A i \in (n + 1)..Len(source) : source[i] \in Characters
  BY <1>1
<1> QED
  BY <1>1, <1>2, SubSeqProperties DEF Drop

\* A part of the source is a text
LEMMA PartType ==
  ASSUME LexTypes, NEW m \in Nat \ {0}, NEW n \in Nat, n <= Len(source)
  PROVE  /\ SubSeq(source, m, n) \in Seq(Characters)
         /\ m <= n => SubSeq(source, m, n) # <<>>
<1>1. source \in Seq(Characters) /\ Len(source) \in Nat
  BY DEF LexTypes
<1>2. \A i \in m..n : source[i] \in Characters
  BY <1>1
<1>3. /\ SubSeq(source, m, n) \in Seq(Characters)
      /\ Len(SubSeq(source, m, n)) = IF m <= n THEN n - m + 1 ELSE 0
  BY <1>1, <1>2, SubSeqProperties
<1> QED
  BY <1>3

\* replace_state and yy_pop_state leave a stack of start conditions
LEMMA CondsType ==
  ASSUME LexTypes
  PROVE  /\ Front(conds) \in Seq(StartConds \union {"IN_LITERAL"})
         /\ \A c \in StartConds : Replaced(c) \in Seq(StartConds \union {"IN_LITERAL"})
<1> DEFINE S == StartConds \union {"IN_LITERAL"}
<1>1. conds \in Seq(S) /\ Len(conds) \in Nat
  BY DEF LexTypes
<1>2. \A i \in 1..(Len(conds) - 1) : conds[i] \in S
  BY <1>1
<1>3. Front(conds) \in Seq(S)
  BY <1>1, <1>2, SubSeqProperties DEF Front
<1> QED
  BY <1>3 DEF Replaced

\* The token of a rule that makes a node stands for that node
LEMMA ReturnNodeInv ==
  ASSUME Tree(nodes), LexTypes,
         NEW type \in Leaves \union {"SYMBOL"}, NEW text \in Seq(Characters), NEW n \in Nat,
         type = "SYMBOL" => text # NoText,
         ReturnNode(type, text, n)
  PROVE  /\ Tree(nodes)' /\ Grows(nodes, nodes')
         /\ TokenInv'
         /\ source' \in Seq(Characters)
<1> DEFINE rec == [type |-> type, text |-> text, childs |-> <<>>]
<1>1. nodes \in Seq(NodeRecord) /\ rec \in NodeRecord
  BY DEF Tree, NodeRecord, NodeTypes, Leaves
<1>2. nodes' = Append(nodes, rec)
  BY DEF ReturnNode, NewNode
<1>3. Append(nodes, rec)[Len(nodes) + 1] = rec
  BY <1>1
<1>4. Shape(Append(nodes, rec), Len(nodes) + 1)
  BY <1>3 DEF Shape, Leaves
<1>5. Tree(nodes)' /\ Grows(nodes, nodes')
  BY <1>1, <1>2, <1>4, AppendTree
<1>6. token' = [kind |-> type, node |-> Len(nodes) + 1] /\ Len(nodes) + 1 \in DOMAIN nodes'
  BY <1>1, <1>2 DEF ReturnNode
<1>7. TokenInv'
  BY <1>2, <1>3, <1>6 DEF TokenInv, TokenRecord, NodeIds, Stands, TypesOf, Terminals, Leaves
<1>8. source' \in Seq(Characters)
  BY DropType DEF ReturnNode
<1> QED
  BY <1>5, <1>7, <1>8

\* A token without a node, or no token
LEMMA PunctuationInv ==
  ASSUME Tree(nodes), UNCHANGED nodes,
         NEW kind \in {"[", "]", ":", "EOF", "none"}, token' = Punctuation(kind)
  PROVE  Tree(nodes)' /\ Grows(nodes, nodes') /\ TokenInv'
<1>1. Tree(nodes)' /\ Grows(nodes, nodes')
  BY GrowsSame
<1>2. TokenInv'
  BY DEF Punctuation, TokenInv, TokenRecord, NodeIds, Stands, HasNode, Nonterminals, Terminals, Leaves
<1> QED
  BY <1>1, <1>2

\* The run a rule matches is a part of the source
LEMMA RunPart ==
  ASSUME LexTypes, NEW S
  PROVE  /\ RunLength(source, S) \in Nat
         /\ Take(RunLength(source, S)) \in Seq(Characters)
         /\ RunLength(source, S) > 0 => Take(RunLength(source, S)) # <<>>
<1>1. RunLength(source, S) \in 0..Len(source) /\ Len(source) \in Nat
  BY RunLengthFacts DEF LexTypes
<1> QED
  BY <1>1, PartType DEF Take

\* Every rule of the scanner keeps the types, and makes a token that stands for its node
LEMMA LexInv ==
  ASSUME Tree(nodes), LexTypes, Lex
  PROVE  Tree(nodes)' /\ Grows(nodes, nodes') /\ LexTypes' /\ TokenInv'
<1> USE DEF Scanning
<1>0. NoToken = Punctuation("none")
  BY DEF NoToken, Punctuation
<1>1. CASE SkipBlanks
  <2>1. source' \in Seq(Characters)
    BY <1>1, RunPart, DropType DEF SkipBlanks
  <2>2. token' = Punctuation("none") /\ UNCHANGED <<nodes, conds, textBuffer>>
    BY <1>0, <1>1 DEF SkipBlanks
  <2> QED
    BY <2>1, <2>2, PunctuationInv DEF LexTypes
<1>2. CASE InitialText
  <2> DEFINE run == RunLength(source, NotBracket(source))
  <2>1. run \in Nat /\ Take(run) \in Seq(Characters)
    BY RunPart
  <2>2. ReturnNode("TEXT", Take(run), run) /\ UNCHANGED <<conds, textBuffer>>
    BY <1>2 DEF InitialText
  <2>3. "TEXT" \in Leaves
    BY DEF Leaves
  <2> QED
    BY <2>1, <2>2, <2>3, ReturnNodeInv DEF LexTypes
<1>3. CASE OpenBlock
  <2>1. conds' \in Seq(StartConds \union {"IN_LITERAL"})
    <3>1. Append(conds, "DEFINE_CALL_NAME") \in Seq(StartConds \union {"IN_LITERAL"})
      BY DEF LexTypes, StartConds
    <3>2. Append(Replaced("HAS_CALL_NAME"), "DEFINE_CALL_NAME")
            \in Seq(StartConds \union {"IN_LITERAL"})
      BY CondsType DEF StartConds
    <3> QED
      BY <1>3, <3>1, <3>2 DEF OpenBlock
  <2>2. source' \in Seq(Characters)
    BY <1>3, DropType DEF OpenBlock
  <2> QED
    BY <1>3, <2>1, <2>2, PunctuationInv DEF OpenBlock, LexTypes
<1>4. CASE CloseBlock
  <2>1. conds' \in Seq(StartConds \union {"IN_LITERAL"}) /\ source' \in Seq(Characters)
    BY <1>4, CondsType, DropType DEF CloseBlock, LexTypes
  <2> QED
    BY <1>4, <2>1, PunctuationInv DEF CloseBlock, LexTypes
<1>5. CASE Colon
  <2>1. conds' \in Seq(StartConds \union {"IN_LITERAL"})
    BY <1>5, CondsType DEF Colon, StartConds
  <2>2. source' \in Seq(Characters)
    BY <1>5, RunPart, DropType DEF Colon
  <2> QED
    BY <1>5, <2>1, <2>2, PunctuationInv DEF Colon, LexTypes
<1>6. CASE Symbol
  <2> DEFINE run == RunLength(source, NotBracket(source) \ (Blanks \union {":"}))
  <2>1. run \in Nat /\ Take(run) \in Seq(Characters) /\ (run > 0 => Take(run) # <<>>)
    BY RunPart
  <2>2. ReturnNode("SYMBOL", Take(run), run) /\ run > 0 /\ UNCHANGED textBuffer
    BY <1>6 DEF Symbol
  <2>3. Tree(nodes)' /\ Grows(nodes, nodes') /\ TokenInv' /\ source' \in Seq(Characters)
    BY <2>1, <2>2, ReturnNodeInv DEF NoText
  <2>4. conds' \in Seq(StartConds \union {"IN_LITERAL"})
    BY <1>6, CondsType DEF Symbol, StartConds
  <2> QED
    BY <2>2, <2>3, <2>4 DEF LexTypes
<1>7. CASE NameEnds
  <2>1. source' \in Seq(Characters)
    BY <1>7, DropType DEF NameEnds, LexTypes
  <2>2. conds' \in Seq(StartConds \union {"IN_LITERAL"})
    BY <1>7, CondsType DEF NameEnds, StartConds
  <2>3. token' = Punctuation("none") /\ UNCHANGED <<nodes, textBuffer>>
    BY <1>0, <1>7 DEF NameEnds
  <2> QED
    BY <2>1, <2>2, <2>3, PunctuationInv DEF LexTypes
<1>8. CASE ArgRef
  <2>1. ReturnNode("ARG_REF_ALL_ARGS", NoText, 2) /\ UNCHANGED <<conds, textBuffer>>
    BY <1>8 DEF ArgRef
  <2>2. "ARG_REF_ALL_ARGS" \in Leaves /\ NoText \in Seq(Characters)
    BY DEF Leaves, NoText
  <2> QED
    BY <2>1, <2>2, ReturnNodeInv DEF LexTypes
<1>9. CASE Literal
  <2>1. CASE Len(source) = 2
    <3>1. /\ source' = <<>> /\ conds' = Append(conds, "IN_LITERAL")
          /\ token' = Punctuation("none") /\ UNCHANGED <<nodes, textBuffer>>
      BY <1>0, <1>9, <2>1 DEF Literal, InContent
    <3>2. source' \in Seq(Characters) /\ conds' \in Seq(StartConds \union {"IN_LITERAL"})
      BY <3>1 DEF LexTypes
    <3> QED
      BY <3>1, <3>2, PunctuationInv DEF LexTypes
  <2>2. CASE Len(source) # 2 /\ LiteralEnds # {}
    <3> DEFINE e == Min(LiteralEnds)
    <3>1. Len(source) \in Nat
      BY DEF LexTypes
    <3>2. e \in Nat /\ e >= 3 /\ e <= Len(source) - 1
      <4>1. \A k \in LiteralEnds : k \in 3..(Len(source) - 1)
        BY DEF LiteralEnds
      <4>2. \A k \in LiteralEnds : k \in Nat /\ k >= 3 /\ k <= Len(source) - 1
        BY <3>1, <4>1
      <4>3. LiteralEnds \in SUBSET Nat
        BY <4>2
      <4>4. e \in LiteralEnds
        BY <2>2, <4>3, MinFacts
      <4> QED
        BY <4>2, <4>4
    <3>3. SubSeq(source, 3, e - 1) \in Seq(Characters) /\ e + 1 \in Nat
      BY <3>1, <3>2, PartType
    <3>4. ReturnNode("LITERAL", SubSeq(source, 3, e - 1), e + 1) /\ UNCHANGED <<conds, textBuffer>>
      BY <1>9, <2>2 DEF Literal
    <3>5. "LITERAL" \in Leaves
      BY DEF Leaves
    <3> QED
      BY <3>3, <3>4, <3>5, ReturnNodeInv DEF LexTypes
  <2>3. CASE Len(source) # 2 /\ LiteralEnds = {}
    <3>1. ReturnNode("LITERAL", Drop(2), Len(source)) /\ UNCHANGED <<conds, textBuffer>>
      BY <1>9, <2>3 DEF Literal
    <3>2. "LITERAL" \in Leaves /\ Drop(2) \in Seq(Characters) /\ Len(source) \in Nat
      BY DropType DEF Leaves, LexTypes
    <3> QED
      BY <3>1, <3>2, ReturnNodeInv DEF LexTypes
  <2> QED
    BY <2>1, <2>2, <2>3
<1>10. CASE TextChar
  <2> DEFINE n == IF First(source) = "\\" /\ Len(source) > 1 THEN 2 ELSE 1
             buffer == Append(textBuffer, source[n])
  <2>1. n \in Nat /\ buffer \in Seq(Characters)
    <3>1. source \in Seq(Characters) /\ textBuffer \in Seq(Characters) /\ Len(source) \in Nat
      BY DEF LexTypes
    <3>2. source # <<>>
      BY <1>10 DEF TextChar, First
    <3>3. n \in 1..Len(source)
      BY <3>1, <3>2
    <3> QED
      BY <3>1, <3>3
  <2>2. CASE TextEnds(Drop(n))
    <3>1. ReturnNode("TEXT", buffer, n) /\ textBuffer' = <<>> /\ UNCHANGED conds
      BY <1>10, <2>2 DEF TextChar
    <3>2. "TEXT" \in Leaves
      BY DEF Leaves
    <3> HIDE DEF n, buffer
    <3> QED
      BY <2>1, <3>1, <3>2, ReturnNodeInv DEF LexTypes
  <2>3. CASE ~ TextEnds(Drop(n))
    <3>1. /\ source' = Drop(n) /\ textBuffer' = buffer
          /\ token' = Punctuation("none") /\ UNCHANGED <<nodes, conds>>
      BY <1>0, <1>10, <2>3 DEF TextChar, InContent
    <3>2. source' \in Seq(Characters) /\ textBuffer' \in Seq(Characters)
      BY <2>1, <3>1, DropType
    <3>3. conds' \in Seq(StartConds \union {"IN_LITERAL"})
      BY <3>1 DEF LexTypes
    <3> QED
      BY <3>1, <3>2, <3>3, PunctuationInv DEF LexTypes
  <2> QED
    BY <2>2, <2>3
<1>11. CASE EndOfSource
  BY <1>11, PunctuationInv DEF EndOfSource, LexTypes
<1> QED
  BY <1>1, <1>2, <1>3, <1>4, <1>5, <1>6, <1>7, <1>8, <1>9, <1>10, <1>11 DEF Lex

-----------------------------------------------------------------------------
(* The parser's stack: every symbol on it stands for a node of its type, and   *)
(* what the reductions take from under the top is there.                       *)

\* What may be under a symbol on the stack
Follows(below, sym) ==
  /\ sym \in {"SYMBOL", "symbol"} => below = "["
  /\ sym = ":" => below = "symbol"
  /\ sym = "]" => below \in {"symbol", "args"}

StackInv ==
  /\ stack \in Seq(StackItem)
  /\ \A k \in DOMAIN stack : /\ Stands(nodes, stack[k].sym, stack[k].node)
                             /\ Follows(Sym(k - 1), stack[k].sym)

(* What holds from one step of the parser to the next.                         *)
ParserInv ==
  /\ Tree(nodes)
  /\ LexTypes
  /\ TokenInv
  /\ StackInv
  /\ parsing \in {"running", "accepted", "error"}

\* A lower part of the stack keeps what the invariant says of it
LEMMA LowerPart ==
  ASSUME Tree(nodes), Tree(nodes'), Grows(nodes, nodes'), StackInv,
         NEW h \in 0..Height, NEW k \in 1..h
  PROVE  /\ stack[k] \in StackItem'
         /\ Stands(nodes', stack[k].sym, stack[k].node)
         /\ Follows(Sym(k - 1), stack[k].sym)
<1>1. stack \in Seq(StackItem) /\ k \in DOMAIN stack /\ k \in 1..Len(stack)
  BY DEF StackInv, Height
<1>2. stack[k] \in StackItem
  BY <1>1
<1>3. NodeIds \subseteq NodeIds'
  BY DEF NodeIds, Tree, Grows
<1>4. stack[k] \in StackItem'
  BY <1>2, <1>3 DEF StackItem
<1>5. Stands(nodes, stack[k].sym, stack[k].node) /\ Follows(Sym(k - 1), stack[k].sym)
  BY <1>1 DEF StackInv
<1> QED
  BY <1>4, <1>5, StandsKept

\* The n topmost symbols are replaced by one, n = 0 being a shift
LEMMA PushInv ==
  ASSUME Tree(nodes), Tree(nodes'), Grows(nodes, nodes'), StackInv,
         NEW n \in 0..Height, NEW sym \in Terminals \union Nonterminals, NEW node,
         node \in NodeIds' \union {0},
         Stands(nodes', sym, node),
         Follows(Sym(Height - n), sym),
         stack' = Reduced(n, sym, node)
  PROVE  StackInv'
<1> DEFINE h == Height - n
           s == SubSeq(stack, 1, h)
<1>1. stack \in Seq(StackItem) /\ Height \in Nat /\ h \in 0..Height /\ Height = Len(stack)
  BY DEF StackInv, Height
<1>2. \A k \in 1..h : stack[k] \in StackItem'
  BY <1>1, LowerPart
<1>3. s \in Seq(StackItem') /\ Len(s) = h /\ \A k \in 1..h : s[k] = stack[k]
  BY <1>1, <1>2, SubSeqProperties
<1>4. stack' = Append(s, Item(sym, node)) /\ Item(sym, node) \in StackItem'
  BY DEF Reduced, Item, StackItem
<1>5. /\ stack' \in Seq(StackItem') /\ DOMAIN stack' = 1..(h + 1)
      /\ stack'[h + 1] = Item(sym, node)
      /\ \A k \in 1..h : stack'[k] = stack[k]
  BY <1>1, <1>3, <1>4
<1>6. \A k \in 0..h : Sym(k)' = Sym(k)
  <2> TAKE k \in 0..h
  <2>1. CASE k = 0
    BY <1>1, <1>5, <2>1 DEF Sym
  <2>2. CASE k \in 1..h
    BY <1>1, <1>5, <2>2 DEF Sym
  <2> QED
    BY <1>1, <2>1, <2>2
<1>7. ASSUME NEW k \in DOMAIN stack'
      PROVE  Stands(nodes', stack'[k].sym, stack'[k].node) /\ Follows(Sym(k - 1)', stack'[k].sym)
  <2>1. CASE k = h + 1
    <3>1. stack'[k].sym = sym /\ stack'[k].node = node
      BY <1>5, <2>1 DEF Item
    <3>2. Sym(k - 1)' = Sym(h)
      BY <1>1, <1>6, <2>1
    <3> QED
      BY <3>1, <3>2
  <2>2. CASE k \in 1..h
    <3>1. Sym(k - 1)' = Sym(k - 1)
      BY <1>1, <1>6, <2>2
    <3> QED
      BY <1>1, <1>5, <2>2, <3>1, LowerPart
  <2> QED
    BY <1>1, <1>5, <2>1, <2>2
<1> QED
  BY <1>5, <1>7 DEF StackInv

\* The topmost symbol is taken off
LEMMA PopInv ==
  ASSUME Tree(nodes), Tree(nodes'), Grows(nodes, nodes'), StackInv, Height >= 1,
         stack' = Front(stack)
  PROVE  StackInv'
<1> DEFINE h == Height - 1
<1>1. stack \in Seq(StackItem) /\ Height \in Nat /\ h \in 0..Height /\ Height = Len(stack)
  BY DEF StackInv, Height
<1>2. \A k \in 1..h : stack[k] \in StackItem'
  BY <1>1, LowerPart
<1>3. stack' = SubSeq(stack, 1, h)
  BY <1>1 DEF Front
<1>4. stack' \in Seq(StackItem') /\ Len(stack') = h /\ \A k \in 1..h : stack'[k] = stack[k]
  BY <1>1, <1>2, <1>3, SubSeqProperties
<1>5. DOMAIN stack' = 1..h
  BY <1>4
<1>6. ASSUME NEW k \in 1..h
      PROVE  Sym(k - 1)' = Sym(k - 1)
  <2>1. CASE k = 1
    BY <1>1, <1>5, <2>1 DEF Sym
  <2>2. CASE k # 1
    <3>1. k - 1 \in 1..h /\ k - 1 \in DOMAIN stack
      BY <1>1, <2>2
    <3> QED
      BY <1>4, <1>5, <3>1 DEF Sym
  <2> QED
    BY <2>1, <2>2
<1>7. \A k \in 1..h : /\ Stands(nodes', stack'[k].sym, stack'[k].node)
                      /\ Follows(Sym(k - 1)', stack'[k].sym)
  BY <1>1, <1>4, <1>6, LowerPart
<1> QED
  BY <1>4, <1>5, <1>7 DEF StackInv

\* The stack is left alone while the tree grows
LEMMA StackKept ==
  ASSUME Tree(nodes), Tree(nodes'), Grows(nodes, nodes'), StackInv, stack' = stack
  PROVE  StackInv'
<1>1. stack \in Seq(StackItem) /\ Height \in Nat /\ Height \in 0..Height /\ Height = Len(stack)
  BY DEF StackInv, Height
<1>2. \A k \in 1..Height : /\ stack[k] \in StackItem'
                           /\ Stands(nodes', stack[k].sym, stack[k].node)
                           /\ Follows(Sym(k - 1), stack[k].sym)
  BY <1>1, LowerPart
<1>3. \A k \in 1..Height : Sym(k - 1)' = Sym(k - 1)
  BY DEF Sym
<1>4. stack \in Seq(StackItem')
  BY <1>1, <1>2
<1> QED
  BY <1>1, <1>2, <1>3, <1>4 DEF StackInv

-----------------------------------------------------------------------------
(* The parser's actions.                                                       *)

\* A symbol that is found on the stack stands for its node, over what it may follow
LEMMA SymFacts ==
  ASSUME StackInv, NEW k \in Int, Sym(k) # "bottom"
  PROVE  /\ k \in 1..Height
         /\ Node(k) \in NodeIds \union {0}
         /\ Stands(nodes, Sym(k), Node(k))
         /\ Follows(Sym(k - 1), Sym(k))
<1>1. stack \in Seq(StackItem) /\ k \in DOMAIN stack /\ Sym(k) = stack[k].sym
  BY DEF StackInv, Sym
<1>2. k \in 1..Height /\ stack[k] \in StackItem
  BY <1>1 DEF Height
<1> QED
  BY <1>1, <1>2 DEF StackInv, StackItem, Node

\* The lookahead token waits while the tree grows
LEMMA TokenKept ==
  ASSUME Tree(nodes), Tree(nodes'), Grows(nodes, nodes'), TokenInv, token' = token
  PROVE  TokenInv'
<1>1. NodeIds \subseteq NodeIds'
  BY DEF NodeIds, Tree, Grows
<1>2. token \in TokenRecord'
  BY <1>1 DEF TokenInv, TokenRecord
<1> QED
  BY <1>2, StandsKept DEF TokenInv

\* A reduction: the parser pushes a node of the tree it has made grow
LEMMA ReductionInv ==
  ASSUME ParserInv, Reduce, Tree(nodes'), Grows(nodes, nodes'),
         NEW n \in 0..Height, NEW sym \in Terminals \union Nonterminals, NEW node,
         node \in NodeIds', Stands(nodes', sym, node),
         Follows(Sym(Height - n), sym),
         stack' = Reduced(n, sym, node)
  PROVE  ParserInv'
<1>1. Tree(nodes) /\ LexTypes /\ TokenInv /\ StackInv
  BY DEF ParserInv
<1>2. StackInv'
  BY <1>1, PushInv
<1>3. TokenInv' /\ LexTypes'
  BY <1>1, TokenKept DEF Reduce, LexTypes
<1>4. Tree(nodes)' /\ parsing' \in {"running", "accepted", "error"}
  BY DEF ParserInv, Reduce
<1> QED
  BY <1>2, <1>3, <1>4 DEF ParserInv

\* The symbols that follow anything
LEMMA FollowAny ==
  ASSUME NEW below, NEW sym \in {"program", "args", "args_child", "block"}
  PROVE  Follows(below, sym)
BY DEF Follows

\* A reduction to a new node that has its shape
LEMMA NewNodeInv ==
  ASSUME ParserInv, Reduce,
         NEW n \in NodeRecord, \A k \in DOMAIN n.childs : n.childs[k] \in NodeIds,
         Shape(Append(nodes, n), Len(nodes) + 1),
         nodes' = Append(nodes, n),
         NEW m \in 0..Height, NEW sym \in Nonterminals, n.type \in TypesOf(sym),
         Follows(Sym(Height - m), sym),
         stack' = Reduced(m, sym, Len(nodes) + 1)
  PROVE  ParserInv'
<1>1. Tree(nodes) /\ nodes \in Seq(NodeRecord)
  BY DEF ParserInv, Tree
<1>2. Tree(nodes') /\ Grows(nodes, nodes')
  BY <1>1, AppendTree DEF NodeIds
<1>3. Len(nodes) + 1 \in NodeIds' /\ nodes'[Len(nodes) + 1] = n
  BY <1>1 DEF NodeIds
<1>4. Stands(nodes', sym, Len(nodes) + 1)
  BY <1>3 DEF Stands, NodeIds, Nonterminals
<1> QED
  BY <1>2, <1>3, <1>4, ReductionInv

\* yylex: the new token is of the tree the scanner has made grow
LEMMA ReadTokenInv ==
  ASSUME ParserInv, ReadToken
  PROVE  ParserInv'
<1>1. Tree(nodes)' /\ Grows(nodes, nodes') /\ LexTypes' /\ TokenInv'
  BY LexInv DEF ParserInv, ReadToken
<1>2. StackInv'
  BY <1>1, StackKept DEF ParserInv, ReadToken, parserVars
<1> QED
  BY <1>1, <1>2 DEF ParserInv, ReadToken, parserVars

\* A shift: what the token stands for, the symbol on the stack stands for
LEMMA ShiftInv ==
  ASSUME ParserInv, Shift
  PROVE  ParserInv'
<1>1. Tree(nodes) /\ LexTypes /\ TokenInv /\ StackInv
  BY DEF ParserInv
<1>2. Tree(nodes') /\ Grows(nodes, nodes') /\ nodes' = nodes
  BY <1>1, GrowsSame DEF Shift
<1>3. token.kind \in Acceptable \ {"EOF"} /\ stack' = Append(stack, Item(token.kind, token.node))
  BY DEF Shift
<1>4. token.kind \in Terminals /\ token.node \in NodeIds' \union {0}
  <2>1. token.kind \in Terminals \union {"none", "EOF"} /\ token.node \in NodeIds \union {0}
    BY <1>1 DEF TokenInv, TokenRecord
  <2>2. token.kind # "none"
    BY <1>3 DEF Acceptable, Leaves
  <2> QED
    BY <1>2, <1>3, <2>1, <2>2 DEF NodeIds
<1>5. Stands(nodes', token.kind, token.node)
  BY <1>1, <1>2 DEF TokenInv
<1>6. Follows(TopSym, token.kind)
  BY <1>3 DEF Acceptable, Follows, Leaves
<1>7. stack' = Reduced(0, token.kind, token.node) /\ Height \in Nat /\ Sym(Height - 0) = TopSym
  <2>1. stack \in Seq(StackItem) /\ Height = Len(stack)
    BY <1>1 DEF StackInv, Height
  <2>2. SubSeq(stack, 1, Len(stack)) = stack
    BY <2>1, SubSeqFull
  <2> QED
    BY <1>3, <2>1, <2>2 DEF Reduced, TopSym
<1>8. StackInv'
  BY <1>1, <1>2, <1>4, <1>5, <1>6, <1>7, PushInv
<1>9. TokenInv' /\ LexTypes'
  <2>1. NoToken = Punctuation("none")
    BY DEF NoToken, Punctuation
  <2>2. TokenInv'
    BY <1>1, <1>2, <2>1, PunctuationInv DEF Shift
  <2> QED
    BY <1>1, <2>2 DEF Shift, LexTypes
<1> QED
  BY <1>2, <1>8, <1>9 DEF ParserInv, Shift

\* yyparse ends: nothing it has built changes
LEMMA EndInv ==
  ASSUME ParserInv, Accept \/ SyntaxError
  PROVE  ParserInv'
<1>1. /\ UNCHANGED <<source, conds, textBuffer, token, nodes, stack>>
      /\ parsing' \in {"accepted", "error"}
  BY DEF Accept, SyntaxError
<1> QED
  BY <1>1 DEF ParserInv, Tree, Shape, LexTypes, TokenInv, TokenRecord, NodeIds, Stands, StackInv, StackItem, Sym

\* program: %empty makes the root
LEMMA EmptyProgramInv ==
  ASSUME ParserInv, ReduceEmptyProgram
  PROVE  ParserInv'
<1> DEFINE n == [type |-> "PROGRAM", text |-> NoText, childs |-> <<>>]
<1>1. nodes \in Seq(NodeRecord) /\ n \in NodeRecord
  BY DEF ParserInv, Tree, NodeRecord, NodeTypes, NoText
<1>2. nodes' = Append(nodes, n) /\ stack' = <<Item("program", Len(nodes) + 1)>> /\ Reduce
  BY DEF ReduceEmptyProgram, NewNode
<1>3. Append(nodes, n)[Len(nodes) + 1] = n
  BY <1>1
<1>4. Shape(Append(nodes, n), Len(nodes) + 1)
  BY <1>3 DEF Shape
<1>5. stack = <<>> /\ Height = 0
  BY DEF ReduceEmptyProgram, Height
<1>6. stack' = Reduced(0, "program", Len(nodes) + 1)
  BY <1>2, <1>5, SubSeqEmpty DEF Reduced
<1>7. n.type \in TypesOf("program") /\ "program" \in Nonterminals /\ 0 \in 0..Height
  BY <1>5 DEF TypesOf, Nonterminals, Leaves
<1>8. Follows(Sym(Height - 0), "program")
  BY FollowAny
<1> HIDE DEF n
<1>9. \A k \in DOMAIN n.childs : n.childs[k] \in NodeIds
  BY DEF n
<1> QED
  BY <1>1, <1>2, <1>4, <1>6, <1>7, <1>8, <1>9, NewNodeInv

\* program: program args_child, and args: args args_child, add a child where any may be
LEMMA AppendChildInv ==
  ASSUME ParserInv, ReduceAppendChild
  PROVE  ParserInv'
<1>1. Tree(nodes) /\ LexTypes /\ TokenInv /\ StackInv
  BY DEF ParserInv
<1>2. /\ TopSym = "args_child" /\ Sym(Height - 1) \in {"program", "args"}
      /\ nodes' = AddChild(nodes, Node(Height - 1), Node(Height))
      /\ stack' = Front(stack) /\ Reduce
  BY DEF ReduceAppendChild
<1>3. Height \in Nat /\ Height - 1 \in Int
  BY <1>1 DEF StackInv, Height
<1>4. Stands(nodes, "args_child", Node(Height))
  BY <1>1, <1>2, <1>3, SymFacts DEF TopSym
<1>5. Stands(nodes, Sym(Height - 1), Node(Height - 1)) /\ Height - 1 \in 1..Height
  BY <1>1, <1>2, <1>3, SymFacts
<1>6. /\ Node(Height) \in DOMAIN nodes /\ Node(Height - 1) \in DOMAIN nodes
      /\ nodes[Node(Height)].type \in Leaves \union Blocks
      /\ nodes[Node(Height - 1)].type \in {"PROGRAM", "ARGS"}
  BY <1>2, <1>4, <1>5 DEF Stands, HasNode, Nonterminals, TypesOf, Leaves
<1>7. Tree(nodes') /\ Grows(nodes, nodes')
  BY <1>1, <1>2, <1>6, AddChildTree
<1>8. StackInv'
  <2>1. Height >= 1
    BY <1>3, <1>5
  <2> QED
    BY <1>1, <1>2, <1>7, <2>1, PopInv
<1>9. TokenInv' /\ LexTypes'
  BY <1>1, <1>2, <1>7, TokenKept DEF Reduce, LexTypes
<1> QED
  BY <1>2, <1>7, <1>8, <1>9 DEF ParserInv, Reduce

\* args: args_child makes a list of one child
LEMMA FirstArgInv ==
  ASSUME ParserInv, ReduceFirstArg
  PROVE  ParserInv'
<1>1. Tree(nodes) /\ StackInv
  BY DEF ParserInv
<1>2. /\ TopSym = "args_child" /\ Reduce
      /\ nodes' = AddChild(NewNode(nodes, "ARGS", NoText), Len(nodes) + 1, Node(Height))
      /\ stack' = Reduced(1, "args", Len(nodes) + 1)
  BY DEF ReduceFirstArg
<1>3. Height \in Nat
  BY <1>1 DEF StackInv, Height
<1>4. Stands(nodes, "args_child", Node(Height)) /\ Height \in 1..Height
  BY <1>1, <1>2, <1>3, SymFacts DEF TopSym
<1>5. Node(Height) \in DOMAIN nodes /\ nodes[Node(Height)].type \in Leaves \union Blocks
  BY <1>4 DEF Stands, HasNode, Nonterminals, TypesOf
<1> DEFINE n == [type |-> "ARGS", text |-> NoText, childs |-> <<Node(Height)>>]
<1>6. nodes \in Seq(NodeRecord) /\ Node(Height) \in Nat /\ n \in NodeRecord
  BY <1>1, <1>5 DEF Tree, NodeRecord, NodeTypes, NoText
<1>7. nodes' = Append(nodes, n)
  BY <1>1, <1>2, <1>6, NewWithChild DEF NodeTypes
<1>8. /\ Append(nodes, n)[Len(nodes) + 1] = n
      /\ Append(nodes, n)[Node(Height)] = nodes[Node(Height)]
  BY <1>5, <1>6
<1>9. Shape(Append(nodes, n), Len(nodes) + 1)
  BY <1>5, <1>8 DEF Shape, Blocks
<1>10. n.type \in TypesOf("args") /\ "args" \in Nonterminals /\ 1 \in 0..Height
  BY <1>3, <1>4 DEF TypesOf, Nonterminals, Leaves
<1>11. \A k \in DOMAIN n.childs : n.childs[k] \in NodeIds
  BY <1>5 DEF NodeIds
<1>12. Follows(Sym(Height - 1), "args")
  BY FollowAny
<1> HIDE DEF n
<1> QED
  BY <1>2, <1>6, <1>7, <1>9, <1>10, <1>11, <1>12, NewNodeInv

\* args_child keeps the node of what it stands for
LEMMA ArgsChildInv ==
  ASSUME ParserInv, ReduceArgsChild
  PROVE  ParserInv'
<1>1. Tree(nodes) /\ StackInv
  BY DEF ParserInv
<1>2. /\ TopSym \in Leaves \union {"block"} /\ Reduce
      /\ nodes' = nodes /\ stack' = Reduced(1, "args_child", Node(Height))
  BY DEF ReduceArgsChild
<1>3. Height \in Nat
  BY <1>1 DEF StackInv, Height
<1>4. Stands(nodes, TopSym, Node(Height)) /\ Height \in 1..Height
  BY <1>1, <1>2, <1>3, SymFacts DEF TopSym, Leaves
<1>5. Node(Height) \in DOMAIN nodes /\ Stands(nodes, "args_child", Node(Height))
  BY <1>2, <1>4 DEF Stands, HasNode, Nonterminals, TypesOf, Leaves
<1>6. Tree(nodes') /\ Grows(nodes, nodes')
  BY <1>1, <1>2, GrowsSame
<1> QED
  BY <1>2, <1>3, <1>4, <1>5, <1>6, ReductionInv, FollowAny DEF Nonterminals, NodeIds

\* symbol: SYMBOL keeps its node, whose name stays a name in small letters
LEMMA NameInv ==
  ASSUME ParserInv, ReduceName
  PROVE  ParserInv'
<1>1. Tree(nodes) /\ StackInv
  BY DEF ParserInv
<1> DEFINE id == Node(Height)
           text == Lower(nodes[id].text)
<1>2. /\ TopSym = "SYMBOL" /\ Reduce
      /\ nodes' = SetText(nodes, id, text)
      /\ stack' = Reduced(1, "symbol", id)
  BY DEF ReduceName
<1>3. Height \in Nat
  BY <1>1 DEF StackInv, Height
<1>4. /\ Stands(nodes, "SYMBOL", id) /\ Height \in 1..Height
      /\ Follows(Sym(Height - 1), "SYMBOL")
  BY <1>1, <1>2, <1>3, SymFacts DEF TopSym
<1>5. id \in DOMAIN nodes /\ nodes[id].type = "SYMBOL" /\ nodes[id].text # NoText
  BY <1>4 DEF Stands, HasNode, TypesOf
<1>6. text \in Seq(Characters) /\ text # NoText
  <2>1. nodes[id].text \in Seq(Characters)
    <3>1. nodes \in Seq(NodeRecord) /\ id \in 1..Len(nodes)
      BY <1>1, <1>5 DEF Tree
    <3>2. nodes[id] \in NodeRecord
      BY <3>1
    <3> QED
      BY <3>2 DEF NodeRecord
  <2>2. \A c \in Characters : ToLower(c) \in Characters
    BY CharactersAssumption
  <2> DEFINE old == nodes[id].text
  <2>3. /\ DOMAIN old = 1..Len(old) /\ Len(old) \in Nat
        /\ \A i \in 1..Len(old) : old[i] \in Characters
        /\ old # <<>>
    BY <1>5, <2>1 DEF NoText
  <2> HIDE DEF old
  <2>4. text = [i \in 1..Len(old) |-> ToLower(old[i])]
    BY <2>3 DEF Lower, old
  <2>5. \A i \in 1..Len(old) : ToLower(old[i]) \in Characters
    BY <2>2, <2>3
  <2>6. text \in Seq(Characters) /\ Len(text) = Len(old)
    BY <2>3, <2>4, <2>5
  <2>7. Len(old) > 0
    BY <2>1, <2>3, EmptySeq DEF old
  <2> HIDE DEF text
  <2> QED
    BY <2>6, <2>7 DEF NoText
<1>7. Tree(nodes') /\ Grows(nodes, nodes')
  BY <1>1, <1>2, <1>5, <1>6, SetTextTree
<1>8. id \in NodeIds' /\ Stands(nodes', "symbol", id) /\ Follows(Sym(Height - 1), "symbol")
  <2> HIDE DEF id
  <2>1. id \in DOMAIN nodes' /\ nodes'[id].type = "SYMBOL"
    BY <1>1, <1>5, <1>7 DEF Tree, Grows
  <2>2. Follows(Sym(Height - 1), "symbol")
    BY <1>4 DEF Follows
  <2> QED
    BY <2>1, <2>2 DEF Stands, TypesOf, NodeIds, Leaves
<1> QED
  BY <1>2, <1>3, <1>4, <1>7, <1>8, ReductionInv DEF Nonterminals

\* symbol: block makes a SYMBOL without text over a block
LEMMA ComputedNameInv ==
  ASSUME ParserInv, ReduceComputedName
  PROVE  ParserInv'
<1>1. Tree(nodes) /\ StackInv
  BY DEF ParserInv
<1>2. /\ TopSym = "block" /\ Sym(Height - 1) = "[" /\ Reduce
      /\ nodes' = AddChild(NewNode(nodes, "SYMBOL", NoText), Len(nodes) + 1, Node(Height))
      /\ stack' = Reduced(1, "symbol", Len(nodes) + 1)
  BY DEF ReduceComputedName
<1>3. Height \in Nat
  BY <1>1 DEF StackInv, Height
<1>4. Stands(nodes, "block", Node(Height)) /\ Height \in 1..Height
  BY <1>1, <1>2, <1>3, SymFacts DEF TopSym
<1>5. Node(Height) \in DOMAIN nodes /\ nodes[Node(Height)].type \in Blocks
  BY <1>4 DEF Stands, HasNode, Nonterminals, TypesOf, Leaves
<1> DEFINE n == [type |-> "SYMBOL", text |-> NoText, childs |-> <<Node(Height)>>]
<1>6. nodes \in Seq(NodeRecord) /\ Node(Height) \in Nat /\ n \in NodeRecord
  BY <1>1, <1>5 DEF Tree, NodeRecord, NodeTypes, NoText
<1>7. nodes' = Append(nodes, n)
  BY <1>1, <1>2, <1>6, NewWithChild DEF NodeTypes
<1>8. /\ Append(nodes, n)[Len(nodes) + 1] = n
      /\ Append(nodes, n)[Node(Height)] = nodes[Node(Height)]
  BY <1>5, <1>6
<1>9. Shape(Append(nodes, n), Len(nodes) + 1)
  BY <1>5, <1>8 DEF Shape, Blocks
<1>10. Follows(Sym(Height - 1), "symbol")
  BY <1>2 DEF Follows
<1>11. n.type \in TypesOf("symbol") /\ "symbol" \in Nonterminals /\ 1 \in 0..Height
  BY <1>3, <1>4 DEF TypesOf, Nonterminals, Leaves
<1>12. \A k \in DOMAIN n.childs : n.childs[k] \in NodeIds
  BY <1>5 DEF NodeIds
<1> HIDE DEF n
<1> QED
  BY <1>2, <1>6, <1>7, <1>9, <1>10, <1>11, <1>12, NewNodeInv

\* block: a CALL or an ASSIGNMENT over its name and its list
LEMMA NewBlockInv ==
  ASSUME ParserInv, Reduce,
         NEW type \in Blocks, NEW childs \in Seq(Nat),
         \A k \in DOMAIN childs : childs[k] \in DOMAIN nodes,
         Len(childs) \in {1, 2},
         type = "ASSIGNMENT" => Len(childs) = 2,
         nodes[childs[1]].type = "SYMBOL",
         Len(childs) = 2 => nodes[childs[2]].type = "ARGS",
         nodes' = NewBlock(type, childs),
         NEW m \in 0..Height,
         stack' = Reduced(m, "block", Len(nodes) + 1)
  PROVE  ParserInv'
<1> DEFINE n == [type |-> type, text |-> NoText, childs |-> childs]
<1>1. nodes \in Seq(NodeRecord) /\ n \in NodeRecord
  BY DEF ParserInv, Tree, NodeRecord, NodeTypes, Blocks, NoText
<1>2. nodes' = Append(nodes, n)
  BY DEF NewBlock
<1>3. /\ Append(nodes, n)[Len(nodes) + 1] = n
      /\ \A id \in DOMAIN nodes : Append(nodes, n)[id] = nodes[id]
  BY <1>1
<1>4. DOMAIN childs = 1..Len(childs) /\ 1 \in DOMAIN childs /\ (Len(childs) = 2 => 2 \in DOMAIN childs)
  OBVIOUS
<1>5. /\ Append(nodes, n)[childs[1]].type = "SYMBOL"
      /\ Len(childs) = 2 => Append(nodes, n)[childs[2]].type = "ARGS"
  BY <1>3, <1>4
<1>6. n.type = type /\ n.childs = childs
  OBVIOUS
<1>7. n.type \in TypesOf("block") /\ "block" \in Nonterminals
  BY <1>6 DEF TypesOf, Nonterminals, Leaves
<1>8. Follows(Sym(Height - m), "block")
  BY FollowAny
<1> HIDE DEF n
<1>9. Shape(Append(nodes, n), Len(nodes) + 1)
  BY <1>3, <1>5, <1>6 DEF Shape, Blocks
<1>10. \A k \in DOMAIN n.childs : n.childs[k] \in NodeIds
  BY <1>6 DEF NodeIds
<1> QED
  BY <1>1, <1>2, <1>7, <1>8, <1>9, <1>10, NewNodeInv

\* What a name and a list on the stack stand for
LEMMA NamesAndLists ==
  ASSUME ParserInv, NEW k \in Int
  PROVE  /\ Sym(k) = "symbol" => /\ Node(k) \in DOMAIN nodes
                                 /\ nodes[Node(k)].type = "SYMBOL"
                                 /\ Sym(k - 1) = "["
         /\ Sym(k) = "args"   => Node(k) \in DOMAIN nodes /\ nodes[Node(k)].type = "ARGS"
         /\ Sym(k) = "]"      => Sym(k - 1) \in {"symbol", "args"}
         /\ Sym(k) = ":"      => Sym(k - 1) = "symbol"
         /\ Sym(k) = "["      => k \in 1..Height
<1>1. StackInv
  BY DEF ParserInv
<1>2. ASSUME Sym(k) # "bottom"
      PROVE  k \in 1..Height /\ Stands(nodes, Sym(k), Node(k)) /\ Follows(Sym(k - 1), Sym(k))
  BY <1>1, <1>2, SymFacts
<1> QED
  BY <1>2 DEF Stands, HasNode, Nonterminals, TypesOf, Follows, Leaves

\* block: '[' symbol ':' args ']'
LEMMA AssignmentInv ==
  ASSUME ParserInv, ReduceAssignment
  PROVE  ParserInv'
<1>1. Height \in Nat /\ Tree(nodes)
  BY DEF ParserInv, StackInv, Height
<1> DEFINE childs == <<Node(Height - 3), Node(Height - 1)>>
<1>2. /\ Sym(Height) = "]" /\ Sym(Height - 2) = ":" /\ Reduce
      /\ nodes' = NewBlock("ASSIGNMENT", childs)
      /\ stack' = Reduced(5, "block", Len(nodes) + 1)
  BY DEF ReduceAssignment, TopSym
<1>3. Sym(Height - 3) = "symbol"
  <2>1. Height - 2 \in Int /\ (Height - 2) - 1 = Height - 3
    BY <1>1
  <2> QED
    BY <1>2, <2>1, NamesAndLists
<1>4. Sym(Height - 1) = "args"
  <2>1. Sym(Height - 1) \in {"symbol", "args"}
    BY <1>1, <1>2, NamesAndLists
  <2>2. Height - 1 \in Int /\ (Height - 1) - 1 = Height - 2
    BY <1>1
  <2> QED
    BY <1>2, <2>1, <2>2, NamesAndLists
<1>5. 5 \in 0..Height
  <2>1. Height - 3 \in Int /\ Height - 4 \in Int /\ (Height - 3) - 1 = Height - 4
    BY <1>1
  <2>2. Sym(Height - 4) = "["
    BY <1>3, <2>1, NamesAndLists
  <2>3. Height - 4 \in 1..Height
    BY <2>1, <2>2, NamesAndLists
  <2> QED
    BY <1>1, <2>3
<1>6. /\ Node(Height - 3) \in DOMAIN nodes /\ nodes[Node(Height - 3)].type = "SYMBOL"
      /\ Node(Height - 1) \in DOMAIN nodes /\ nodes[Node(Height - 1)].type = "ARGS"
  <2>1. Height - 3 \in Int /\ Height - 1 \in Int
    BY <1>1
  <2> QED
    BY <1>3, <1>4, <2>1, NamesAndLists
<1>7. childs \in Seq(Nat) /\ Len(childs) = 2
  BY <1>1, <1>6 DEF Tree
<1>8. \A k \in DOMAIN childs : childs[k] \in DOMAIN nodes
  BY <1>6
<1>9. nodes[childs[1]].type = "SYMBOL" /\ nodes[childs[2]].type = "ARGS"
  BY <1>6
<1> HIDE DEF childs
<1> QED
  BY <1>2, <1>5, <1>7, <1>8, <1>9, NewBlockInv DEF Blocks

\* block: '[' symbol args ']'
LEMMA CallWithArgsInv ==
  ASSUME ParserInv, ReduceCallWithArgs
  PROVE  ParserInv'
<1>1. Height \in Nat /\ Tree(nodes)
  BY DEF ParserInv, StackInv, Height
<1> DEFINE childs == <<Node(Height - 2), Node(Height - 1)>>
<1>2. /\ Sym(Height - 1) = "args" /\ Sym(Height - 2) = "symbol" /\ Reduce
      /\ nodes' = NewBlock("CALL", childs)
      /\ stack' = Reduced(4, "block", Len(nodes) + 1)
  BY DEF ReduceCallWithArgs
<1>3. 4 \in 0..Height
  <2>1. Height - 2 \in Int /\ Height - 3 \in Int /\ (Height - 2) - 1 = Height - 3
    BY <1>1
  <2>2. Sym(Height - 3) = "["
    BY <1>2, <2>1, NamesAndLists
  <2>3. Height - 3 \in 1..Height
    BY <2>1, <2>2, NamesAndLists
  <2> QED
    BY <1>1, <2>3
<1>4. /\ Node(Height - 2) \in DOMAIN nodes /\ nodes[Node(Height - 2)].type = "SYMBOL"
      /\ Node(Height - 1) \in DOMAIN nodes /\ nodes[Node(Height - 1)].type = "ARGS"
  <2>1. Height - 2 \in Int /\ Height - 1 \in Int
    BY <1>1
  <2> QED
    BY <1>2, <2>1, NamesAndLists
<1>5. childs \in Seq(Nat) /\ Len(childs) = 2
  BY <1>1, <1>4 DEF Tree
<1>6. \A k \in DOMAIN childs : childs[k] \in DOMAIN nodes
  BY <1>4
<1>7. nodes[childs[1]].type = "SYMBOL" /\ nodes[childs[2]].type = "ARGS"
  BY <1>4
<1> HIDE DEF childs
<1> QED
  BY <1>2, <1>3, <1>5, <1>6, <1>7, NewBlockInv DEF Blocks

\* block: '[' symbol ']'
LEMMA CallInv ==
  ASSUME ParserInv, ReduceCall
  PROVE  ParserInv'
<1>1. Height \in Nat /\ Tree(nodes)
  BY DEF ParserInv, StackInv, Height
<1> DEFINE childs == <<Node(Height - 1)>>
<1>2. /\ Sym(Height - 1) = "symbol" /\ Reduce
      /\ nodes' = NewBlock("CALL", childs)
      /\ stack' = Reduced(3, "block", Len(nodes) + 1)
  BY DEF ReduceCall
<1>3. Height - 1 \in Int /\ Height - 2 \in Int /\ (Height - 1) - 1 = Height - 2
  BY <1>1
<1>4. /\ Node(Height - 1) \in DOMAIN nodes /\ nodes[Node(Height - 1)].type = "SYMBOL"
      /\ Sym(Height - 2) = "["
  BY <1>2, <1>3, NamesAndLists
<1>5. 3 \in 0..Height
  <2>1. Height - 2 \in 1..Height
    BY <1>3, <1>4, NamesAndLists
  <2> QED
    BY <1>1, <2>1
<1>6. childs \in Seq(Nat) /\ Len(childs) = 1
  BY <1>1, <1>4 DEF Tree
<1>7. /\ \A k \in DOMAIN childs : childs[k] \in DOMAIN nodes
      /\ nodes[childs[1]].type = "SYMBOL"
  BY <1>4
<1> HIDE DEF childs
<1> QED
  BY <1>2, <1>5, <1>6, <1>7, NewBlockInv DEF Blocks

-----------------------------------------------------------------------------
(* The whole.                                                                  *)

\* A fresh scanner and a fresh parser on a text
LEMMA ParserInitInv ==
  ASSUME NEW text \in Seq(Characters), ParserInit(text)
  PROVE  ParserInv
<1>1. Tree(nodes) /\ nodes = <<>>
  BY DEF ParserInit, Tree
<1>2. LexTypes
  <2>1. source \in Seq(Characters) /\ textBuffer \in Seq(Characters)
    BY DEF ParserInit
  <2>2. conds \in Seq(StartConds \union {"IN_LITERAL"})
    BY DEF ParserInit, StartConds
  <2> QED
    BY <2>1, <2>2 DEF LexTypes
<1>3. TokenInv
  BY DEF ParserInit, NoToken, TokenInv, TokenRecord, Stands, HasNode, Nonterminals, Leaves
<1>4. StackInv
  BY DEF ParserInit, StackInv
<1> QED
  BY <1>1, <1>2, <1>3, <1>4 DEF ParserInv, ParserInit

\* Every step of the parser keeps the invariant
LEMMA ParseStepInv ==
  ASSUME ParserInv, ParseStep
  PROVE  ParserInv'
<1>1. CASE ReadToken
  BY <1>1, ReadTokenInv
<1>2. CASE Shift
  BY <1>2, ShiftInv
<1>3. CASE Accept \/ SyntaxError
  BY <1>3, EndInv
<1>4. CASE ReduceEmptyProgram
  BY <1>4, EmptyProgramInv
<1>5. CASE ReduceAppendChild
  BY <1>5, AppendChildInv
<1>6. CASE ReduceFirstArg
  BY <1>6, FirstArgInv
<1>7. CASE ReduceArgsChild
  BY <1>7, ArgsChildInv
<1>8. CASE ReduceName
  BY <1>8, NameInv
<1>9. CASE ReduceComputedName
  BY <1>9, ComputedNameInv
<1>10. CASE ReduceAssignment
  BY <1>10, AssignmentInv
<1>11. CASE ReduceCallWithArgs
  BY <1>11, CallWithArgsInv
<1>12. CASE ReduceCall
  BY <1>12, CallInv
<1> QED
  BY <1>1, <1>2, <1>3, <1>4, <1>5, <1>6, <1>7, <1>8, <1>9, <1>10, <1>11, <1>12 DEF ParseStep

\* Nothing happens to the scanner and the parser
LEMMA ParserStutterInv ==
  ASSUME ParserInv, UNCHANGED <<nodes, lexVars, parserVars>>
  PROVE  ParserInv'
<1>1. UNCHANGED <<source, conds, textBuffer, token, nodes, stack, parsing>>
  BY DEF lexVars, parserVars
<1> QED
  BY <1>1 DEF ParserInv, Tree, Shape, LexTypes, TokenInv, TokenRecord, NodeIds, Stands,
              StackInv, StackItem, Sym
=============================================================================
