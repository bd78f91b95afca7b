--------------------------- MODULE CompilerProofs ---------------------------
(* What every step of the compiler keeps, in both passes, for every program,   *)
(* libraries and sizes of the arenas.                                          *)
EXTENDS EvalProofs

-----------------------------------------------------------------------------
(* While the program is read: no name gets a blank, and the first node, the    *)
(* PROGRAM, is made before anything else.                                      *)

NamesStep(ns, ms) == /\ 1 \in DOMAIN ns => 1 \in DOMAIN ms
                     /\ NamesClean(ns) => NamesClean(ms)

\* A node more, with a clean name if it is a name
LEMMA NamesStepAppend ==
  ASSUME NEW ns \in Seq(NodeRecord), NEW n, n.type \in NameTypes => Unblank(n.text)
  PROVE  NamesStep(ns, Append(ns, n)) /\ 1 \in DOMAIN Append(ns, n)
<1>1. /\ Len(ns) \in Nat /\ DOMAIN ns = 1..Len(ns)
      /\ DOMAIN Append(ns, n) = 1..(Len(ns) + 1)
      /\ \A i \in 1..Len(ns) : Append(ns, n)[i] = ns[i]
      /\ Append(ns, n)[Len(ns) + 1] = n
  OBVIOUS
<1> DEFINE ms == Append(ns, n)
<1> HIDE DEF ms
<1>2. NamesClean(ns) => NamesClean(ms)
  BY <1>1 DEF NamesClean, ms
<1>3. 1 \in DOMAIN ms
  BY <1>1 DEF ms
<1> QED
  BY <1>2, <1>3 DEF NamesStep, ms

\* ast_node_new of a clean name
LEMMA NamesStepNew ==
  ASSUME NEW ns \in Seq(NodeRecord), NEW type, NEW text, type \in NameTypes => Unblank(text)
  PROVE  NamesStep(ns, NewNode(ns, type, text)) /\ 1 \in DOMAIN NewNode(ns, type, text)
<1> DEFINE n == [type |-> type, text |-> text, childs |-> <<>>]
<1>1. n.type \in NameTypes => Unblank(n.text)
  OBVIOUS
<1>2. NewNode(ns, type, text) = Append(ns, n)
  BY DEF NewNode
<1> HIDE DEF n
<1> QED
  BY <1>1, <1>2, NamesStepAppend

\* A child more changes no name
LEMMA NamesStepAddChild ==
  ASSUME NEW ns \in Seq(NodeRecord), NEW p, NEW c
  PROVE  NamesStep(ns, AddChild(ns, p, c))
<1> DEFINE ms == AddChild(ns, p, c)
<1>1. DOMAIN ms = DOMAIN ns
  BY DEF AddChild
<1>2. ASSUME NEW i \in DOMAIN ns
      PROVE  ms[i].type = ns[i].type /\ ms[i].text = ns[i].text
  <2>1. ns[i] \in NodeRecord
    OBVIOUS
  <2>2. CASE i = p
    <3>1. ms[i] = [ns[i] EXCEPT !.childs = Append(@, c)]
      BY <2>2 DEF AddChild
    <3> QED
      BY <2>1, <3>1 DEF NodeRecord
  <2>3. CASE i # p
    BY <2>3 DEF AddChild
  <2> QED
    BY <2>2, <2>3
<1> HIDE DEF ms
<1> QED
  BY <1>1, <1>2 DEF NamesStep, NamesClean, ms

\* A text without blanks in place of another
LEMMA NamesStepSetText ==
  ASSUME NEW ns \in Seq(NodeRecord), NEW id, NEW text, Unblank(text)
  PROVE  NamesStep(ns, SetText(ns, id, text))
<1> DEFINE ms == SetText(ns, id, text)
<1>1. DOMAIN ms = DOMAIN ns
  BY DEF SetText
<1>2. ASSUME NEW i \in DOMAIN ns
      PROVE  ms[i].type = ns[i].type /\ (ms[i].text = ns[i].text \/ ms[i].text = text)
  <2>1. ns[i] \in NodeRecord
    OBVIOUS
  <2>2. CASE i = id
    <3>1. ms[i] = [ns[i] EXCEPT !.text = text]
      BY <2>2 DEF SetText
    <3> QED
      BY <2>1, <3>1 DEF NodeRecord
  <2>3. CASE i # id
    BY <2>3 DEF SetText
  <2> QED
    BY <2>2, <2>3
<1> HIDE DEF ms
<1>3. ASSUME NamesClean(ns), NEW i \in DOMAIN ns, ms[i].type \in NameTypes
      PROVE  Unblank(ms[i].text)
  BY <1>2, <1>3 DEF NamesClean
<1> QED
  BY <1>1, <1>3 DEF NamesStep, NamesClean, ms

\* Two changes one after the other
LEMMA NamesStepTrans ==
  ASSUME NEW ns, NEW ms, NEW ls, NamesStep(ns, ms), NamesStep(ms, ls)
  PROVE  NamesStep(ns, ls)
BY DEF NamesStep

\* No rule of the scanner makes a name of blanks
LEMMA LexNames ==
  ASSUME Tree(nodes), LexTypes, Lex
  PROVE  NamesStep(nodes, nodes')
<1>1. nodes \in Seq(NodeRecord)
  BY DEF Tree
<1>2. NamesStep(nodes, nodes)
  BY DEF NamesStep
<1>3. ASSUME NEW type, NEW text, NEW n, ReturnNode(type, text, n), type \notin NameTypes
      PROVE  NamesStep(nodes, nodes')
  BY <1>1, <1>3, NamesStepNew DEF ReturnNode
<1>4. "TEXT" \notin NameTypes /\ "LITERAL" \notin NameTypes /\ "ARG_REF_ALL_ARGS" \notin NameTypes
  BY DEF NameTypes
<1>5. CASE Symbol
  <2> DEFINE S   == NotBracket(source) \ (Blanks \union {":"})
             run == RunLength(source, S)
  <2>1. run \in 0..Len(source) /\ \A i \in 1..run : source[i] \in S
    BY RunLengthFacts DEF LexTypes
  <2>2. Take(run) \in Seq(Characters) /\ Len(Take(run)) = run /\ \A i \in 1..run : Take(run)[i] = source[i]
    <3>1. \A i \in 1..run : source[i] \in Characters
      BY <2>1 DEF LexTypes
    <3>2. run \in Int
      BY <2>1
    <3> HIDE DEF run
    <3>3. /\ SubSeq(source, 1, run) \in Seq(Characters)
          /\ Len(SubSeq(source, 1, run)) = IF 1 <= run THEN run - 1 + 1 ELSE 0
          /\ \A i \in 1..(run - 1 + 1) : SubSeq(source, 1, run)[i] = source[1 + i - 1]
      BY <3>1, <3>2, SubSeqProperties
    <3> QED
      BY <2>1, <3>3 DEF Take
  <2>3. Unblank(Take(run))
    <3>1. \A c \in S : c \notin Blanks
      OBVIOUS
    <3> HIDE DEF S, run
    <3>2. DOMAIN Take(run) = 1..run
      BY <2>2
    <3> QED
      BY <2>1, <2>2, <3>1, <3>2 DEF Unblank, Blank
  <2>4. nodes' = NewNode(nodes, "SYMBOL", Take(run))
    BY <1>5 DEF Symbol, ReturnNode
  <2> HIDE DEF run
  <2> QED
    BY <1>1, <2>3, <2>4, NamesStepNew
<1>6. CASE InitialText
  BY <1>3, <1>4, <1>6 DEF InitialText
<1>7. CASE ArgRef
  BY <1>3, <1>4, <1>7 DEF ArgRef
<1>8. CASE Literal
  <2>1. \/ nodes' = nodes
        \/ \E text, n : ReturnNode("LITERAL", text, n)
    BY <1>8 DEF Literal
  <2> QED
    BY <1>2, <1>3, <1>4, <2>1
<1>9. CASE TextChar
  <2>1. \/ nodes' = nodes
        \/ \E text, n : ReturnNode("TEXT", text, n)
    BY <1>9 DEF TextChar
  <2> QED
    BY <1>2, <1>3, <1>4, <2>1
<1>10. CASE SkipBlanks \/ OpenBlock \/ CloseBlock \/ Colon \/ NameEnds \/ EndOfSource
  <2>1. nodes' = nodes
    BY <1>10 DEF SkipBlanks, OpenBlock, CloseBlock, Colon, NameEnds, EndOfSource
  <2> QED
    BY <1>2, <2>1
<1> QED
  BY <1>5, <1>6, <1>7, <1>8, <1>9, <1>10 DEF Lex

\* No reduction does: a name that is made lower case has no blank either
LEMMA ParseNames ==
  ASSUME ParserInv, ParseStep, NamesClean(nodes), stack # <<>> => 1 \in DOMAIN nodes
  PROVE  NamesClean(nodes') /\ 1 \in DOMAIN nodes' /\ parsing = "running"
<1>0. /\ Tree(nodes) /\ LexTypes /\ StackInv /\ nodes \in Seq(NodeRecord)
      /\ NamesStep(nodes, nodes)
  BY DEF ParserInv, Tree, NamesStep
<1>a. TopSym # "bottom" => stack # <<>>
  <2>1. stack \in Seq(StackItem)
    BY <1>0 DEF StackInv
  <2> QED
    BY <2>1 DEF TopSym, Sym
<1>b. NeedsToken => TopSym # "bottom" /\ parsing = "running"
  <2>1. TopSym = "bottom" => Acceptable = {}
    BY DEF Acceptable
  <2> QED
    BY <2>1 DEF NeedsToken
<1>c. "PROGRAM" \notin NameTypes /\ "ARGS" \notin NameTypes /\ Unblank(NoText)
  BY DEF NameTypes, Unblank, NoText
<1>1. ASSUME stack # <<>>, NamesStep(nodes, nodes')
      PROVE  NamesClean(nodes') /\ 1 \in DOMAIN nodes'
  BY <1>1 DEF NamesStep
<1>2. CASE ReadToken
  <2>1. NamesStep(nodes, nodes')
    BY <1>0, <1>2, LexNames DEF ReadToken
  <2> QED
    BY <1>1, <1>2, <1>a, <1>b, <2>1 DEF ReadToken
<1>3. CASE Shift \/ Accept \/ SyntaxError
  <2>1. nodes' = nodes /\ NeedsToken
    BY <1>3 DEF Shift, Accept, SyntaxError, HasToken
  <2> QED
    BY <1>0, <1>1, <1>a, <1>b, <2>1
<1>4. CASE ReduceEmptyProgram
  <2>1. nodes' = NewNode(nodes, "PROGRAM", NoText) /\ parsing = "running"
    BY <1>4 DEF ReduceEmptyProgram, Reduce
  <2> QED
    BY <1>0, <1>c, <2>1, NamesStepNew DEF NamesStep
<1>5. CASE ReduceAppendChild
  <2>1. nodes' = AddChild(nodes, Node(Height - 1), Node(Height)) /\ TopSym = "args_child"
        /\ parsing = "running"
    BY <1>5 DEF ReduceAppendChild, Reduce
  <2> QED
    BY <1>0, <1>1, <1>a, <2>1, NamesStepAddChild
<1>6. CASE ReduceFirstArg \/ ReduceComputedName
  <2> DEFINE ms(type) == NewNode(nodes, type, NoText)
  <2>1. /\ \E type \in {"ARGS", "SYMBOL"} : \E p, c : nodes' = AddChild(ms(type), p, c)
        /\ TopSym # "bottom" /\ parsing = "running"
    BY <1>6 DEF ReduceFirstArg, ReduceComputedName, Reduce
  <2>2. PICK type \in {"ARGS", "SYMBOL"} : \E p, c : nodes' = AddChild(ms(type), p, c)
    BY <2>1
  <2>a. PICK p, c : nodes' = AddChild(ms(type), p, c)
    BY <2>2
  <2>3. NamesStep(nodes, ms(type))
    BY <1>0, <1>c, NamesStepNew
  <2>4. ms(type) \in Seq(NodeRecord)
    <3> DEFINE n == [type |-> type, text |-> NoText, childs |-> <<>>]
    <3>1. n \in NodeRecord
      BY DEF NodeRecord, NodeTypes, NoText
    <3> HIDE DEF n
    <3>2. Append(nodes, n) \in Seq(NodeRecord)
      BY <1>0, <3>1
    <3> QED
      BY <3>2 DEF NewNode, n
  <2> HIDE DEF ms
  <2>5. NamesStep(ms(type), nodes')
    BY <2>4, <2>a, NamesStepAddChild
  <2>6. NamesStep(nodes, nodes')
    BY <2>3, <2>5, NamesStepTrans
  <2> QED
    BY <1>1, <1>a, <2>1, <2>6
<1>7. CASE ReduceArgsChild
  <2>1. nodes' = nodes /\ TopSym # "bottom" /\ parsing = "running"
    BY <1>7 DEF ReduceArgsChild, Reduce, Leaves
  <2> QED
    BY <1>0, <1>1, <1>a, <2>1
<1>8. CASE ReduceName
  <2>1. /\ nodes' = SetText(nodes, Node(Height), Lower(nodes[Node(Height)].text))
        /\ TopSym = "SYMBOL" /\ parsing = "running"
    BY <1>8 DEF ReduceName, Reduce
  <2>2. Unblank(Lower(nodes[Node(Height)].text))
    <3>1. Sym(Height) = "SYMBOL" /\ Height \in Int
      BY <1>0, <2>1 DEF TopSym, Height, StackInv
    <3>2. Stands(nodes, "SYMBOL", Node(Height))
      BY <1>0, <3>1, SymFacts
    <3>3. Node(Height) \in DOMAIN nodes /\ nodes[Node(Height)].type = "SYMBOL"
      BY <3>2 DEF Stands, HasNode, TypesOf, Leaves
    <3>4. Unblank(nodes[Node(Height)].text)
      BY <3>3 DEF NamesClean, NameTypes
    <3> DEFINE text == nodes[Node(Height)].text
    <3>5. \A c : c \notin Blanks => ToLower(c) \notin Blanks
      BY DEF ToLower, Blanks
    <3>6. DOMAIN Lower(text) = DOMAIN text /\ \A i \in DOMAIN text : Lower(text)[i] = ToLower(text[i])
      BY DEF Lower
    <3> QED
      BY <3>4, <3>5, <3>6 DEF Unblank, Blank
  <2>3. NamesStep(nodes, nodes')
    BY <1>0, <2>1, <2>2, NamesStepSetText
  <2> QED
    BY <1>1, <1>a, <2>1, <2>3
<1>9. CASE ReduceAssignment \/ ReduceCallWithArgs \/ ReduceCall
  <2>1. /\ \E type \in {"ASSIGNMENT", "CALL"} : \E childs : nodes' = NewBlock(type, childs)
        /\ TopSym = "]" /\ parsing = "running"
    BY <1>9 DEF ReduceAssignment, ReduceCallWithArgs, ReduceCall, Reduce
  <2>a. PICK type \in {"ASSIGNMENT", "CALL"} : \E childs : nodes' = NewBlock(type, childs)
    BY <2>1
  <2>2. PICK childs : nodes' = NewBlock(type, childs)
    BY <2>a
  <2> DEFINE n == [type |-> type, text |-> NoText, childs |-> childs]
  <2>3. n.type \notin NameTypes
    BY DEF NameTypes
  <2>4. nodes' = Append(nodes, n)
    BY <2>2 DEF NewBlock
  <2> HIDE DEF n
  <2>5. NamesStep(nodes, nodes')
    BY <1>0, <2>3, <2>4, NamesStepAppend
  <2> QED
    BY <1>1, <1>a, <2>1, <2>5
<1> QED
  BY <1>2, <1>3, <1>4, <1>5, <1>6, <1>7, <1>8, <1>9 DEF ParseStep

-----------------------------------------------------------------------------
(* The invariant of an evaluation, and the step that keeps it.                 *)

\* Output buffers of texts without two blanks together
TightOuts(os) == os \in Seq(Seq(Characters)) /\ \A k \in DOMAIN os : Tight(os[k])

NodesInv(ns) == Linked(ns) /\ NamesClean(ns)
ScopesInv(ss, ns) == TypedScopes(ss, Len(ns)) /\ TreeOf(ss)

EvalInv ==
  /\ NodesInv(nodes)
  /\ ScopesInv(scopes, nodes)
  /\ AgendaInv(nodes, scopes, agenda)
  /\ TightOuts(outs)
  /\ Len(outs) = 1 + Cardinality(Owners(agenda))
  /\ parsing # "running"
  /\ DOMAIN boundIn \subseteq DOMAIN nodes
  /\ fault \in Faults

\* What a step may do to the nodes
NodesStep(ns, ms) ==
  /\ NodesInv(ms) /\ Later(ns, ms)
  /\ \A id \in DOMAIN ms \ DOMAIN ns : Complete(ms, id)

\* What a step may do to the scopes
ScopesStep(ss, ts, ms) == ScopesInv(ts, ms) /\ DOMAIN ss \subseteq DOMAIN ts

\* What a step may leave to do, n buffers being waited for
NewFrames(frames, ns, ss, n) ==
  /\ frames \in Seq(FrameRecord)
  /\ \A k \in DOMAIN frames : /\ FrameInv(frames[k], ns, ss)
                              /\ frames[k].op \notin {"copy", "instantiate"}
  /\ Cardinality(Owners(frames)) = n

\* The nodes may stay as they are
LEMMA NodesStepSame ==
  ASSUME NEW ns, NodesInv(ns) PROVE NodesStep(ns, ns)
BY LaterSame DEF NodesInv, NodesStep

\* No node goes
LEMMA NodesGrow ==
  ASSUME NEW ns, NEW ms, NodesInv(ns), NodesStep(ns, ms)
  PROVE  Len(ns) \in Nat /\ Len(ms) \in Nat /\ Len(ns) <= Len(ms) /\ DOMAIN ns \subseteq DOMAIN ms
<1>1. DOMAIN ns = 1..Len(ns) /\ DOMAIN ms = 1..Len(ms) /\ Len(ns) \in Nat /\ Len(ms) \in Nat
  BY DEF Linked, NodesInv, NodesStep
<1>2. Len(ns) <= Len(ms)
  BY DEF NodesStep, Later
<1> QED
  BY <1>1, <1>2

\* The scopes may stay as they are
LEMMA ScopesStepSame ==
  ASSUME NEW ns, NEW ms, NEW ss, NodesInv(ns), NodesStep(ns, ms), ScopesInv(ss, ns)
  PROVE  ScopesStep(ss, ss, ms)
BY NodesGrow, TypedScopesGrow DEF ScopesInv, ScopesStep

\* A step of a frame that is no copy
LEMMA Stepped ==
  ASSUME EvalInv, agenda # <<>>, agenda[1].op # "copy",
         NodesStep(nodes, nodes'), ScopesStep(scopes, scopes', nodes'),
         NEW frames, NEW n, NewFrames(frames, nodes', scopes', n), Continue(frames),
         TightOuts(outs'), Len(outs') + Owned(agenda[1]) = Len(outs) + n,
         UNCHANGED <<parsing, fault>>, DOMAIN boundIn' \subseteq DOMAIN nodes'
  PROVE  EvalInv'
<1>1. agenda \in Seq(FrameRecord) /\ AgendaInv(nodes, scopes, agenda)
  BY DEF EvalInv, AgendaInv
<1>2. frames \in Seq(FrameRecord)
  BY DEF NewFrames
<1>3. agenda' = frames \o Tail(agenda)
  BY DEF Continue
<1>4. AgendaInv(nodes', scopes', agenda')
  <2>1. /\ Linked(nodes) /\ Linked(nodes') /\ Later(nodes, nodes')
        /\ \A id \in DOMAIN nodes' \ DOMAIN nodes : Complete(nodes', id)
        /\ DOMAIN scopes \subseteq DOMAIN scopes'
    BY DEF EvalInv, NodesStep, NodesInv, ScopesStep
  <2>2. \A k \in DOMAIN frames : /\ FrameInv(frames[k], nodes', scopes')
                                 /\ frames[k].op \notin {"copy", "instantiate"}
    BY DEF NewFrames
  <2>3. AgendaInv(nodes', scopes', frames \o Tail(agenda))
    BY <1>1, <1>2, <2>1, <2>2, QuietStep
  <2> QED
    BY <1>3, <2>3
<1>5. Cardinality(Owners(agenda')) + Owned(agenda[1]) = n + Cardinality(Owners(agenda))
  <2>1. Cardinality(Owners(frames \o Tail(agenda))) + Owned(agenda[1])
          = Cardinality(Owners(frames)) + Cardinality(Owners(agenda))
    BY <1>1, <1>2, OwnersStep
  <2> QED
    BY <1>3, <2>1 DEF NewFrames
<1>6. agenda' \in Seq(FrameRecord)
  BY <1>4 DEF AgendaInv
<1>7. /\ Cardinality(Owners(agenda')) \in Nat /\ Cardinality(Owners(agenda)) \in Nat
      /\ Cardinality(Owners(frames)) \in Nat
  BY <1>1, <1>2, <1>6, OwnersFinite
<1>8. n \in Nat /\ Owned(agenda[1]) \in {0, 1} /\ Len(outs') \in Nat
      /\ Len(outs) = 1 + Cardinality(Owners(agenda))
  BY <1>7 DEF NewFrames, Owned, TightOuts, EvalInv
<1>9. Len(outs') = 1 + Cardinality(Owners(agenda'))
  BY <1>5, <1>7, <1>8
<1> QED
  BY <1>4, <1>9 DEF EvalInv, NodesStep, ScopesStep

-----------------------------------------------------------------------------
(* The frames a step adds.                                                     *)

\* Nothing is left to do
LEMMA NoFrames == \A ns, ss : NewFrames(<<>>, ns, ss, 0)
<1>1. Cardinality(Owners(<<>>)) = 0
  BY NoOwners
<1> QED
  BY <1>1 DEF NewFrames

\* One frame, for the buffer it waits for
LEMMA OneFrame ==
  ASSUME NEW ns, NEW ss, NEW f \in FrameRecord, FrameInv(f, ns, ss), f.op \notin {"copy", "instantiate"}
  PROVE  NewFrames(<<f>>, ns, ss, Owned(f))
<1> DEFINE s == <<f>>
<1>1. s \in Seq(FrameRecord) /\ DOMAIN s = {1} /\ s[1] = f
  OBVIOUS
<1> HIDE DEF s
<1>2. Cardinality(Owners(s)) = Owned(f)
  <2>1. CASE Owns(f)
    <3>1. Owners(s) = {1}
      BY <1>1, <2>1 DEF Owners
    <3> QED
      BY <2>1, <3>1, FS_Singleton DEF Owned
  <2>2. CASE ~ Owns(f)
    <3>1. Owners(s) = {}
      BY <1>1, <2>2 DEF Owners
    <3> QED
      BY <2>2, <3>1, FS_EmptySet DEF Owned
  <2> QED
    BY <2>1, <2>2
<1> QED
  BY <1>1, <1>2 DEF NewFrames, s

\* Frames after frames
LEMMA ConcatFrames ==
  ASSUME NEW ns, NEW ss, NEW s, NEW t, NEW m, NEW n, NewFrames(s, ns, ss, m), NewFrames(t, ns, ss, n)
  PROVE  NewFrames(s \o t, ns, ss, m + n)
<1>1. s \in Seq(FrameRecord) /\ t \in Seq(FrameRecord)
  BY DEF NewFrames
<1>2. Cardinality(Owners(s \o t)) = m + n
  BY <1>1, OwnersConcat DEF NewFrames
<1> DEFINE u == s \o t
<1>3. /\ u \in Seq(FrameRecord)
      /\ Len(u) = Len(s) + Len(t)
      /\ \A i \in 1..(Len(s) + Len(t)) : u[i] = IF i <= Len(s) THEN s[i] ELSE t[i - Len(s)]
  BY <1>1, ConcatProperties
<1> HIDE DEF u
<1>4. ASSUME NEW k \in DOMAIN u
      PROVE  FrameInv(u[k], ns, ss) /\ u[k].op \notin {"copy", "instantiate"}
  <2>1. k \in 1..(Len(s) + Len(t)) /\ Len(s) \in Nat /\ Len(t) \in Nat
    BY <1>1, <1>3
  <2>2. CASE k <= Len(s)
    <3>1. k \in DOMAIN s /\ u[k] = s[k]
      BY <1>1, <1>3, <2>1, <2>2
    <3> QED
      BY <3>1 DEF NewFrames
  <2>3. CASE ~ (k <= Len(s))
    <3>1. k - Len(s) \in DOMAIN t /\ u[k] = t[k - Len(s)]
      BY <1>1, <1>3, <2>1, <2>3
    <3> QED
      BY <3>1 DEF NewFrames
  <2> QED
    BY <2>2, <2>3
<1> QED
  BY <1>2, <1>3, <1>4 DEF NewFrames, u

\* Two frames, each with its buffers
LEMMA TwoFrames ==
  ASSUME NEW ns, NEW ss, NEW a, NEW b, NEW m, NEW n,
         NewFrames(<<a>>, ns, ss, m), NewFrames(<<b>>, ns, ss, n)
  PROVE  NewFrames(<<a, b>>, ns, ss, m + n)
<1> DEFINE s == <<a>>
           t == <<b>>
           u == <<a, b>>
<1>1. NewFrames(s \o t, ns, ss, m + n)
  BY ConcatFrames
<1>2. /\ Len(s) = 1 /\ Len(t) = 1 /\ Len(u) = 2 /\ s[1] = a /\ t[1] = b /\ u[1] = a /\ u[2] = b
      /\ s \in Seq({a, b}) /\ t \in Seq({a, b}) /\ u \in Seq({a, b})
  OBVIOUS
<1> HIDE DEF s, t, u
<1>3. /\ s \o t \in Seq({a, b}) /\ Len(s \o t) = Len(s) + Len(t)
      /\ \A i \in 1..(Len(s) + Len(t)) : (s \o t)[i] = IF i <= Len(s) THEN s[i] ELSE t[i - Len(s)]
  BY <1>2, ConcatProperties
<1>4. Len(s \o t) = 2 /\ (s \o t)[1] = a /\ (s \o t)[2] = b
  BY <1>2, <1>3
<1>5. \A i \in 1..2 : (s \o t)[i] = u[i]
  BY <1>2, <1>4
<1>6. s \o t = u
  BY <1>2, <1>3, <1>4, <1>5, SeqEqual
<1> QED
  BY <1>1, <1>6 DEF u

\* Three frames, each with its buffers
LEMMA ThreeFrames ==
  ASSUME NEW ns, NEW ss, NEW a, NEW b, NEW c, NEW l, NEW m, NEW n,
         NewFrames(<<a>>, ns, ss, l), NewFrames(<<b>>, ns, ss, m), NewFrames(<<c>>, ns, ss, n)
  PROVE  NewFrames(<<a, b, c>>, ns, ss, (l + m) + n)
<1> DEFINE s == <<a, b>>
           t == <<c>>
           u == <<a, b, c>>
<1>1. NewFrames(s \o t, ns, ss, (l + m) + n)
  BY TwoFrames, ConcatFrames
<1>2. /\ Len(s) = 2 /\ Len(t) = 1 /\ Len(u) = 3
      /\ s[1] = a /\ s[2] = b /\ t[1] = c /\ u[1] = a /\ u[2] = b /\ u[3] = c
      /\ s \in Seq({a, b, c}) /\ t \in Seq({a, b, c}) /\ u \in Seq({a, b, c})
  OBVIOUS
<1> HIDE DEF s, t, u
<1>3. /\ s \o t \in Seq({a, b, c}) /\ Len(s \o t) = Len(s) + Len(t)
      /\ \A i \in 1..(Len(s) + Len(t)) : (s \o t)[i] = IF i <= Len(s) THEN s[i] ELSE t[i - Len(s)]
  BY <1>2, ConcatProperties
<1>4. Len(s \o t) = 3 /\ (s \o t)[1] = a /\ (s \o t)[2] = b /\ (s \o t)[3] = c
  BY <1>2, <1>3
<1>5. \A i \in 1..3 : (s \o t)[i] = u[i]
  BY <1>2, <1>4
<1>6. s \o t = u
  BY <1>2, <1>3, <1>4, <1>5, SeqEqual
<1> QED
  BY <1>1, <1>6 DEF u

\* Frames that wait for nothing, one for each of some nodes
LEMMA ManyFrames ==
  ASSUME NEW ns, NEW ss, NEW m \in Nat, NEW s, s = [k \in 1..m |-> s[k]],
         \A k \in 1..m : /\ s[k] \in FrameRecord /\ FrameInv(s[k], ns, ss)
                         /\ s[k].op \in {"resolve_symbols", "resolve_calls", "do_calls"}
  PROVE  NewFrames(s, ns, ss, 0)
<1>1. s \in Seq(FrameRecord) /\ DOMAIN s = 1..m
  OBVIOUS
<1>2. \A k \in DOMAIN s : ~ Owns(s[k])
  BY <1>1 DEF Owns
<1>3. Cardinality(Owners(s)) = 0
  BY <1>2, NoOwners
<1> QED
  BY <1>1, <1>3 DEF NewFrames

\* A fresh frame
LEMMA FrameType ==
  ASSUME NEW op \in FrameOps, NEW scope \in Nat, NEW node \in Nat
  PROVE  /\ Frame(op, scope, node) \in FrameRecord
         /\ Frame(op, scope, node).op = op /\ Frame(op, scope, node).scope = scope
         /\ Frame(op, scope, node).node = node /\ Frame(op, scope, node).arg = 0
         /\ ~ Owns(Frame(op, scope, node)) \/ op \in {"invoke", "returned"}
BY DEF Frame, FrameRecord, Owns, Computed

\* A loop over the children of a node
LEMMA ChildFrames ==
  ASSUME NodesInv(nodes), NEW node \in DOMAIN nodes, NEW ms, NodesStep(nodes, ms), NEW ss,
         NEW scope \in DOMAIN ss, scope \in Nat \ {0},
         NEW op \in {"resolve_symbols", "resolve_calls"}
  PROVE  NewFrames(ForEachChild(op, scope, node), ms, ss, 0)
<1> DEFINE c == nodes[node].childs
           s == ForEachChild(op, scope, node)
<1>1. DOMAIN c = 1..Len(c) /\ Len(c) \in Nat /\ \A k \in 1..Len(c) : c[k] \in DOMAIN nodes /\ c[k] \in Nat
  BY LinkedFacts DEF NodesInv
<1>2. s = [k \in 1..Len(c) |-> Frame(op, scope, c[k])]
  BY <1>1 DEF ForEachChild, NthChild
<1>3. \A k \in 1..Len(c) : s[k] = Frame(op, scope, c[k])
  BY <1>2
<1>4. s = [k \in 1..Len(c) |-> s[k]]
  BY <1>2
<1> HIDE DEF s, c
<1>5. op \in FrameOps
  BY DEF FrameOps
<1>6. ASSUME NEW k \in 1..Len(c)
      PROVE  /\ s[k] \in FrameRecord /\ FrameInv(s[k], ms, ss)
             /\ s[k].op \in {"resolve_symbols", "resolve_calls", "do_calls"}
  <2>1. /\ s[k] \in FrameRecord /\ s[k].op = op /\ s[k].scope = scope /\ s[k].node = c[k]
    BY <1>1, <1>3, <1>5, FrameType
  <2>2. c[k] \in DOMAIN ms
    BY <1>1, NodesGrow
  <2> QED
    BY <2>1, <2>2 DEF FrameInv
<1>7. NewFrames(s, ms, ss, 0)
  BY <1>1, <1>4, <1>6, ManyFrames
<1> QED
  BY <1>7 DEF s

\* A call of resolve_symbols, resolve_calls or do_calls
LEMMA CallFrame ==
  ASSUME NEW ns, NodesInv(ns), NEW ss, NEW node \in DOMAIN ns, NEW scope \in Nat,
         NEW op \in {"resolve_symbols", "resolve_calls", "do_calls", "close", "returned"},
         \/ scope \in DOMAIN ss /\ scope # 0
         \/ scope = 0 /\ op \in {"do_calls", "close", "returned"}
  PROVE  NewFrames(<<Frame(op, scope, node)>>, ns, ss, IF op = "returned" THEN 1 ELSE 0)
<1> DEFINE f == Frame(op, scope, node)
<1>1. op \in FrameOps /\ node \in Nat
  BY DEF FrameOps, NodesInv, Linked
<1>2. f \in FrameRecord /\ f.op = op /\ f.scope = scope /\ f.node = node /\ f.arg = 0
  BY <1>1, FrameType
<1> HIDE DEF f
<1>3. FrameInv(f, ns, ss) /\ f.op \notin {"copy", "instantiate"}
  BY <1>2 DEF FrameInv
<1>4. Owned(f) = IF op = "returned" THEN 1 ELSE 0
  BY <1>2 DEF Owned, Owns
<1>5. NewFrames(<<f>>, ns, ss, Owned(f))
  BY <1>2, <1>3, OneFrame
<1> QED
  BY <1>4, <1>5 DEF f

-----------------------------------------------------------------------------
(* What the invariant says of the frame that runs next.                        *)

\* The frame that runs, when it is no copy: every node is complete
LEMMA HeadFacts ==
  ASSUME EvalInv, agenda # <<>>, agenda[1].op # "copy"
  PROVE  /\ agenda[1] \in FrameRecord /\ FrameInv(agenda[1], nodes, scopes)
         /\ \A id \in DOMAIN nodes : Complete(nodes, id)
<1>1. agenda \in Seq(FrameRecord) /\ AgendaInv(nodes, scopes, agenda) /\ Linked(nodes)
  BY DEF EvalInv, AgendaInv, NodesInv
<1>2. 1 \in DOMAIN agenda /\ agenda[1] \in FrameRecord
  BY <1>1
<1>3. Quiet(nodes, agenda)
  BY <1>1, QuietFacts DEF AgendaInv
<1> QED
  BY <1>1, <1>2, <1>3 DEF AgendaInv, Quiet

\* What the invariant says of nodes and scopes
LEMMA ScopeFacts ==
  ASSUME EvalInv
  PROVE  /\ scopes \in Seq(ScopeRecord) /\ FathersFirst
         /\ Len(scopes) \in Nat \ {0} /\ DOMAIN scopes = 1..Len(scopes) /\ 1 \in DOMAIN scopes
         /\ TypedScopes(scopes, Len(nodes)) /\ TreeOf(scopes)
         /\ Len(nodes) \in Nat /\ DOMAIN nodes = 1..Len(nodes)
         /\ Linked(nodes) /\ NamesClean(nodes) /\ NodesInv(nodes) /\ ScopesInv(scopes, nodes)
<1>1. TypedScopes(scopes, Len(nodes)) /\ TreeOf(scopes) /\ Linked(nodes) /\ NamesClean(nodes)
  BY DEF EvalInv, ScopesInv, NodesInv
<1>2. scopes \in Seq(ScopeRecord) /\ scopes # <<>>
  BY <1>1 DEF TypedScopes
<1>3. Len(nodes) \in Nat /\ DOMAIN nodes = 1..Len(nodes)
  BY <1>1 DEF Linked
<1>4. Len(scopes) \in Nat \ {0} /\ DOMAIN scopes = 1..Len(scopes) /\ 1 \in DOMAIN scopes
  BY <1>2
<1> QED
  BY <1>1, <1>2, <1>3, <1>4, FathersFirstFacts DEF EvalInv

\* What a name means is an entry of some scope, or nothing
LEMMA Found ==
  ASSUME EvalInv, NEW from \in DOMAIN scopes, NEW name, FindSymbol(from, name).type = "internal"
  PROVE  FindSymbol(from, name).body \in DOMAIN nodes
<1>1. /\ scopes \in Seq(ScopeRecord) /\ FathersFirst /\ from \in 0..Len(scopes)
      /\ TypedScopes(scopes, Len(nodes)) /\ DOMAIN nodes = 1..Len(nodes)
  BY ScopeFacts
<1> DEFINE e == FindSymbol(from, name)
<1>2. \/ e = NoEntry
      \/ \E s \in DOMAIN scopes : \E i \in DOMAIN scopes[s].namespace : e = scopes[s].namespace[i]
  BY <1>1, FindSymbolFacts
<1> HIDE DEF e
<1>3. CASE e = NoEntry
  BY <1>3 DEF NoEntry, e
<1>4. CASE \E s \in DOMAIN scopes : \E i \in DOMAIN scopes[s].namespace : e = scopes[s].namespace[i]
  BY <1>1, <1>4 DEF TypedScopes, e
<1> QED
  BY <1>2, <1>3, <1>4

\* A call has a first child
LEMMA NameFacts ==
  ASSUME EvalInv, agenda # <<>>, agenda[1].op # "copy", Type(agenda[1].node) = "CALL"
  PROVE  CallSymbol(agenda[1]) \in DOMAIN nodes
<1>1. agenda[1].node \in DOMAIN nodes /\ Complete(nodes, agenda[1].node)
  BY HeadFacts DEF FrameInv
<1>2. Needed(nodes[agenda[1].node]) = 1
  BY DEF Type, Needed
<1>3. /\ Len(nodes[agenda[1].node].childs) \in Nat
      /\ \A k \in 1..Len(nodes[agenda[1].node].childs) : nodes[agenda[1].node].childs[k] \in DOMAIN nodes
  BY <1>1, LinkedFacts, ScopeFacts
<1>4. 1 \in 1..Len(nodes[agenda[1].node].childs)
  BY <1>1, <1>2, <1>3 DEF Complete
<1> QED
  BY <1>3, <1>4 DEF CallSymbol, NthChild

\* A call that has arguments has a second child
LEMMA ArgsFacts ==
  ASSUME NodesInv(nodes), NEW f, f.node \in DOMAIN nodes, HasArgs(f)
  PROVE  NthChild(nodes, f.node, 2) \in DOMAIN nodes /\ Len(nodes[f.node].childs) >= 2
<1>1. /\ Len(nodes[f.node].childs) \in Nat
      /\ \A k \in 1..Len(nodes[f.node].childs) : nodes[f.node].childs[k] \in DOMAIN nodes
  BY LinkedFacts DEF NodesInv
<1>2. Len(nodes[f.node].childs) > 1
  BY DEF HasArgs, NumChild
<1> QED
  BY <1>1, <1>2 DEF NthChild

-----------------------------------------------------------------------------
(* The output buffers.                                                         *)

\* The buffers, of which there is one at least
LEMMA OutsFacts ==
  ASSUME EvalInv
  PROVE  /\ TightOuts(outs) /\ outs \in Seq(Seq(Characters)) /\ Len(outs) \in Nat /\ Len(outs) >= 1
         /\ agenda # <<>> /\ Owns(agenda[1]) => Len(outs) >= 2
<1>1. /\ agenda \in Seq(FrameRecord) /\ Len(outs) = 1 + Cardinality(Owners(agenda))
      /\ TightOuts(outs) /\ outs \in Seq(Seq(Characters)) /\ Len(outs) \in Nat
  BY DEF EvalInv, AgendaInv, TightOuts
<1>2. IsFiniteSet(Owners(agenda)) /\ Cardinality(Owners(agenda)) \in Nat
  BY <1>1, OwnersFinite
<1>3. ASSUME agenda # <<>>, Owns(agenda[1]) PROVE Cardinality(Owners(agenda)) >= 1
  <2>1. 1 \in Owners(agenda)
    BY <1>1, <1>3 DEF Owners
  <2>2. Cardinality(Owners(agenda)) # 0
    BY <1>2, <2>1, FS_EmptySet
  <2> QED
    BY <1>2, <2>2
<1> QED
  BY <1>1, <1>2, <1>3

\* Two tight texts one after the other
LEMMA TightConcat ==
  ASSUME NEW s \in Seq(Characters), NEW t \in Seq(Characters), Tight(s), Tight(t)
  PROVE  s \o t \in Seq(Characters) /\ Tight(s \o t)
<1> DEFINE u == s \o t
<1>1. /\ u \in Seq(Characters) /\ Len(u) = Len(s) + Len(t)
      /\ \A i \in 1..(Len(s) + Len(t)) : u[i] = IF i <= Len(s) THEN s[i] ELSE t[i - Len(s)]
  BY ConcatProperties
<1>2. /\ DOMAIN u = 1..(Len(s) + Len(t)) /\ DOMAIN s = 1..Len(s) /\ DOMAIN t = 1..Len(t)
      /\ Len(s) \in Nat /\ Len(t) \in Nat
  <2>1. DOMAIN u = 1..Len(u)
    BY <1>1
  <2> QED
    BY <1>1, <2>1
<1> HIDE DEF u
<1>3. ASSUME NEW i \in DOMAIN u, Blank(u[i]) PROVE i > 1 /\ ~ Blank(u[i - 1])
  <2>1. CASE i <= Len(s)
    <3>1. i \in DOMAIN s /\ u[i] = s[i]
      BY <1>1, <1>2, <2>1
    <3>2. i > 1 /\ ~ Blank(s[i - 1])
      BY <1>3, <3>1 DEF Tight
    <3>3. u[i - 1] = s[i - 1]
      BY <1>1, <1>2, <2>1, <3>2
    <3> QED
      BY <3>2, <3>3
  <2>2. CASE ~ (i <= Len(s))
    <3> DEFINE j == i - Len(s)
    <3>1. j \in DOMAIN t /\ u[i] = t[j]
      BY <1>1, <1>2, <2>2
    <3>2. j > 1 /\ ~ Blank(t[j - 1])
      BY <1>3, <3>1 DEF Tight
    <3>3. i - 1 \in 1..(Len(s) + Len(t)) /\ ~ (i - 1 <= Len(s)) /\ (i - 1) - Len(s) = j - 1 /\ i > 1
      BY <1>2, <3>1, <3>2
    <3>4. u[i - 1] = t[j - 1]
      BY <1>1, <3>3
    <3> QED
      BY <3>2, <3>3, <3>4
  <2> QED
    BY <2>1, <2>2
<1> QED
  BY <1>1, <1>3 DEF Tight, u

\* A tight text in place of a buffer
LEMMA TightPut ==
  ASSUME NEW os, TightOuts(os), NEW n, n = Len(os), n >= 1, NEW t \in Seq(Characters), Tight(t)
  PROVE  /\ TightOuts([os EXCEPT ![n] = t]) /\ Len([os EXCEPT ![n] = t]) = n
         /\ os[n] \in Seq(Characters) /\ Tight(os[n])
<1>1. os \in Seq(Seq(Characters)) /\ n \in Nat /\ DOMAIN os = 1..n /\ n \in DOMAIN os
  BY DEF TightOuts
<1> DEFINE ps == [os EXCEPT ![n] = t]
<1>2. ps \in Seq(Seq(Characters)) /\ Len(ps) = n /\ DOMAIN ps = 1..n
  BY <1>1
<1>3. \A k \in 1..n : ps[k] = IF k = n THEN t ELSE os[k]
  BY <1>1
<1> HIDE DEF ps
<1>4. TightOuts(ps)
  BY <1>1, <1>2, <1>3 DEF TightOuts
<1>5. os[n] \in Seq(Characters) /\ Tight(os[n])
  BY <1>1 DEF TightOuts
<1> QED
  BY <1>2, <1>4, <1>5 DEF ps

\* A fresh buffer more
LEMMA TightPush ==
  ASSUME NEW os, TightOuts(os)
  PROVE  TightOuts(Append(os, <<>>)) /\ Len(Append(os, <<>>)) = Len(os) + 1
<1> DEFINE e == <<>>
           ps == Append(os, e)
<1>1. os \in Seq(Seq(Characters)) /\ Len(os) \in Nat /\ e \in Seq(Characters) /\ Tight(e)
  BY DEF TightOuts, Tight
<1> HIDE DEF e
<1>2. /\ ps \in Seq(Seq(Characters)) /\ Len(ps) = Len(os) + 1
      /\ \A k \in 1..Len(os) : ps[k] = os[k]
      /\ ps[Len(os) + 1] = e
  BY <1>1, AppendProperties
<1> HIDE DEF ps
<1>3. ASSUME NEW k \in DOMAIN ps PROVE Tight(ps[k])
  <2>1. k \in 1..(Len(os) + 1)
    BY <1>2
  <2>2. CASE k = Len(os) + 1
    BY <1>1, <1>2, <2>2
  <2>3. CASE k # Len(os) + 1
    <3>1. k \in 1..Len(os) /\ k \in DOMAIN os
      BY <1>1, <2>1, <2>3
    <3> QED
      BY <1>2, <3>1 DEF TightOuts
  <2> QED
    BY <2>2, <2>3
<1>4. TightOuts(ps) /\ Len(ps) = Len(os) + 1
  BY <1>2, <1>3 DEF TightOuts
<1> QED
  BY <1>4 DEF ps, e

\* A buffer less
LEMMA TightPop ==
  ASSUME NEW os, TightOuts(os), Len(os) >= 1
  PROVE  /\ TightOuts(Front(os)) /\ Len(Front(os)) = Len(os) - 1
         /\ Last(os) \in Seq(Characters) /\ Tight(Last(os))
<1>1. os \in Seq(Seq(Characters)) /\ Len(os) \in Nat /\ DOMAIN os = 1..Len(os)
  BY DEF TightOuts
<1>2. Last(os) = os[Len(os)] /\ Len(os) \in DOMAIN os
  BY <1>1 DEF Last
<1>3. Last(os) \in Seq(Characters) /\ Tight(Last(os))
  BY <1>1, <1>2 DEF TightOuts
<1> DEFINE fs == Front(os)
<1>4. fs = SubSeq(os, 1, Len(os) - 1)
  BY DEF Front
<1>5. /\ fs \in Seq(Seq(Characters)) /\ Len(fs) = Len(os) - 1
      /\ \A k \in 1..(Len(os) - 1) : fs[k] = os[k]
  <2>1. \A k \in 1..(Len(os) - 1) : os[k] \in Seq(Characters)
    BY <1>1
  <2> QED
    BY <1>1, <1>4, <2>1, SubSeqProperties
<1> HIDE DEF fs
<1>6. DOMAIN fs = 1..(Len(os) - 1)
  BY <1>5
<1>7. TightOuts(fs)
  <2>1. ASSUME NEW k \in DOMAIN fs PROVE Tight(fs[k])
    <3>1. k \in DOMAIN os /\ fs[k] = os[k]
      <4>1. k \in 1..(Len(os) - 1)
        BY <1>6
      <4>2. fs[k] = os[k]
        BY <1>5, <4>1
      <4>3. k \in 1..Len(os)
        BY <1>1, <4>1
      <4> QED
        BY <1>1, <4>2, <4>3
    <3> QED
      BY <3>1 DEF TightOuts
  <2> QED
    BY <1>5, <2>1 DEF TightOuts
<1> QED
  BY <1>3, <1>5, <1>7 DEF fs

\* A text put with its blanks reduced
LEMMA TightReduced ==
  ASSUME NEW os, TightOuts(os), Len(os) >= 1, NEW text \in Seq(Characters), NEW flags
  PROVE  /\ TightOuts(PutReducedText(os, text, flags))
         /\ Len(PutReducedText(os, text, flags)) = Len(os)
<1> DEFINE n == Len(os)
           t == PutBlankReduced(os[n], text, "FIRST_CHILD" \in flags, "LAST_CHILD" \in flags)
<1>1. os[n] \in Seq(Characters) /\ Tight(os[n])
  BY DEF TightOuts
<1>2. t \in Seq(Characters) /\ Tight(t)
  BY <1>1, PutBlankReducedFacts
<1>3. PutReducedText(os, text, flags) = [os EXCEPT ![n] = t]
  BY DEF PutReducedText
<1> HIDE DEF t
<1>4. TightOuts([os EXCEPT ![n] = t]) /\ Len([os EXCEPT ![n] = t]) = n
  BY <1>2, TightPut
<1> QED
  BY <1>3, <1>4

-----------------------------------------------------------------------------
(* The steps of resolve_symbols and of resolve_calls.                          *)

\* Where the evaluator is, it has a frame to run
LEMMA AtFacts ==
  ASSUME EvalInv, NEW op, At(op), op # "copy"
  PROVE  /\ agenda # <<>> /\ agenda[1].op = op /\ agenda[1].op # "copy"
         /\ agenda[1] \in FrameRecord /\ FrameInv(agenda[1], nodes, scopes)
         /\ agenda[1].node \in DOMAIN nodes /\ agenda[1].node \in Nat /\ agenda[1].scope \in Nat
         /\ Complete(nodes, agenda[1].node)
<1>1. agenda # <<>> /\ agenda[1].op = op /\ agenda[1].op # "copy"
  BY DEF At
<1>2. /\ agenda[1] \in FrameRecord /\ FrameInv(agenda[1], nodes, scopes)
      /\ \A id \in DOMAIN nodes : Complete(nodes, id)
  BY <1>1, HeadFacts
<1>3. agenda[1].node \in DOMAIN nodes /\ agenda[1].node \in Nat /\ agenda[1].scope \in Nat
  BY <1>2 DEF FrameInv, FrameRecord
<1> QED
  BY <1>1, <1>2, <1>3

\* A frame that was given a scope has it
LEMMA ScopeOfFrame ==
  ASSUME EvalInv, NEW f, FrameInv(f, nodes, scopes),
         f.op \in {"resolve_symbols", "resolve_calls", "bind", "instantiate"}
  PROVE  f.scope \in DOMAIN scopes /\ f.scope \in Nat \ {0}
<1>1. f.scope \in DOMAIN scopes
  BY DEF FrameInv
<1> QED
  BY <1>1, ScopeFacts

\* A step that leaves nodes and scopes alone
LEMMA SteppedHere ==
  ASSUME EvalInv, agenda # <<>>, agenda[1].op # "copy",
         NEW frames, NEW n, NewFrames(frames, nodes, scopes, n), Continue(frames),
         TightOuts(outs'), Len(outs') + Owned(agenda[1]) = Len(outs) + n,
         UNCHANGED <<nodes, scopes, boundIn, parsing, fault>>
  PROVE  EvalInv'
<1>1. NodesInv(nodes) /\ ScopesInv(scopes, nodes) /\ DOMAIN boundIn \subseteq DOMAIN nodes
  BY DEF EvalInv
<1>2. NodesStep(nodes, nodes') /\ ScopesStep(scopes, scopes', nodes')
  BY <1>1, NodesStepSame, ScopesStepSame
<1>3. NewFrames(frames, nodes', scopes', n) /\ DOMAIN boundIn' \subseteq DOMAIN nodes'
  BY <1>1
<1> QED
  BY <1>2, <1>3, Stepped

\* The frames that wait for no buffer
LEMMA NotOwned ==
  ASSUME NEW f, f.op \notin {"invoke", "returned", "bind"} PROVE Owned(f) = 0
BY DEF Owned, Owns

\* A step that writes nothing
LEMMA SteppedSilent ==
  ASSUME EvalInv, agenda # <<>>, agenda[1].op \notin {"copy", "bind", "invoke", "returned"},
         NEW frames, NewFrames(frames, nodes, scopes, 0), Continue(frames),
         UNCHANGED <<nodes, scopes, outs, boundIn, parsing, fault>>
  PROVE  EvalInv'
<1>1. TightOuts(outs') /\ Len(outs') + Owned(agenda[1]) = Len(outs) + 0 /\ agenda[1].op # "copy"
  BY OutsFacts, NotOwned
<1> QED
  BY <1>1, SteppedHere

\* resolve_symbols of a definition
LEMMA StepResolveAssignment ==
  ASSUME EvalInv, ResolveAssignment, UNCHANGED parsing PROVE EvalInv'
<1> DEFINE f == agenda[1]
           e == InternalEntry(nodes[NthChild(nodes, f.node, 1)].text, NthChild(nodes, f.node, 2))
<1>1. /\ At("resolve_symbols") /\ nodes[f.node].type = "ASSIGNMENT"
      /\ scopes' = AddEntry(scopes, f.scope, e) /\ Continue(<<>>)
      /\ UNCHANGED <<nodes, outs, fault, boundIn>>
  BY DEF ResolveAssignment, Head1, Type
<1> HIDE DEF e
<1>2. /\ agenda # <<>> /\ f.op = "resolve_symbols" /\ FrameInv(f, nodes, scopes)
      /\ f.node \in DOMAIN nodes /\ Complete(nodes, f.node)
  BY <1>1, AtFacts
<1>3. /\ NodesInv(nodes) /\ Linked(nodes) /\ TypedScopes(scopes, Len(nodes)) /\ TreeOf(scopes)
      /\ Len(nodes) \in Nat /\ DOMAIN nodes = 1..Len(nodes) /\ DOMAIN scopes = 1..Len(scopes)
  BY ScopeFacts
<1>4. e \in EntryType /\ e.type = "internal" /\ e.body \in 1..Len(nodes)
  <2>1. Needed(nodes[f.node]) = 2
    BY <1>1 DEF Needed
  <2>2. /\ Len(nodes[f.node].childs) \in Nat
        /\ \A k \in 1..Len(nodes[f.node].childs) : nodes[f.node].childs[k] \in DOMAIN nodes
    BY <1>2, <1>3, LinkedFacts
  <2>3. 1 \in 1..Len(nodes[f.node].childs) /\ 2 \in 1..Len(nodes[f.node].childs)
    BY <1>2, <2>1, <2>2 DEF Complete
  <2> DEFINE a == nodes[f.node].childs[1]
             b == nodes[f.node].childs[2]
  <2>4. a \in DOMAIN nodes /\ b \in DOMAIN nodes
    BY <2>2, <2>3
  <2> HIDE DEF a, b
  <2>5. nodes[a].text \in Seq(Characters) /\ b \in Nat
    BY <1>3, <2>4, LinkedFacts
  <2>6. e = [name |-> nodes[a].text, type |-> "internal", body |-> b, target |-> NoText]
    BY DEF e, InternalEntry, NthChild, a, b
  <2>7. NoText \in Seq(Characters)
    BY DEF NoText
  <2> QED
    BY <1>3, <2>4, <2>5, <2>6, <2>7 DEF EntryType
<1>5. f.scope \in DOMAIN scopes
  BY <1>2, ScopeOfFrame
<1>6. /\ TypedScopes(scopes', Len(nodes)) /\ TreeOf(scopes') /\ Len(scopes') = Len(scopes)
  <2>1. /\ TypedScopes(AddEntry(scopes, f.scope, e), Len(nodes))
        /\ TreeOf(AddEntry(scopes, f.scope, e))
        /\ Len(AddEntry(scopes, f.scope, e)) = Len(scopes)
    BY <1>3, <1>4, <1>5, AddEntryFacts
  <2> QED
    BY <1>1, <2>1
<1>7. ScopesStep(scopes, scopes', nodes')
  <2>1. DOMAIN scopes' = 1..Len(scopes')
    BY <1>6 DEF TypedScopes
  <2> QED
    BY <1>1, <1>3, <1>6, <2>1 DEF ScopesStep, ScopesInv
<1>8. NodesStep(nodes, nodes') /\ NewFrames(<<>>, nodes', scopes', 0)
  BY <1>1, <1>3, NodesStepSame, NoFrames
<1>9. /\ TightOuts(outs') /\ Len(outs') + Owned(f) = Len(outs) + 0
      /\ DOMAIN boundIn' \subseteq DOMAIN nodes'
  BY <1>1, <1>2, OutsFacts, NotOwned DEF EvalInv
<1> QED
  BY <1>1, <1>2, <1>7, <1>8, <1>9, Stepped

\* resolve_symbols of a call
LEMMA StepResolveSymbolsOfCall ==
  ASSUME EvalInv, ResolveSymbolsOfCall, UNCHANGED parsing PROVE EvalInv'
<1> DEFINE f == agenda[1]
           new == Len(scopes) + 1
<1>1. /\ At("resolve_symbols") /\ scopes' = AddScopeChild(scopes, f.scope, f.node)
      /\ Continue(ForEachChild("resolve_symbols", new, f.node))
      /\ UNCHANGED <<nodes, outs, fault, boundIn>>
  BY DEF ResolveSymbolsOfCall, Head1
<1>2. /\ agenda # <<>> /\ f.op = "resolve_symbols" /\ FrameInv(f, nodes, scopes) /\ f.node \in DOMAIN nodes
  BY <1>1, AtFacts
<1>3. /\ NodesInv(nodes) /\ TypedScopes(scopes, Len(nodes)) /\ TreeOf(scopes) /\ Len(scopes) \in Nat
      /\ Len(nodes) \in Nat /\ DOMAIN nodes = 1..Len(nodes) /\ DOMAIN scopes = 1..Len(scopes)
  BY ScopeFacts
<1>4. f.scope \in DOMAIN scopes
  BY <1>2, ScopeOfFrame
<1>5. TypedScopes(scopes', Len(nodes)) /\ TreeOf(scopes') /\ Len(scopes') = new
  <2>1. f.node \in 1..Len(nodes)
    BY <1>2, <1>3
  <2>2. /\ TypedScopes(AddScopeChild(scopes, f.scope, f.node), Len(nodes))
        /\ TreeOf(AddScopeChild(scopes, f.scope, f.node))
        /\ Len(AddScopeChild(scopes, f.scope, f.node)) = new
    BY <1>3, <1>4, <2>1, AddScopeChildFacts
  <2> QED
    BY <1>1, <2>2
<1>6. ScopesStep(scopes, scopes', nodes') /\ new \in DOMAIN scopes' /\ new \in Nat \ {0}
  <2>1. DOMAIN scopes' = 1..Len(scopes')
    BY <1>5 DEF TypedScopes
  <2> QED
    BY <1>1, <1>3, <1>5, <2>1 DEF ScopesStep, ScopesInv
<1> HIDE DEF new
<1>7. NodesStep(nodes, nodes')
  BY <1>1, <1>3, NodesStepSame
<1>8. NewFrames(ForEachChild("resolve_symbols", new, f.node), nodes', scopes', 0)
  BY <1>2, <1>3, <1>6, <1>7, ChildFrames
<1>9. /\ TightOuts(outs') /\ Len(outs') + Owned(f) = Len(outs) + 0
      /\ DOMAIN boundIn' \subseteq DOMAIN nodes'
  BY <1>1, <1>2, OutsFacts, NotOwned DEF EvalInv
<1> QED
  BY <1>1, <1>2, <1>6, <1>7, <1>8, <1>9, Stepped

\* resolve_symbols of another node
LEMMA StepResolveSymbolsBelow ==
  ASSUME EvalInv, ResolveSymbolsBelow, UNCHANGED parsing PROVE EvalInv'
<1> DEFINE f == agenda[1]
           s == ForEachChild("resolve_symbols", f.scope, f.node)
<1>1. /\ At("resolve_symbols") /\ Continue(s)
      /\ UNCHANGED <<nodes, scopes, outs, fault, boundIn>>
  BY DEF ResolveSymbolsBelow, Head1
<1>2. /\ agenda # <<>> /\ f.op = "resolve_symbols" /\ FrameInv(f, nodes, scopes) /\ f.node \in DOMAIN nodes
  BY <1>1, AtFacts
<1>3. NodesInv(nodes) /\ NodesStep(nodes, nodes)
  BY NodesStepSame, ScopeFacts
<1>4. f.scope \in DOMAIN scopes /\ f.scope \in Nat \ {0}
  BY <1>2, ScopeOfFrame
<1>5. NewFrames(s, nodes, scopes, 0)
  BY <1>2, <1>3, <1>4, ChildFrames
<1> HIDE DEF s
<1> QED
  BY <1>1, <1>2, <1>5, SteppedSilent

\* resolve_calls of a node that is no call
LEMMA StepResolveCallsBelow ==
  ASSUME EvalInv, ResolveCallsBelow, UNCHANGED parsing PROVE EvalInv'
<1> DEFINE f == agenda[1]
           s == ForEachChild("resolve_calls", f.scope, f.node)
<1>1. /\ At("resolve_calls") /\ (Continue(s) \/ Continue(<<>>))
      /\ UNCHANGED <<nodes, scopes, outs, fault, boundIn>>
  BY DEF ResolveCallsBelow, Head1
<1>2. /\ agenda # <<>> /\ f.op = "resolve_calls" /\ FrameInv(f, nodes, scopes) /\ f.node \in DOMAIN nodes
  BY <1>1, AtFacts
<1>3. NodesInv(nodes) /\ NodesStep(nodes, nodes)
  BY NodesStepSame, ScopeFacts
<1>4. f.scope \in DOMAIN scopes /\ f.scope \in Nat \ {0}
  BY <1>2, ScopeOfFrame
<1>5. NewFrames(s, nodes, scopes, 0) /\ NewFrames(<<>>, nodes, scopes, 0)
  BY <1>2, <1>3, <1>4, ChildFrames, NoFrames
<1> HIDE DEF s
<1>6. CASE Continue(s)
  BY <1>1, <1>2, <1>5, <1>6, SteppedSilent
<1>7. CASE Continue(<<>>)
  BY <1>1, <1>2, <1>5, <1>7, SteppedSilent
<1> QED
  BY <1>1, <1>6, <1>7

\* The scope of a call is one of those made for it, or the one it stands in
LEMMA CallScopeFacts ==
  ASSUME EvalInv, NEW f, f.scope \in DOMAIN scopes
  PROVE  CallScope(f) \in DOMAIN scopes /\ CallScope(f) \in Nat \ {0}
<1> DEFINE T == ChildScopesOf(f.scope, f.node)
<1>1. /\ scopes \in Seq(ScopeRecord) /\ TypedScopes(scopes, Len(nodes))
      /\ Len(scopes) \in Nat /\ DOMAIN scopes = 1..Len(scopes)
  BY ScopeFacts
<1>2. T \subseteq DOMAIN scopes
  BY <1>1 DEF ChildScopesOf, ToSet, TypedScopes
<1>3. CallScope(f) = f.scope \/ (T # {} /\ CallScope(f) = Max(T))
  BY DEF CallScope, FindScopeChild
<1> HIDE DEF T
<1>4. CASE CallScope(f) = f.scope
  BY <1>1, <1>4
<1>5. CASE T # {} /\ CallScope(f) = Max(T)
  <2>1. T \in SUBSET (0..Len(scopes))
    BY <1>1, <1>2
  <2>2. Max(T) \in T
    BY <1>1, <1>5, <2>1, MaxFacts
  <2> QED
    BY <1>1, <1>2, <1>5, <2>2
<1> QED
  BY <1>3, <1>4, <1>5

\* The rest of resolve_calls_call
LEMMA BindFrame ==
  ASSUME EvalInv, NEW f, f.node \in DOMAIN nodes, f.scope \in DOMAIN scopes,
         Type(f.node) = "CALL", Complete(nodes, f.node), Type(CallSymbol(f)) = "SYMBOL",
         NEW arg \in Nat
  PROVE  NewFrames(<<[Frame("bind", CallScope(f), f.node) EXCEPT !.arg = arg]>>, nodes, scopes,
                   IF arg = 0 THEN 0 ELSE 1)
<1> DEFINE s == CallScope(f)
           b == [Frame("bind", s, f.node) EXCEPT !.arg = arg]
<1>1. s \in DOMAIN scopes /\ s \in Nat \ {0}
  BY CallScopeFacts
<1> HIDE DEF s
<1>2. Linked(nodes) /\ f.node \in Nat
  BY ScopeFacts
<1>3. /\ b \in FrameRecord /\ b.op = "bind" /\ b.scope = s /\ b.node = f.node /\ b.arg = arg
  BY <1>1, <1>2 DEF Frame, FrameRecord, FrameOps, Flags
<1> HIDE DEF b
<1>4. FirstName(nodes, f.node)
  <2>1. Needed(nodes[f.node]) = 1
    BY DEF Type, Needed
  <2>2. Len(nodes[f.node].childs) \in Nat
    BY <1>2, LinkedFacts
  <2> QED
    BY <2>1, <2>2 DEF Complete, FirstName, CallSymbol, NthChild, Type, NameTypes
<1>5. FrameInv(b, nodes, scopes) /\ b.op \notin {"copy", "instantiate"}
  BY <1>1, <1>3, <1>4 DEF FrameInv
<1>6. Owned(b) = IF arg = 0 THEN 0 ELSE 1
  BY <1>3 DEF Owned, Owns, Computed
<1>7. NewFrames(<<b>>, nodes, scopes, Owned(b))
  BY <1>3, <1>5, OneFrame
<1> QED
  BY <1>6, <1>7 DEF b, s

\* resolve_calls of a call by name
LEMMA StepCallByName ==
  ASSUME EvalInv, CallByName, UNCHANGED parsing PROVE EvalInv'
<1> DEFINE f == agenda[1]
           b == [Frame("bind", CallScope(f), f.node) EXCEPT !.arg = 0]
<1>1. /\ At("resolve_calls") /\ Type(f.node) = "CALL"
      /\ Type(CallSymbol(f)) = "SYMBOL" /\ Continue(<<Frame("bind", CallScope(f), f.node)>>)
      /\ UNCHANGED <<nodes, scopes, outs, fault, boundIn>>
  BY DEF CallByName, AtCall, Head1
<1>2. b = Frame("bind", CallScope(f), f.node)
  BY DEF Frame
<1>3. /\ agenda # <<>> /\ f.op = "resolve_calls" /\ FrameInv(f, nodes, scopes)
      /\ f.node \in DOMAIN nodes /\ Complete(nodes, f.node)
  BY <1>1, AtFacts
<1>4. f.scope \in DOMAIN scopes
  BY <1>3, ScopeOfFrame
<1>5. NewFrames(<<b>>, nodes, scopes, 0)
  BY <1>1, <1>3, <1>4, BindFrame
<1> HIDE DEF b
<1>6. Continue(<<b>>)
  BY <1>1, <1>2
<1> QED
  BY <1>1, <1>3, <1>5, <1>6, SteppedSilent

\* resolve_calls of a call by computed name
LEMMA StepCallByComputedName ==
  ASSUME EvalInv, CallByComputedName, UNCHANGED parsing PROVE EvalInv'
<1> DEFINE f == agenda[1]
           block == NameBlock(f)
           c  == Capacity(Len(scopes))
           f1 == Frame("resolve_calls", CallScope(f), block)
           f2 == Frame("do_calls", 0, block)
           f3 == [Frame("bind", CallScope(f), f.node) EXCEPT !.arg = c]
<1>1. /\ At("resolve_calls") /\ Type(f.node) = "CALL"
      /\ Type(CallSymbol(f)) = "SYMBOL" /\ nodes[CallSymbol(f)].text = NoText
      /\ outs' = Append(outs, <<>>)
      /\ Continue(<<f1, f2, f3>>)
      /\ UNCHANGED <<nodes, scopes, fault, boundIn>>
  BY DEF CallByComputedName, AtComputedName, AtCall, Head1
<1>2. /\ agenda # <<>> /\ f.op = "resolve_calls" /\ FrameInv(f, nodes, scopes)
      /\ f.node \in DOMAIN nodes /\ Complete(nodes, f.node)
  BY <1>1, AtFacts
<1>3. f.scope \in DOMAIN scopes
  BY <1>2, ScopeOfFrame
<1>4. /\ Linked(nodes) /\ NodesInv(nodes) /\ Len(scopes) \in Nat
      /\ \A id \in DOMAIN nodes : Complete(nodes, id)
  BY <1>2, ScopeFacts, HeadFacts
<1>5. c \in Nat \ {0}
  BY <1>4, CapacityFacts
<1> HIDE DEF c
<1>6. block \in DOMAIN nodes
  <2> DEFINE id == CallSymbol(f)
  <2>1. id \in DOMAIN nodes
    BY <1>1, <1>2, NameFacts
  <2>2. Needed(nodes[id]) = 1
    BY <1>1 DEF Needed, Type
  <2> HIDE DEF id
  <2>3. /\ Len(nodes[id].childs) \in Nat
        /\ \A k \in 1..Len(nodes[id].childs) : nodes[id].childs[k] \in DOMAIN nodes
    BY <1>4, <2>1, LinkedFacts
  <2>4. 1 \in 1..Len(nodes[id].childs)
    BY <1>4, <2>1, <2>2, <2>3 DEF Complete
  <2> QED
    BY <2>3, <2>4 DEF NameBlock, NthChild, id
<1> HIDE DEF block
<1>7. CallScope(f) \in DOMAIN scopes /\ CallScope(f) \in Nat \ {0}
  BY <1>1, <1>3, CallScopeFacts
<1>8. NewFrames(<<f3>>, nodes, scopes, 1)
  <2>1. NewFrames(<<f3>>, nodes, scopes, IF c = 0 THEN 0 ELSE 1)
    BY <1>1, <1>2, <1>3, <1>5, BindFrame
  <2> QED
    BY <1>5, <2>1
<1>9. NewFrames(<<f1>>, nodes, scopes, 0) /\ NewFrames(<<f2>>, nodes, scopes, 0)
  <2>1. NewFrames(<<f1>>, nodes, scopes, IF "resolve_calls" = "returned" THEN 1 ELSE 0)
    BY <1>4, <1>6, <1>7, CallFrame
  <2>2. NewFrames(<<f2>>, nodes, scopes, IF "do_calls" = "returned" THEN 1 ELSE 0)
    BY <1>4, <1>6, CallFrame
  <2> QED
    BY <2>1, <2>2
<1> HIDE DEF f1, f2, f3
<1>13. NewFrames(<<f1, f2, f3>>, nodes, scopes, (0 + 0) + 1)
  BY <1>8, <1>9, ThreeFrames
<1>14. TightOuts(outs') /\ Len(outs') = Len(outs) + 1
  BY <1>1, OutsFacts, TightPush
<1>15. Len(outs') + Owned(f) = Len(outs) + ((0 + 0) + 1)
  BY <1>2, <1>14, NotOwned, OutsFacts
<1> QED
  BY <1>1, <1>2, <1>13, <1>14, <1>15, SteppedHere

-----------------------------------------------------------------------------
(* The steps that bind a call.                                                 *)

\* A call that is bound gives up the buffer of its computed name
LEMMA BoundFacts ==
  ASSUME EvalInv, At("bind"), Bound(agenda[1]), NodesStep(nodes, nodes')
  PROVE  /\ agenda # <<>> /\ agenda[1].op # "copy"
         /\ agenda[1] \in FrameRecord /\ FrameInv(agenda[1], nodes, scopes)
         /\ agenda[1].node \in DOMAIN nodes
         /\ agenda[1].scope \in DOMAIN scopes /\ agenda[1].scope \in Nat \ {0}
         /\ TightOuts(outs') /\ Len(outs') + Owned(agenda[1]) = Len(outs) + 0
         /\ DOMAIN boundIn' \subseteq DOMAIN nodes'
         /\ scopes' = scopes /\ fault' = fault /\ ScopesStep(scopes, scopes', nodes')
<1> DEFINE f == agenda[1]
<1>1. /\ agenda # <<>> /\ f.op = "bind" /\ f.op # "copy" /\ f \in FrameRecord
      /\ FrameInv(f, nodes, scopes) /\ f.node \in DOMAIN nodes
  BY AtFacts
<1>2. f.scope \in DOMAIN scopes /\ f.scope \in Nat \ {0}
  BY <1>1, ScopeOfFrame
<1>3. /\ DOMAIN boundIn' = DOMAIN boundIn \union {f.node}
      /\ outs' = IF Computed(f) THEN Front(outs) ELSE outs
      /\ scopes' = scopes /\ fault' = fault
  BY DEF Bound
<1>4. DOMAIN boundIn' \subseteq DOMAIN nodes'
  <2>1. DOMAIN nodes \subseteq DOMAIN nodes'
    BY NodesGrow, ScopeFacts
  <2> QED
    BY <1>1, <1>3, <2>1 DEF EvalInv
<1>5. TightOuts(outs') /\ Len(outs') + Owned(f) = Len(outs) + 0
  <2>1. CASE Computed(f)
    <3>1. Owned(f) = 1 /\ Owns(f)
      BY <1>1, <2>1 DEF Owned, Owns
    <3>2. TightOuts(outs) /\ Len(outs) >= 1 /\ Len(outs) \in Nat
      BY OutsFacts
    <3>3. TightOuts(Front(outs)) /\ Len(Front(outs)) = Len(outs) - 1
      BY <3>2, TightPop
    <3> QED
      BY <1>3, <2>1, <3>1, <3>2, <3>3
  <2>2. CASE ~ Computed(f)
    <3>1. Owned(f) = 0
      BY <1>1, <2>2 DEF Owned, Owns
    <3> QED
      BY <1>3, <2>2, <3>1, OutsFacts
  <2> QED
    BY <2>1, <2>2
<1>6. ScopesStep(scopes, scopes', nodes')
  <2>1. ScopesStep(scopes, scopes, nodes')
    BY ScopeFacts, ScopesStepSame
  <2> QED
    BY <1>3, <2>1
<1> QED
  BY <1>1, <1>2, <1>3, <1>4, <1>5, <1>6

\* The call that is bound, and its name
LEMMA BindNode ==
  ASSUME EvalInv, At("bind")
  PROVE  /\ agenda[1].node \in DOMAIN nodes /\ agenda[1].scope \in DOMAIN scopes
         /\ FirstName(nodes, agenda[1].node)
         /\ CallSymbol(agenda[1]) \in DOMAIN nodes
         /\ nodes[CallSymbol(agenda[1])].type \in NameTypes
<1>1. agenda[1].op = "bind" /\ FrameInv(agenda[1], nodes, scopes) /\ agenda[1].node \in DOMAIN nodes
  BY AtFacts
<1>2. agenda[1].scope \in DOMAIN scopes /\ FirstName(nodes, agenda[1].node)
  BY <1>1, ScopeOfFrame DEF FrameInv
<1>3. /\ Len(nodes[agenda[1].node].childs) \in Nat
      /\ \A k \in 1..Len(nodes[agenda[1].node].childs) : nodes[agenda[1].node].childs[k] \in DOMAIN nodes
  BY <1>1, LinkedFacts, ScopeFacts
<1>4. 1 \in 1..Len(nodes[agenda[1].node].childs)
  BY <1>2, <1>3 DEF FirstName
<1> QED
  BY <1>1, <1>2, <1>3, <1>4 DEF FirstName, CallSymbol, NthChild

\* A definition called with arguments
LEMMA StepBindCopy ==
  ASSUME EvalInv, BindCopy, UNCHANGED parsing PROVE EvalInv'
<1> DEFINE f == agenda[1]
           body == Meaning(f).body
           copy == Frame("copy", 0, body)
           inst == [Frame("instantiate", f.scope, f.node) EXCEPT !.arg = Len(nodes) + 1]
           frames == <<copy, inst>>
<1>1. /\ At("bind") /\ Meaning(f).type = "internal" /\ HasArgs(f)
      /\ Continue(frames) /\ nodes' = nodes /\ Bound(f)
  BY DEF BindCopy, Head1
<1>2. /\ NodesInv(nodes) /\ Linked(nodes) /\ Len(nodes) \in Nat /\ DOMAIN nodes = 1..Len(nodes)
      /\ NodesStep(nodes, nodes')
  BY <1>1, ScopeFacts, NodesStepSame
<1>3. /\ agenda # <<>> /\ f.op # "copy" /\ f.node \in DOMAIN nodes
      /\ f.scope \in DOMAIN scopes /\ f.scope \in Nat \ {0}
      /\ TightOuts(outs') /\ Len(outs') + Owned(f) = Len(outs) + 0
      /\ DOMAIN boundIn' \subseteq DOMAIN nodes'
      /\ scopes' = scopes /\ fault' = fault
  BY <1>1, <1>2, BoundFacts
<1>4. body \in DOMAIN nodes
  BY <1>1, <1>3, Found DEF Meaning
<1> HIDE DEF body
<1>5. copy \in FrameRecord /\ copy.op = "copy" /\ copy.arg = 0 /\ copy.scope = 0 /\ copy.node = body
  BY <1>2, <1>4 DEF Frame, FrameRecord, FrameOps
<1>6. /\ inst \in FrameRecord /\ inst.op = "instantiate" /\ inst.arg = Len(nodes) + 1
      /\ inst.scope = f.scope /\ inst.node = f.node
  BY <1>2, <1>3 DEF Frame, FrameRecord, FrameOps
<1> HIDE DEF copy, inst
<1>7. FrameInv(copy, nodes, scopes) /\ FrameInv(inst, nodes, scopes)
  <2>1. Len(nodes[f.node].childs) >= 2
    BY <1>1, <1>2, <1>3, ArgsFacts
  <2> QED
    BY <1>3, <1>4, <1>5, <1>6, <2>1 DEF FrameInv
<1>8. AgendaInv(nodes, scopes, agenda) /\ agenda \in Seq(FrameRecord)
  BY DEF EvalInv, AgendaInv
<1>9. AgendaInv(nodes, scopes, <<copy, inst>> \o Tail(agenda))
  BY <1>2, <1>3, <1>5, <1>6, <1>7, <1>8, CopyStarts
<1>10. frames \in Seq(FrameRecord) /\ Cardinality(Owners(frames)) = 0
  <2>1. frames \in Seq(FrameRecord) /\ DOMAIN frames = {1, 2} /\ frames[1] = copy /\ frames[2] = inst
    BY <1>5, <1>6
  <2> HIDE DEF frames
  <2>2. \A k \in DOMAIN frames : ~ Owns(frames[k])
    BY <1>5, <1>6, <2>1 DEF Owns
  <2> QED
    BY <2>1, <2>2, NoOwners
<1>11. agenda' = frames \o Tail(agenda)
  BY <1>1 DEF Continue
<1>12. AgendaInv(nodes', scopes', agenda')
  BY <1>1, <1>3, <1>9, <1>11
<1> HIDE DEF frames
<1>13. Cardinality(Owners(frames \o Tail(agenda))) + Owned(f) = 0 + Cardinality(Owners(agenda))
  <2>1. Cardinality(Owners(frames \o Tail(agenda))) + Owned(f)
          = Cardinality(Owners(frames)) + Cardinality(Owners(agenda))
    BY <1>3, <1>8, <1>10, OwnersStep
  <2> QED
    BY <1>10, <2>1
<1>14. Len(outs') = 1 + Cardinality(Owners(agenda'))
  <2>1. Cardinality(Owners(agenda')) \in Nat /\ Cardinality(Owners(agenda)) \in Nat
    BY <1>8, <1>12, OwnersFinite DEF AgendaInv
  <2>2. Len(outs') \in Nat /\ Owned(f) \in {0, 1} /\ Len(outs) = 1 + Cardinality(Owners(agenda))
    BY <1>3 DEF Owned, TightOuts, EvalInv
  <2> QED
    BY <1>3, <1>11, <1>13, <2>1, <2>2
<1> QED
  BY <1>1, <1>3, <1>12, <1>14 DEF EvalInv

\* A definition called without
LEMMA StepBindShare ==
  ASSUME EvalInv, BindShare, UNCHANGED parsing PROVE EvalInv'
<1> DEFINE f == agenda[1]
           body == Meaning(f).body
           f1 == Frame("resolve_symbols", f.scope, body)
           s  == Descent(f)
           f2 == Frame("resolve_calls", f.scope, body)
<1>1. /\ At("bind") /\ Meaning(f).type = "internal"
      /\ nodes' = AddChild(nodes, f.node, body)
      /\ Continue(<<f1>> \o s \o <<f2>>) /\ Bound(f)
  BY DEF BindShare, Head1
<1>2. NodesInv(nodes) /\ Linked(nodes) /\ NamesClean(nodes)
  BY ScopeFacts
<1>3. f.node \in DOMAIN nodes /\ f.scope \in DOMAIN scopes
  BY <1>1, BindNode
<1>4. body \in DOMAIN nodes
  BY <1>1, <1>3, Found DEF Meaning
<1> HIDE DEF body
<1>5. NodesStep(nodes, nodes')
  <2>1. AddedChild(nodes, AddChild(nodes, f.node, body), f.node, body)
    BY <1>2, <1>3, <1>4, AddChildKept
  <2>2. AddedChild(nodes, nodes', f.node, body)
    BY <1>1, <2>1
  <2>3. Linked(nodes') /\ NamesClean(nodes') /\ Later(nodes, nodes') /\ Len(nodes') = Len(nodes)
    BY <2>2 DEF AddedChild
  <2>4. DOMAIN nodes' = DOMAIN nodes
    BY <1>2, <2>3 DEF Linked
  <2> QED
    BY <2>3, <2>4 DEF NodesStep, NodesInv
<1>6. /\ agenda # <<>> /\ f.op # "copy"
      /\ f.scope \in DOMAIN scopes' /\ f.scope \in Nat \ {0}
      /\ TightOuts(outs') /\ Len(outs') + Owned(f) = Len(outs) + 0
      /\ DOMAIN boundIn' \subseteq DOMAIN nodes'
      /\ fault' = fault /\ ScopesStep(scopes, scopes', nodes')
  BY <1>1, <1>5, BoundFacts
<1>7. NodesInv(nodes') /\ body \in DOMAIN nodes'
  BY <1>2, <1>4, <1>5, NodesGrow DEF NodesStep
<1>8. NewFrames(s, nodes', scopes', 0)
  BY <1>2, <1>3, <1>5, <1>6, ChildFrames DEF Descent
<1>9. NewFrames(<<f1>>, nodes', scopes', 0) /\ NewFrames(<<f2>>, nodes', scopes', 0)
  <2>1. NewFrames(<<f1>>, nodes', scopes', IF "resolve_symbols" = "returned" THEN 1 ELSE 0)
    BY <1>6, <1>7, CallFrame
  <2>2. NewFrames(<<f2>>, nodes', scopes', IF "resolve_calls" = "returned" THEN 1 ELSE 0)
    BY <1>6, <1>7, CallFrame
  <2> QED
    BY <2>1, <2>2
<1> HIDE DEF f1, f2, s
<1>10. NewFrames(<<f1>> \o s, nodes', scopes', 0 + 0)
  BY <1>8, <1>9, ConcatFrames
<1>11. NewFrames(<<f1>> \o s \o <<f2>>, nodes', scopes', (0 + 0) + 0)
  BY <1>9, <1>10, ConcatFrames
<1>12. NewFrames(<<f1>> \o s \o <<f2>>, nodes', scopes', 0)
  BY <1>11
<1> QED
  BY <1>1, <1>5, <1>6, <1>12, Stepped

\* The call's name marked
LEMMA Marked ==
  ASSUME EvalInv, At("bind"), NEW type \in {"FUNCTION", "UNDEFINED"},
         NEW ms, ms = SetType(nodes, CallSymbol(agenda[1]), type)
  PROVE  /\ NodesStep(nodes, ms) /\ Linked(ms) /\ NamesClean(ms) /\ Later(nodes, ms)
         /\ Len(ms) = Len(nodes) /\ DOMAIN ms = DOMAIN nodes
<1> DEFINE id == CallSymbol(agenda[1])
<1>1. id \in DOMAIN nodes /\ nodes[id].type \in NameTypes
  BY BindNode
<1>2. Linked(nodes) /\ NamesClean(nodes)
  BY ScopeFacts
<1> HIDE DEF id
<1>3. /\ Linked(SetType(nodes, id, type)) /\ NamesClean(SetType(nodes, id, type))
      /\ Later(nodes, SetType(nodes, id, type)) /\ Len(SetType(nodes, id, type)) = Len(nodes)
  BY <1>1, <1>2, SetTypeKept
<1>4. Linked(ms) /\ NamesClean(ms) /\ Later(nodes, ms) /\ Len(ms) = Len(nodes)
  BY <1>3 DEF id
<1>5. DOMAIN ms = DOMAIN nodes
  BY <1>2, <1>4 DEF Linked
<1> QED
  BY <1>4, <1>5 DEF NodesStep, NodesInv

\* What comes after, when only the descent is left to do
LEMMA BoundDescent ==
  ASSUME EvalInv, At("bind"), Bound(agenda[1]), NodesStep(nodes, nodes'),
         Continue(Descent(agenda[1])), UNCHANGED parsing
  PROVE  EvalInv'
<1> DEFINE f == agenda[1]
           s == Descent(f)
<1>1. /\ agenda # <<>> /\ f.op # "copy" /\ f.node \in DOMAIN nodes
      /\ f.scope \in DOMAIN scopes' /\ f.scope \in Nat \ {0}
      /\ TightOuts(outs') /\ Len(outs') + Owned(f) = Len(outs) + 0
      /\ DOMAIN boundIn' \subseteq DOMAIN nodes'
      /\ fault' = fault /\ ScopesStep(scopes, scopes', nodes')
  BY BoundFacts
<1>2. NodesInv(nodes)
  BY ScopeFacts
<1>3. NewFrames(s, nodes', scopes', 0)
  BY <1>1, <1>2, ChildFrames DEF Descent
<1> HIDE DEF s
<1>4. Continue(s)
  BY DEF s
<1> QED
  BY <1>1, <1>3, <1>4, Stepped

\* An extern function
LEMMA StepBindExtern ==
  ASSUME EvalInv, BindExtern, UNCHANGED parsing PROVE EvalInv'
<1> DEFINE f == agenda[1]
           ms == SetType(nodes, CallSymbol(f), "FUNCTION")
           ls == NewNode(ms, "ARGS", NoText)
           new == Len(nodes) + 1
<1>1. /\ At("bind") /\ Continue(Descent(f)) /\ Bound(f)
      /\ \/ nodes' = ms
         \/ nodes' = AddChild(ls, f.node, new)
  BY DEF BindExtern, Head1
<1>2. /\ NodesStep(nodes, ms) /\ Linked(ms) /\ NamesClean(ms) /\ Later(nodes, ms)
      /\ Len(ms) = Len(nodes) /\ DOMAIN ms = DOMAIN nodes
  BY <1>1, Marked
<1> HIDE DEF ms
<1>3. CASE nodes' = ms
  BY <1>1, <1>2, <1>3, BoundDescent
<1>4. CASE nodes' = AddChild(ls, f.node, new)
  <2>1. Linked(nodes) /\ Len(nodes) \in Nat /\ DOMAIN nodes = 1..Len(nodes) /\ f.node \in DOMAIN nodes
    BY <1>1, ScopeFacts, BindNode
  <2>2. "ARGS" \in NodeTypes /\ "ARGS" \notin NameTypes /\ NoText \in Seq(Characters)
    BY DEF NodeTypes, NameTypes, NoText
  <2>3. /\ Linked(ls) /\ NamesClean(ls) /\ Later(ms, ls) /\ Len(ls) = Len(ms) + 1
        /\ ls[Len(ms) + 1] = [type |-> "ARGS", text |-> NoText, childs |-> <<>>]
    BY <1>2, <2>2, NewNodeKept
  <2>4. ls[new].type = "ARGS" /\ Len(ls) = new
    BY <1>2, <2>3
  <2> HIDE DEF ls
  <2>5. DOMAIN ls = 1..new /\ new \in DOMAIN ls /\ f.node \in DOMAIN ls
    <3>1. DOMAIN ls = 1..Len(ls)
      BY <2>3 DEF Linked
    <3> QED
      BY <2>1, <2>4, <3>1
  <2> HIDE DEF new
  <2>6. AddedChild(ls, nodes', f.node, new)
    BY <1>4, <2>3, <2>5, AddChildKept
  <2>7. /\ Linked(nodes') /\ NamesClean(nodes') /\ Later(ls, nodes') /\ Len(nodes') = Len(ls)
        /\ nodes'[new].type = "ARGS"
    BY <2>4, <2>5, <2>6 DEF AddedChild
  <2>8. Later(nodes, ls)
    BY <1>2, <2>1, <2>3, LaterTrans
  <2>9. Later(nodes, nodes')
    BY <2>1, <2>3, <2>7, <2>8, LaterTrans
  <2>10. DOMAIN nodes' = 1..new
    BY <2>4, <2>7 DEF Linked
  <2>11. DOMAIN nodes' \ DOMAIN nodes = {new}
    BY <2>1, <2>10 DEF new
  <2>12. Complete(nodes', new)
    <3>1. Needed(nodes'[new]) = 0
      BY <2>7 DEF Needed
    <3>2. Len(nodes'[new].childs) \in Nat
      BY <2>5, <2>7, <2>10, LinkedFacts
    <3> QED
      BY <3>1, <3>2 DEF Complete
  <2>13. NodesStep(nodes, nodes')
    BY <2>7, <2>9, <2>11, <2>12 DEF NodesStep, NodesInv
  <2> QED
    BY <1>1, <2>13, BoundDescent
<1> QED
  BY <1>1, <1>3, <1>4

\* A name that nothing defines
LEMMA StepBindUndefined ==
  ASSUME EvalInv, BindUndefined, UNCHANGED parsing PROVE EvalInv'
<1>1. /\ At("bind") /\ Continue(Descent(agenda[1])) /\ Bound(agenda[1])
      /\ nodes' = SetType(nodes, CallSymbol(agenda[1]), "UNDEFINED")
  BY DEF BindUndefined, Head1
<1>2. NodesStep(nodes, nodes')
  BY <1>1, Marked
<1> QED
  BY <1>1, <1>2, BoundDescent

\* ast_copy_node of one node
LEMMA StepCopy ==
  ASSUME EvalInv, Copy, UNCHANGED parsing PROVE EvalInv'
<1> DEFINE f == agenda[1]
           c == nodes[f.node].childs
           frames == [k \in DOMAIN c |->
                        [Frame("copy", 0, c[k]) EXCEPT !.arg = Len(nodes) + 1]]
<1>1. /\ agenda # <<>> /\ f.op = "copy" /\ nodes' = CopyNode(nodes, f.node, f.arg)
      /\ Continue(frames) /\ UNCHANGED <<scopes, outs, fault, boundIn>>
  BY DEF Copy, Head1, At, NthChild
<1>2. /\ NodesInv(nodes) /\ Linked(nodes) /\ NamesClean(nodes) /\ Len(nodes) \in Nat
      /\ ScopesInv(scopes, nodes)
  BY ScopeFacts
<1>3. AgendaInv(nodes, scopes, agenda) /\ agenda \in Seq(FrameRecord) /\ f.node \in DOMAIN nodes
  <2>1. AgendaInv(nodes, scopes, agenda) /\ agenda \in Seq(FrameRecord)
    BY DEF EvalInv, AgendaInv
  <2>2. 1 \in DOMAIN agenda
    BY <1>1, <2>1
  <2> QED
    BY <2>1, <2>2 DEF AgendaInv, FrameInv
<1>4. /\ DOMAIN c = 1..Len(c) /\ Len(c) \in Nat /\ \A k \in 1..Len(c) : c[k] \in Nat
  <2>1. /\ DOMAIN c = 1..Len(c) /\ Len(c) \in Nat /\ DOMAIN nodes = 1..Len(nodes)
        /\ \A k \in 1..Len(c) : c[k] \in DOMAIN nodes
    BY <1>2, <1>3, LinkedFacts
  <2> QED
    BY <2>1
<1>5. CopyFrames(nodes, f.node, frames)
  <2> DEFINE g(k) == [Frame("copy", 0, c[k]) EXCEPT !.arg = Len(nodes) + 1]
  <2>1. \A k \in 1..Len(c) : /\ g(k) \in FrameRecord /\ g(k).op = "copy" /\ g(k).scope = 0
                             /\ g(k).node = c[k] /\ g(k).arg = Len(nodes) + 1
    BY <1>2, <1>4 DEF Frame, FrameRecord, FrameOps
  <2>2. frames = [k \in 1..Len(c) |-> g(k)]
    BY <1>4
  <2> HIDE DEF g, frames
  <2>3. /\ frames \in Seq(FrameRecord) /\ Len(frames) = Len(c) /\ DOMAIN frames = 1..Len(c)
        /\ \A k \in 1..Len(c) : frames[k] = g(k)
    BY <1>4, <2>1, <2>2
  <2> QED
    BY <2>1, <2>3 DEF CopyFrames
<1> HIDE DEF frames
<1>6. /\ Linked(nodes') /\ NamesClean(nodes') /\ Later(nodes, nodes')
      /\ AgendaInv(nodes', scopes, frames \o Tail(agenda))
  BY <1>1, <1>2, <1>3, <1>5, CopyStep
<1>7. agenda' = frames \o Tail(agenda) /\ frames \in Seq(FrameRecord)
  BY <1>1, <1>5 DEF Continue, CopyFrames
<1>8. AgendaInv(nodes', scopes', agenda')
  BY <1>1, <1>6, <1>7
<1>9. Cardinality(Owners(frames)) = 0 /\ Owned(f) = 0
  <2>1. \A k \in DOMAIN frames : ~ Owns(frames[k])
    BY <1>5 DEF Owns, CopyFrames
  <2> QED
    BY <1>1, <2>1, NoOwners, NotOwned
<1>10. Cardinality(Owners(frames \o Tail(agenda))) + Owned(f)
         = Cardinality(Owners(frames)) + Cardinality(Owners(agenda))
  BY <1>1, <1>3, <1>7, OwnersStep
<1>11. Len(outs') = 1 + Cardinality(Owners(agenda'))
  <2>1. Cardinality(Owners(agenda')) \in Nat /\ Cardinality(Owners(agenda)) \in Nat
    BY <1>3, <1>8, OwnersFinite DEF AgendaInv
  <2> QED
    BY <1>1, <1>7, <1>9, <1>10, <2>1 DEF EvalInv
<1>12. ScopesInv(scopes', nodes') /\ DOMAIN boundIn' \subseteq DOMAIN nodes'
  <2>1. Len(nodes) <= Len(nodes') /\ Len(nodes') \in Nat /\ DOMAIN nodes = 1..Len(nodes)
        /\ DOMAIN nodes' = 1..Len(nodes')
    BY <1>2, <1>6 DEF Later, Linked
  <2>2. TypedScopes(scopes, Len(nodes'))
    BY <1>2, <2>1, TypedScopesGrow DEF ScopesInv
  <2> QED
    BY <1>1, <1>2, <2>1, <2>2 DEF ScopesInv, EvalInv
<1> QED
  BY <1>1, <1>6, <1>8, <1>11, <1>12 DEF EvalInv, NodesInv

\* The copy takes the place of the arguments
LEMMA StepInstantiate ==
  ASSUME EvalInv, Instantiate, UNCHANGED parsing PROVE EvalInv'
<1> DEFINE f == agenda[1]
           a == NthChild(nodes, f.node, 2)
           n == NthChild(nodes, f.node, 1)
           p == f.arg
           childs == [k \in DOMAIN nodes[p].childs |->
                        IF nodes[nodes[p].childs[k]].type = "ARG_REF_ALL_ARGS" THEN a
                        ELSE nodes[p].childs[k]]
           ms == [nodes EXCEPT ![p] = [nodes[p] EXCEPT !.childs = childs]]
           f1 == Frame("resolve_symbols", f.scope, f.arg)
           f2 == Frame("resolve_calls", f.scope, n)
           f3 == Frame("resolve_calls", f.scope, f.arg)
<1>1. /\ At("instantiate") /\ nodes' = SetNthChild(ms, f.node, 2, f.arg)
      /\ Continue(<<f1, f2, f3>>) /\ UNCHANGED <<scopes, outs, fault, boundIn>>
  <2>1. [nodes EXCEPT ![f.arg].childs =
           [k \in DOMAIN @ |-> IF nodes[@[k]].type = "ARG_REF_ALL_ARGS" THEN a ELSE @[k]]] = ms
    OBVIOUS
  <2> HIDE DEF ms
  <2> QED
    BY <2>1 DEF Instantiate, Head1, Type
<1>2. /\ agenda # <<>> /\ f.op = "instantiate" /\ FrameInv(f, nodes, scopes) /\ f.node \in DOMAIN nodes
  BY <1>1, AtFacts
<1>3. f.scope \in DOMAIN scopes /\ f.scope \in Nat \ {0} /\ Len(nodes[f.node].childs) >= 2
  BY <1>2, ScopeOfFrame DEF FrameInv
<1>4. NodesInv(nodes) /\ Linked(nodes) /\ NamesClean(nodes) /\ ScopesInv(scopes, nodes)
  BY ScopeFacts
<1>5. f.arg \in DOMAIN nodes
  <2>1. AgendaInv(nodes, scopes, agenda) /\ agenda \in Seq(FrameRecord) /\ 1 \in DOMAIN agenda
    BY <1>2 DEF EvalInv, AgendaInv
  <2>2. Quiet(nodes, agenda)
    BY <1>2, <1>4, <2>1, QuietFacts DEF AgendaInv
  <2> QED
    BY <1>2, <2>1, <2>2 DEF Quiet
<1>6. a \in DOMAIN nodes /\ n \in DOMAIN nodes
  <2>1. /\ Len(nodes[f.node].childs) \in Nat
        /\ \A k \in 1..Len(nodes[f.node].childs) : nodes[f.node].childs[k] \in DOMAIN nodes
    BY <1>2, <1>4, LinkedFacts
  <2> QED
    BY <1>3, <2>1 DEF NthChild
<1> HIDE DEF a, n
<1>7. /\ Linked(ms) /\ NamesClean(ms) /\ Later(nodes, ms) /\ Len(ms) = Len(nodes)
      /\ \A id \in DOMAIN nodes : Len(ms[id].childs) = Len(nodes[id].childs)
  <2>1. childs = [k \in DOMAIN nodes[p].childs |-> childs[k]]
    OBVIOUS
  <2>2. \A k \in DOMAIN nodes[p].childs :
          \/ childs[k] = nodes[p].childs[k]
          \/ childs[k] = a /\ nodes[nodes[p].childs[k]].type = "ARG_REF_ALL_ARGS"
    OBVIOUS
  <2> HIDE DEF childs
  <2>3. Filled(nodes, p, a, childs)
    BY <2>1, <2>2 DEF Filled
  <2>4. p \in DOMAIN nodes
    BY <1>5
  <2> HIDE DEF p
  <2>5. FilledNodes(nodes, ms)
    BY <1>4, <1>6, <2>3, <2>4, FilledKept
  <2> HIDE DEF ms
  <2> QED
    BY <2>5 DEF FilledNodes
<1> HIDE DEF ms
<1>8. /\ DOMAIN ms = DOMAIN nodes /\ Len(ms[f.node].childs) >= 2
  BY <1>2, <1>3, <1>4, <1>7 DEF Linked
<1>9. Linked(nodes') /\ NamesClean(nodes') /\ Later(ms, nodes') /\ Len(nodes') = Len(ms)
  <2>1. 2 \in Nat /\ 2 > 1 /\ 2 <= Len(ms[f.node].childs) /\ f.node \in DOMAIN ms /\ f.arg \in DOMAIN ms
    BY <1>2, <1>5, <1>7, <1>8, LinkedFacts
  <2>2. /\ Linked(SetNthChild(ms, f.node, 2, f.arg)) /\ NamesClean(SetNthChild(ms, f.node, 2, f.arg))
        /\ Later(ms, SetNthChild(ms, f.node, 2, f.arg)) /\ Len(SetNthChild(ms, f.node, 2, f.arg)) = Len(ms)
    BY <1>7, <2>1, SetNthChildKept
  <2> QED
    BY <1>1, <2>2
<1>10. NodesStep(nodes, nodes') /\ NodesInv(nodes') /\ DOMAIN nodes' = DOMAIN nodes
  <2>1. Later(nodes, nodes')
    BY <1>4, <1>7, <1>9, LaterTrans
  <2>2. DOMAIN nodes' = DOMAIN nodes
    BY <1>4, <1>7, <1>9 DEF Linked
  <2> QED
    BY <1>9, <2>1, <2>2 DEF NodesStep, NodesInv
<1>11. ScopesStep(scopes, scopes', nodes')
  <2>1. ScopesStep(scopes, scopes, nodes')
    BY <1>4, <1>10, ScopesStepSame
  <2> QED
    BY <1>1, <2>1
<1>12. /\ NewFrames(<<f1>>, nodes', scopes', 0) /\ NewFrames(<<f2>>, nodes', scopes', 0)
       /\ NewFrames(<<f3>>, nodes', scopes', 0)
  <2>0. f.scope \in DOMAIN scopes' /\ f.arg \in DOMAIN nodes' /\ n \in DOMAIN nodes'
    BY <1>1, <1>3, <1>5, <1>6, <1>10
  <2>1. NewFrames(<<f1>>, nodes', scopes', IF "resolve_symbols" = "returned" THEN 1 ELSE 0)
    BY <1>3, <1>10, <2>0, CallFrame
  <2>2. NewFrames(<<f2>>, nodes', scopes', IF "resolve_calls" = "returned" THEN 1 ELSE 0)
    BY <1>3, <1>10, <2>0, CallFrame
  <2>3. NewFrames(<<f3>>, nodes', scopes', IF "resolve_calls" = "returned" THEN 1 ELSE 0)
    BY <1>3, <1>10, <2>0, CallFrame
  <2> QED
    BY <2>1, <2>2, <2>3
<1> HIDE DEF f1, f2, f3
<1>13. NewFrames(<<f1, f2, f3>>, nodes', scopes', (0 + 0) + 0)
  BY <1>12, ThreeFrames
<1>14. Owned(f) = 0
  BY <1>2, NotOwned
<1>15. TightOuts(outs') /\ Len(outs') + Owned(f) = Len(outs) + ((0 + 0) + 0)
  BY <1>1, <1>14, OutsFacts
<1>16. DOMAIN boundIn' \subseteq DOMAIN nodes'
  BY <1>1, <1>10 DEF EvalInv
<1> QED
  BY <1>1, <1>2, <1>10, <1>11, <1>13, <1>15, <1>16, Stepped

\* The process stops
LEMMA Stops ==
  ASSUME EvalInv, NEW why \in Faults, Stop(why), UNCHANGED parsing PROVE EvalInv'
<1>1. /\ fault' \in Faults
      /\ UNCHANGED <<nodes, scopes, agenda, outs, boundIn, parsing>>
  BY DEF Stop
<1> QED
  BY <1>1 DEF EvalInv

\* Every step of resolve_symbols and resolve_calls keeps the invariant
LEMMA StepResolve ==
  ASSUME EvalInv, ResolveStep, UNCHANGED parsing PROVE EvalInv'
<1>1. CASE NoRoomForScope \/ SymbolAssertFails \/ NameAssertFails \/ StaleScope \/ NoRoomForNode
  <2>1. \E why \in Faults : Stop(why)
    BY <1>1 DEF NoRoomForScope, SymbolAssertFails, NameAssertFails, StaleScope, NoRoomForNode, Faults
  <2> QED
    BY <2>1, Stops
<1> QED
  BY <1>1, StepResolveAssignment, StepResolveSymbolsOfCall, StepResolveSymbolsBelow,
     StepResolveCallsBelow, StepCallByName, StepCallByComputedName, StepBindCopy, StepBindShare,
     StepBindExtern, StepBindUndefined, StepCopy, StepInstantiate DEF ResolveStep

-----------------------------------------------------------------------------
(* The steps of do_calls.                                                      *)

\* A call of do_calls, with the place of the node among its siblings
LEMMA EmitFrameFacts ==
  ASSUME NodesInv(nodes), NEW node \in DOMAIN nodes, NEW flags \in SUBSET Flags
  PROVE  /\ EmitFrame(node, flags) \in FrameRecord
         /\ FrameInv(EmitFrame(node, flags), nodes, scopes)
         /\ EmitFrame(node, flags).op = "do_calls"
<1> DEFINE g == EmitFrame(node, flags)
<1>1. node \in Nat
  BY DEF NodesInv, Linked
<1>2. g \in FrameRecord /\ g.op = "do_calls" /\ g.scope = 0 /\ g.node = node
  BY <1>1 DEF EmitFrame, Frame, FrameRecord, FrameOps
<1> HIDE DEF g
<1>3. FrameInv(g, nodes, scopes)
  BY <1>2 DEF FrameInv
<1> QED
  BY <1>2, <1>3 DEF g

\* do_calls of one node next
LEMMA EmitOne ==
  ASSUME NodesInv(nodes), NEW node \in DOMAIN nodes, NEW flags \in SUBSET Flags
  PROVE  NewFrames(<<EmitFrame(node, flags)>>, nodes, scopes, 0)
<1> DEFINE g == EmitFrame(node, flags)
<1>1. g \in FrameRecord /\ FrameInv(g, nodes, scopes) /\ g.op = "do_calls"
  BY EmitFrameFacts
<1> HIDE DEF g
<1>2. NewFrames(<<g>>, nodes, scopes, Owned(g)) /\ Owned(g) = 0
  BY <1>1, OneFrame, NotOwned
<1> QED
  BY <1>2 DEF g

\* do_calls of the children of a PROGRAM or ARGS
LEMMA StepEmitChilds ==
  ASSUME EvalInv, EmitChilds, UNCHANGED parsing PROVE EvalInv'
<1> DEFINE f == agenda[1]
           n == Len(nodes[f.node].childs)
           PlaceOf(k) == (IF k = 1 THEN {"FIRST_CHILD"} ELSE {})
                         \union (IF k = n THEN {"LAST_CHILD"} ELSE {})
           s == [k \in 1..n |-> EmitFrame(NthChild(nodes, f.node, k), PlaceOf(k))]
<1>1. /\ At("do_calls") /\ Continue(s)
      /\ UNCHANGED <<nodes, scopes, outs, fault, boundIn>>
  BY DEF EmitChilds, Head1, NumChild
<1>2. agenda # <<>> /\ f.op = "do_calls" /\ f.node \in DOMAIN nodes
  BY <1>1, AtFacts
<1>3. NodesInv(nodes) /\ Linked(nodes)
  BY ScopeFacts
<1>4. n \in Nat /\ \A k \in 1..n : nodes[f.node].childs[k] \in DOMAIN nodes
  BY <1>2, <1>3, LinkedFacts
<1>5. \A k \in 1..n : PlaceOf(k) \in SUBSET Flags
  BY DEF Flags
<1>6. s = [k \in 1..n |-> s[k]] /\ \A k \in 1..n : s[k] = EmitFrame(nodes[f.node].childs[k], PlaceOf(k))
  BY DEF NthChild
<1> HIDE DEF s, PlaceOf, n
<1>7. ASSUME NEW k \in 1..n
      PROVE  /\ s[k] \in FrameRecord /\ FrameInv(s[k], nodes, scopes)
             /\ s[k].op \in {"resolve_symbols", "resolve_calls", "do_calls"}
  <2>1. nodes[f.node].childs[k] \in DOMAIN nodes /\ PlaceOf(k) \in SUBSET Flags
        /\ s[k] = EmitFrame(nodes[f.node].childs[k], PlaceOf(k))
    BY <1>4, <1>5, <1>6
  <2> QED
    BY <1>3, <2>1, EmitFrameFacts
<1>8. NewFrames(s, nodes, scopes, 0)
  BY <1>4, <1>6, <1>7, ManyFrames
<1> QED
  BY <1>1, <1>2, <1>8, SteppedSilent

\* do_calls of what writes nothing
LEMMA StepEmitNothing ==
  ASSUME EvalInv, EmitNothing, UNCHANGED parsing PROVE EvalInv'
<1>1. /\ At("do_calls") /\ Continue(<<>>)
      /\ UNCHANGED <<nodes, scopes, outs, fault, boundIn>>
  BY DEF EmitNothing
<1>2. agenda # <<>> /\ agenda[1].op = "do_calls"
  BY <1>1, AtFacts
<1>3. NewFrames(<<>>, nodes, scopes, 0)
  BY NoFrames
<1> QED
  BY <1>1, <1>2, <1>3, SteppedSilent

\* do_calls of a call of a definition
LEMMA StepEmitCall ==
  ASSUME EvalInv, EmitCall, UNCHANGED parsing PROVE EvalInv'
<1> DEFINE f == agenda[1]
           s == <<EmitFrame(NthChild(nodes, f.node, 2), f.flags)>>
<1>1. /\ At("do_calls") /\ HasArgs(f) /\ Continue(s)
      /\ UNCHANGED <<nodes, scopes, outs, fault, boundIn>>
  BY DEF EmitCall, AtEmitCall, Head1
<1>2. agenda # <<>> /\ f.op = "do_calls" /\ f.node \in DOMAIN nodes /\ f \in FrameRecord
  BY <1>1, AtFacts
<1>3. NodesInv(nodes) /\ f.flags \in SUBSET Flags
  BY <1>2, ScopeFacts DEF FrameRecord
<1>4. NthChild(nodes, f.node, 2) \in DOMAIN nodes
  BY <1>1, <1>2, <1>3, ArgsFacts
<1>5. NewFrames(s, nodes, scopes, 0)
  BY <1>3, <1>4, EmitOne
<1> HIDE DEF s
<1> QED
  BY <1>1, <1>2, <1>5, SteppedSilent

\* A step of do_calls that writes to the buffer it has
LEMMA SteppedText ==
  ASSUME EvalInv, agenda # <<>>, agenda[1].op \notin {"copy", "bind", "invoke", "returned"},
         NEW frames, NewFrames(frames, nodes, scopes, 0), Continue(frames),
         TightOuts(outs'), Len(outs') = Len(outs),
         UNCHANGED <<nodes, scopes, boundIn, parsing, fault>>
  PROVE  EvalInv'
<1>1. Len(outs') + Owned(agenda[1]) = Len(outs) + 0 /\ agenda[1].op # "copy"
  BY OutsFacts, NotOwned
<1> QED
  BY <1>1, SteppedHere

\* do_calls of a text
LEMMA StepEmitText ==
  ASSUME EvalInv, EmitText, UNCHANGED parsing PROVE EvalInv'
<1> DEFINE f == agenda[1]
           text == nodes[f.node].text
<1>1. /\ At("do_calls") /\ Continue(<<>>) /\ outs' = PutReducedText(outs, text, f.flags)
      /\ UNCHANGED <<nodes, scopes, fault, boundIn>>
  BY DEF EmitText, Head1
<1>2. agenda # <<>> /\ f.op = "do_calls" /\ f.node \in DOMAIN nodes
  BY <1>1, AtFacts
<1>3. text \in Seq(Characters)
  BY <1>2, ScopeFacts, LinkedFacts
<1> HIDE DEF text
<1>4. TightOuts(outs) /\ Len(outs) >= 1
  BY OutsFacts
<1>5. TightOuts(outs') /\ Len(outs') = Len(outs)
  <2>1. /\ TightOuts(PutReducedText(outs, text, f.flags))
        /\ Len(PutReducedText(outs, text, f.flags)) = Len(outs)
    BY <1>3, <1>4, TightReduced
  <2> QED
    BY <1>1, <2>1
<1>6. NewFrames(<<>>, nodes, scopes, 0)
  BY NoFrames
<1> QED
  BY <1>1, <1>2, <1>5, <1>6, SteppedText

\* Text that is put as it is
LEMMA PutTextFacts ==
  ASSUME EvalInv, NEW text \in Seq(Characters), Tight(text), PutText(text)
  PROVE  TightOuts(outs') /\ Len(outs') = Len(outs)
<1> DEFINE n == Len(outs)
           t == outs[n] \o text
<1>1. TightOuts(outs) /\ n >= 1 /\ n \in Nat /\ outs \in Seq(Seq(Characters))
  BY OutsFacts
<1>2. outs[n] \in Seq(Characters) /\ Tight(outs[n])
  BY <1>1 DEF TightOuts
<1>3. t \in Seq(Characters) /\ Tight(t)
  BY <1>2, TightConcat
<1>4. outs' = [outs EXCEPT ![n] = t]
  BY DEF PutText
<1> HIDE DEF t
<1>5. TightOuts([outs EXCEPT ![n] = t]) /\ Len([outs EXCEPT ![n] = t]) = n
  BY <1>1, <1>3, TightPut
<1> QED
  BY <1>4, <1>5

\* A mark before a name
LEMMA UnblankOpen ==
  ASSUME NEW name \in Seq(Characters), Unblank(name), NEW c \in Characters, c \notin Blanks
  PROVE  <<c>> \o name \in Seq(Characters) /\ Unblank(<<c>> \o name) /\ Len(<<c>> \o name) >= 1
<1> DEFINE b == <<c>>
           s == b \o name
<1>1. b \in Seq(Characters) /\ Len(b) = 1 /\ b[1] = c
  OBVIOUS
<1>2. Len(name) \in Nat /\ DOMAIN name = 1..Len(name)
  OBVIOUS
<1> HIDE DEF b
<1>3. /\ s \in Seq(Characters) /\ Len(s) = 1 + Len(name)
      /\ \A i \in 1..(1 + Len(name)) : s[i] = IF i <= 1 THEN b[i] ELSE name[i - 1]
  <2>1. /\ s \in Seq(Characters) /\ Len(s) = Len(b) + Len(name)
        /\ \A i \in 1..(Len(b) + Len(name)) : s[i] = IF i <= Len(b) THEN b[i] ELSE name[i - Len(b)]
    BY <1>1, ConcatProperties
  <2> QED
    BY <1>1, <2>1
<1> HIDE DEF s
<1>4. DOMAIN s = 1..(1 + Len(name))
  BY <1>3
<1>5. ASSUME NEW i \in DOMAIN s PROVE s[i] \notin Blanks
  <2>1. CASE i <= 1
    <3>1. i = 1
      BY <1>2, <1>4, <2>1
    <3> QED
      BY <1>1, <1>3, <1>4, <3>1
  <2>2. CASE ~ (i <= 1)
    <3>1. i - 1 \in DOMAIN name
      BY <1>2, <1>4, <2>2
    <3>2. name[i - 1] \notin Blanks
      BY <3>1 DEF Unblank, Blank
    <3> QED
      BY <1>3, <1>4, <2>2, <3>2
  <2> QED
    BY <2>1, <2>2
<1>6. Unblank(s)
  BY <1>5 DEF Unblank, Blank
<1>7. Len(s) >= 1
  BY <1>2, <1>3
<1> QED
  BY <1>3, <1>6, <1>7 DEF s, b

\* A text without blanks is tight, and with any one character after it still
LEMMA UnblankTight ==
  ASSUME NEW s \in Seq(Characters), Unblank(s), Len(s) >= 1, NEW c \in Characters
  PROVE  Tight(s) /\ s \o <<>> = s /\ s \o <<c>> \in Seq(Characters) /\ Tight(s \o <<c>>)
<1>1. Len(s) \in Nat /\ DOMAIN s = 1..Len(s)
  OBVIOUS
<1>2. Tight(s)
  BY DEF Tight, Unblank, Blank
<1>3. s \o <<>> = s
  OBVIOUS
<1> DEFINE u == s \o <<c>>
<1>4. u = Append(s, c)
  OBVIOUS
<1> HIDE DEF u
<1>5. /\ u \in Seq(Characters) /\ Len(u) = Len(s) + 1
      /\ \A i \in 1..Len(s) : u[i] = s[i]
  BY <1>4, AppendProperties
<1>6. DOMAIN u = 1..(Len(s) + 1)
  BY <1>5
<1>7. ASSUME NEW i \in DOMAIN u, Blank(u[i]) PROVE i > 1 /\ ~ Blank(u[i - 1])
  <2>1. i \notin 1..Len(s)
    BY <1>1, <1>5, <1>7 DEF Blank, Unblank
  <2>2. i = Len(s) + 1 /\ i - 1 \in 1..Len(s) /\ i > 1
    BY <1>1, <1>6, <2>1
  <2>3. u[i - 1] = s[i - 1] /\ s[i - 1] \notin Blanks
    BY <1>1, <1>5, <2>2 DEF Unblank, Blank
  <2> QED
    BY <2>2, <2>3 DEF Blank
<1>8. Tight(u)
  BY <1>7 DEF Tight
<1> QED
  BY <1>2, <1>3, <1>5, <1>8 DEF u

\* do_calls of an undefined call: its start
LEMMA StepEmitUndefined ==
  ASSUME EvalInv, EmitUndefined, UNCHANGED parsing PROVE EvalInv'
<1> DEFINE f == agenda[1]
           id == CallSymbol(f)
           name == nodes[id].text
           tail == IF HasArgs(f) THEN <<" ">> ELSE <<>>
           a == NthChild(nodes, f.node, 2)
           args == IF HasArgs(f) THEN nodes[a].childs ELSE <<>>
           s == [k \in DOMAIN args |-> EmitFrame(args[k], f.flags)]
           f2 == Frame("close", 0, f.node)
<1>1. /\ At("do_calls") /\ Type(f.node) = "CALL" /\ Type(id) = "UNDEFINED"
      /\ PutText(<<"[">> \o name \o tail) /\ Continue(s \o <<f2>>)
      /\ UNCHANGED <<nodes, scopes, fault, boundIn>>
  BY DEF EmitUndefined, AtEmitCall, Head1
<1>2. agenda # <<>> /\ f.op = "do_calls" /\ f.node \in DOMAIN nodes /\ f \in FrameRecord
  BY <1>1, AtFacts
<1>3. NodesInv(nodes) /\ Linked(nodes) /\ NamesClean(nodes) /\ f.flags \in SUBSET Flags
  BY <1>2, ScopeFacts DEF FrameRecord
<1>4. id \in DOMAIN nodes
  BY <1>1, <1>2, NameFacts
<1>5. name \in Seq(Characters) /\ Unblank(name)
  BY <1>1, <1>3, <1>4, LinkedFacts DEF NamesClean, NameTypes, Type
<1>6. TightOuts(outs') /\ Len(outs') = Len(outs)
  <2> HIDE DEF name
  <2>1. "[" \in Characters /\ " " \in Characters /\ "[" \notin Blanks
    BY CharactersAssumption DEF Blanks
  <2> DEFINE s1 == <<"[">> \o name
  <2>2. s1 \in Seq(Characters) /\ Unblank(s1) /\ Len(s1) >= 1
    BY <1>5, <2>1, UnblankOpen
  <2>3. PutText(s1 \o tail)
    BY <1>1
  <2> HIDE DEF s1
  <2>4. Tight(s1) /\ s1 \o <<>> = s1 /\ s1 \o <<" ">> \in Seq(Characters) /\ Tight(s1 \o <<" ">>)
    BY <2>1, <2>2, UnblankTight
  <2>5. s1 \o tail \in Seq(Characters) /\ Tight(s1 \o tail)
    BY <2>2, <2>4
  <2> DEFINE text == s1 \o tail
  <2>6. text \in Seq(Characters) /\ Tight(text) /\ PutText(text)
    BY <2>3, <2>5
  <2> HIDE DEF text
  <2> QED
    BY <2>6, PutTextFacts
<1>7. args \in Seq(Nat) /\ \A k \in DOMAIN args : args[k] \in DOMAIN nodes
  <2>1. CASE HasArgs(f)
    <3>1. a \in DOMAIN nodes
      BY <1>2, <1>3, <2>1, ArgsFacts
    <3> HIDE DEF a
    <3>2. /\ nodes[a].childs \in Seq(Nat) /\ DOMAIN nodes[a].childs = 1..Len(nodes[a].childs)
          /\ \A k \in 1..Len(nodes[a].childs) : nodes[a].childs[k] \in DOMAIN nodes
      BY <1>3, <3>1, LinkedFacts
    <3> QED
      BY <2>1, <3>2
  <2>2. CASE ~ HasArgs(f)
    BY <2>2
  <2> QED
    BY <2>1, <2>2
<1> HIDE DEF args
<1>8. DOMAIN args = 1..Len(args) /\ Len(args) \in Nat
  BY <1>7
<1>9. s = [k \in 1..Len(args) |-> s[k]] /\ \A k \in 1..Len(args) : s[k] = EmitFrame(args[k], f.flags)
  BY <1>8
<1> HIDE DEF s
<1>10. ASSUME NEW k \in 1..Len(args)
       PROVE  /\ s[k] \in FrameRecord /\ FrameInv(s[k], nodes, scopes)
              /\ s[k].op \in {"resolve_symbols", "resolve_calls", "do_calls"}
  <2>1. args[k] \in DOMAIN nodes /\ s[k] = EmitFrame(args[k], f.flags)
    BY <1>7, <1>8, <1>9
  <2> QED
    BY <1>3, <2>1, EmitFrameFacts
<1>11. NewFrames(s, nodes, scopes, 0)
  BY <1>8, <1>9, <1>10, ManyFrames
<1>12. NewFrames(<<f2>>, nodes, scopes, 0)
  <2>1. NewFrames(<<f2>>, nodes, scopes, IF "close" = "returned" THEN 1 ELSE 0)
    BY <1>2, <1>3, CallFrame
  <2> QED
    BY <2>1
<1> HIDE DEF f2
<1>13. NewFrames(s \o <<f2>>, nodes, scopes, 0 + 0)
  BY <1>11, <1>12, ConcatFrames
<1>14. NewFrames(s \o <<f2>>, nodes, scopes, 0)
  BY <1>13
<1> QED
  BY <1>1, <1>2, <1>6, <1>14, SteppedText

\* Its end
LEMMA StepCloseUndefined ==
  ASSUME EvalInv, CloseUndefined, UNCHANGED parsing PROVE EvalInv'
<1> DEFINE text == <<"]">>
<1>1. /\ At("close") /\ Continue(<<>>) /\ PutText(text)
      /\ UNCHANGED <<nodes, scopes, fault, boundIn>>
  BY DEF CloseUndefined
<1>2. agenda # <<>> /\ agenda[1].op = "close"
  BY <1>1, AtFacts
<1>3. text \in Seq(Characters) /\ Tight(text)
  <2>1. "]" \in Characters /\ "]" \notin Blanks
    BY CharactersAssumption DEF Blanks
  <2>2. text \in Seq(Characters) /\ DOMAIN text = {1} /\ text[1] = "]"
    BY <2>1
  <2> HIDE DEF text
  <2> QED
    BY <2>1, <2>2 DEF Tight, Blank
<1> HIDE DEF text
<1>4. TightOuts(outs') /\ Len(outs') = Len(outs)
  BY <1>1, <1>3, PutTextFacts
<1>5. NewFrames(<<>>, nodes, scopes, 0)
  BY NoFrames
<1> QED
  BY <1>1, <1>2, <1>4, <1>5, SteppedText

\* do_calls of the arguments of an extern function
LEMMA StepEmitArguments ==
  ASSUME EvalInv, EmitArguments, UNCHANGED parsing PROVE EvalInv'
<1> DEFINE f == agenda[1]
           f1 == EmitFrame(NthChild(nodes, f.node, 2), f.flags)
           f2 == [f EXCEPT !.op = "invoke"]
<1>1. /\ At("do_calls") /\ HasArgs(f) /\ Continue(<<f1, f2>>) /\ outs' = Append(outs, <<>>)
      /\ UNCHANGED <<nodes, scopes, fault, boundIn>>
  BY DEF EmitArguments, AtEmitCall, Head1
<1>2. /\ agenda # <<>> /\ f.op = "do_calls" /\ f.op # "copy" /\ f.node \in DOMAIN nodes /\ f \in FrameRecord
      /\ FrameInv(f, nodes, scopes)
  BY <1>1, AtFacts
<1>3. NodesInv(nodes) /\ f.flags \in SUBSET Flags
  BY <1>2, ScopeFacts DEF FrameRecord
<1>4. NthChild(nodes, f.node, 2) \in DOMAIN nodes
  BY <1>1, <1>2, <1>3, ArgsFacts
<1>5. NewFrames(<<f1>>, nodes, scopes, 0)
  BY <1>3, <1>4, EmitOne
<1>6. f2 \in FrameRecord /\ f2.op = "invoke" /\ f2.node = f.node /\ f2.scope = f.scope
  BY <1>2 DEF FrameRecord, FrameOps
<1> HIDE DEF f1, f2
<1>7. NewFrames(<<f2>>, nodes, scopes, 1)
  <2>1. FrameInv(f2, nodes, scopes) /\ f2.op \notin {"copy", "instantiate"} /\ Owned(f2) = 1
    BY <1>2, <1>6 DEF FrameInv, Owned, Owns
  <2>2. NewFrames(<<f2>>, nodes, scopes, Owned(f2))
    BY <1>6, <2>1, OneFrame
  <2> QED
    BY <2>1, <2>2
<1>8. NewFrames(<<f1, f2>>, nodes, scopes, 0 + 1)
  BY <1>5, <1>7, TwoFrames
<1>9. TightOuts(outs') /\ Len(outs') = Len(outs) + 1 /\ Len(outs) \in Nat
  BY <1>1, OutsFacts, TightPush
<1>10. Len(outs') + Owned(f) = Len(outs) + (0 + 1)
  BY <1>2, <1>9, NotOwned
<1> QED
  BY <1>1, <1>2, <1>8, <1>9, <1>10, SteppedHere

\* The buffer a frame waited for
LEMMA OwnedFacts ==
  ASSUME EvalInv, NEW op \in {"invoke", "returned"}, At(op)
  PROVE  /\ agenda # <<>> /\ agenda[1].op # "copy" /\ Owned(agenda[1]) = 1
         /\ agenda[1].node \in DOMAIN nodes
         /\ TightOuts(Front(outs)) /\ Len(Front(outs)) = Len(outs) - 1 /\ Len(Front(outs)) >= 1
         /\ Last(outs) \in Seq(Characters) /\ Len(outs) \in Nat
<1>1. agenda # <<>> /\ agenda[1].op = op /\ agenda[1].node \in DOMAIN nodes
  BY AtFacts
<1>2. Owns(agenda[1]) /\ Owned(agenda[1]) = 1
  BY <1>1 DEF Owns, Owned
<1>3. TightOuts(outs) /\ Len(outs) >= 2 /\ Len(outs) \in Nat
  BY <1>1, <1>2, OutsFacts
<1>4. TightOuts(Front(outs)) /\ Len(Front(outs)) = Len(outs) - 1 /\ Last(outs) \in Seq(Characters)
  <2>1. Len(outs) >= 1
    BY <1>3
  <2> QED
    BY <1>3, <2>1, TightPop
<1> QED
  BY <1>1, <1>2, <1>3, <1>4

\* A function that returns nothing
LEMMA StepInvokeComment ==
  ASSUME EvalInv, InvokeComment, UNCHANGED parsing PROVE EvalInv'
<1>1. /\ At("invoke") /\ Continue(<<>>) /\ outs' = Front(outs)
      /\ UNCHANGED <<nodes, scopes, fault, boundIn>>
  BY DEF InvokeComment, AtInvoke
<1>2. /\ agenda # <<>> /\ agenda[1].op # "copy" /\ Owned(agenda[1]) = 1
      /\ TightOuts(Front(outs)) /\ Len(Front(outs)) = Len(outs) - 1 /\ Len(outs) \in Nat
  BY <1>1, OwnedFacts
<1>3. TightOuts(outs') /\ Len(outs') + Owned(agenda[1]) = Len(outs) + 0
  BY <1>1, <1>2
<1>4. NewFrames(<<>>, nodes, scopes, 0)
  BY NoFrames
<1> QED
  BY <1>1, <1>2, <1>3, <1>4, SteppedHere

\* The text of a buffer that is done goes to the one before it
LEMMA StepReturned ==
  ASSUME EvalInv, NEW op \in {"invoke", "returned"}, At(op), Continue(<<>>),
         outs' = PutReducedText(Front(outs), Last(outs), Flags),
         UNCHANGED <<nodes, scopes, fault, boundIn, parsing>>
  PROVE  EvalInv'
<1>1. /\ agenda # <<>> /\ agenda[1].op # "copy" /\ Owned(agenda[1]) = 1
      /\ TightOuts(Front(outs)) /\ Len(Front(outs)) = Len(outs) - 1 /\ Len(Front(outs)) >= 1
      /\ Last(outs) \in Seq(Characters) /\ Len(outs) \in Nat
  BY OwnedFacts
<1> DEFINE fs == Front(outs)
           t  == Last(outs)
<1>2. TightOuts(fs) /\ Len(fs) >= 1 /\ t \in Seq(Characters) /\ Len(fs) = Len(outs) - 1
      /\ outs' = PutReducedText(fs, t, Flags)
  BY <1>1
<1> HIDE DEF fs, t
<1>3. TightOuts(PutReducedText(fs, t, Flags)) /\ Len(PutReducedText(fs, t, Flags)) = Len(fs)
  BY <1>2, TightReduced
<1>4. TightOuts(outs') /\ Len(outs') + Owned(agenda[1]) = Len(outs) + 0
  BY <1>1, <1>2, <1>3
<1>5. NewFrames(<<>>, nodes, scopes, 0)
  BY NoFrames
<1> QED
  BY <1>1, <1>4, <1>5, SteppedHere

\* The first scope made for a node
LEMMA RunScopeFacts ==
  ASSUME EvalInv, NEW f, RunScope(f) # 0
  PROVE  RunScope(f) \in DOMAIN scopes /\ RunScope(f) \in Nat \ {0}
<1> DEFINE T == ScopesOf(f.node)
<1>1. T \subseteq DOMAIN scopes /\ DOMAIN scopes \in SUBSET (Nat \ {0})
  BY ScopeFacts DEF ScopesOf
<1>2. T # {} /\ RunScope(f) = Min(T)
  BY DEF RunScope, FindScopeByNode
<1> HIDE DEF T
<1>3. Min(T) \in T
  <2>1. T \in SUBSET Nat
    BY <1>1
  <2> QED
    BY <1>2, <2>1, MinFacts
<1> QED
  BY <1>1, <1>2, <1>3

\* eval_node
LEMMA EvalNodeFrames ==
  ASSUME NEW ns, NodesInv(ns), NEW ss, NEW scope \in DOMAIN ss, scope \in Nat \ {0},
         NEW node \in DOMAIN ns
  PROVE  NewFrames(EvalNode(scope, node), ns, ss, 0)
<1> DEFINE f1 == Frame("resolve_symbols", scope, node)
           f2 == Frame("resolve_calls", scope, node)
           f3 == Frame("do_calls", 0, node)
<1>1. NewFrames(<<f1>>, ns, ss, IF "resolve_symbols" = "returned" THEN 1 ELSE 0)
  BY CallFrame
<1>2. NewFrames(<<f2>>, ns, ss, IF "resolve_calls" = "returned" THEN 1 ELSE 0)
  BY CallFrame
<1>3. NewFrames(<<f3>>, ns, ss, IF "do_calls" = "returned" THEN 1 ELSE 0)
  BY CallFrame
<1>4. EvalNode(scope, node) = <<f1, f2, f3>>
  BY DEF EvalNode
<1> HIDE DEF f1, f2, f3
<1>5. NewFrames(<<f1>>, ns, ss, 0) /\ NewFrames(<<f2>>, ns, ss, 0) /\ NewFrames(<<f3>>, ns, ss, 0)
  BY <1>1, <1>2, <1>3
<1>6. NewFrames(<<f1, f2, f3>>, ns, ss, (0 + 0) + 0)
  BY <1>5, ThreeFrames
<1> QED
  BY <1>4, <1>6

\* A function that evaluates a name
LEMMA StepInvokeEvalSymbol ==
  ASSUME EvalInv, InvokeEvalSymbol, UNCHANGED parsing PROVE EvalInv'
<1> DEFINE f == agenda[1]
           r == RunScope(f)
           body == Evaluated(f).body
           s == EvalNode(r, body)
           f2 == Frame("returned", 0, f.node)
<1>1. /\ At("invoke") /\ r # 0 /\ Evaluated(f).type = "internal"
      /\ Continue(s \o <<f2>>) /\ outs' = Append(Front(outs), <<>>)
      /\ UNCHANGED <<nodes, scopes, fault, boundIn>>
  BY DEF InvokeEvalSymbol, AtInvoke, Head1
<1>2. /\ agenda # <<>> /\ f.op # "copy" /\ Owned(f) = 1 /\ f.node \in DOMAIN nodes
      /\ TightOuts(Front(outs)) /\ Len(Front(outs)) = Len(outs) - 1 /\ Len(outs) \in Nat
  BY <1>1, OwnedFacts
<1>3. r \in DOMAIN scopes /\ r \in Nat \ {0}
  BY <1>1, RunScopeFacts
<1>4. body \in DOMAIN nodes
  BY <1>1, <1>3, Found DEF Evaluated
<1> HIDE DEF body, r
<1>5. NodesInv(nodes)
  BY ScopeFacts
<1>6. NewFrames(s, nodes, scopes, 0)
  BY <1>3, <1>4, <1>5, EvalNodeFrames
<1>7. NewFrames(<<f2>>, nodes, scopes, 1)
  <2>1. NewFrames(<<f2>>, nodes, scopes, IF "returned" = "returned" THEN 1 ELSE 0)
    BY <1>2, <1>5, CallFrame
  <2> QED
    BY <2>1
<1> HIDE DEF s, f2
<1>8. NewFrames(s \o <<f2>>, nodes, scopes, 0 + 1)
  BY <1>6, <1>7, ConcatFrames
<1> DEFINE fs == Front(outs)
<1>9. TightOuts(fs) /\ Len(fs) = Len(outs) - 1 /\ outs' = Append(fs, <<>>)
  BY <1>1, <1>2
<1> HIDE DEF fs
<1>10. TightOuts(outs') /\ Len(outs') + Owned(f) = Len(outs) + (0 + 1)
  BY <1>2, <1>9, TightPush
<1> QED
  BY <1>1, <1>2, <1>8, <1>10, SteppedHere

\* Every step of do_calls keeps the invariant
LEMMA StepEmit ==
  ASSUME EvalInv, EmitStep, UNCHANGED parsing PROVE EvalInv'
<1>1. CASE BadFunction \/ BadSymbol
  <2>1. \E why \in Faults : Stop(why)
    BY <1>1 DEF BadFunction, BadSymbol, Faults
  <2> QED
    BY <2>1, Stops
<1>2. CASE InvokeReturnArg
  BY <1>2, StepReturned DEF InvokeReturnArg, AtInvoke
<1>3. CASE PutReturned
  BY <1>3, StepReturned DEF PutReturned
<1> QED
  BY <1>1, <1>2, <1>3, StepEmitChilds, StepEmitText, StepEmitNothing, StepEmitUndefined,
     StepCloseUndefined, StepEmitCall, StepEmitArguments, StepInvokeComment, StepInvokeEvalSymbol
     DEF EmitStep

-----------------------------------------------------------------------------
(* The compiler.                                                               *)

\* While the program is read, nothing is there to evaluate
ParseInv ==
  /\ ParserInv /\ NamesClean(nodes)
  /\ stack # <<>> => 1 \in DOMAIN nodes
  /\ parsing # "running" => 1 \in DOMAIN nodes
  /\ scopes = <<>> /\ agenda = <<>> /\ outs = <<>> /\ boundIn = <<>> /\ fault = "none"

(* The inductive invariant of the compiler.                                    *)
IInv == ParseInv \/ EvalInv

\* The invariant holds before the first token
LEMMA InitParse ==
  ASSUME Init PROVE ParseInv
<1>1. program \in Seq(Characters) /\ ParserInit(program)
  BY CompilerAssumption DEF Init
<1>2. ParserInv
  BY <1>1, ParserInitInv
<1>3. nodes = <<>> /\ stack = <<>> /\ parsing = "running"
  BY <1>1 DEF ParserInit
<1>4. NamesClean(nodes)
  BY <1>3 DEF NamesClean
<1> QED
  BY <1>2, <1>3, <1>4 DEF Init, ParseInv

\* The parser runs before the evaluation only
LEMMA ParsingRuns ==
  ASSUME ParseStep PROVE parsing = "running"
BY DEF ParseStep, ReadToken, Shift, Accept, SyntaxError, HasToken, NeedsToken, Reduce,
       ReduceEmptyProgram, ReduceAppendChild, ReduceFirstArg, ReduceArgsChild, ReduceName,
       ReduceComputedName, ReduceAssignment, ReduceCallWithArgs, ReduceCall

\* A step of the parser keeps the invariant
LEMMA ParseKept ==
  ASSUME IInv, Parse PROVE IInv'
<1>1. ParseStep /\ UNCHANGED <<scopes, agenda, outs, fault, boundIn>>
  BY DEF Parse, evalVars
<1>2. parsing = "running"
  BY <1>1, ParsingRuns
<1>3. ParseInv
  BY <1>2 DEF IInv, EvalInv
<1>4. ParserInv'
  BY <1>1, <1>3, ParseStepInv DEF ParseInv
<1>5. NamesClean(nodes') /\ 1 \in DOMAIN nodes'
  BY <1>1, <1>3, ParseNames DEF ParseInv
<1> QED
  BY <1>1, <1>3, <1>4, <1>5 DEF ParseInv, IInv

\* The parser leaves a tree whose nodes have the children the evaluator reads
LEMMA ParsedNodes ==
  ASSUME ParseInv
  PROVE  NodesInv(nodes) /\ \A id \in DOMAIN nodes : Complete(nodes, id)
<1>1. Tree(nodes) /\ NamesClean(nodes)
  BY DEF ParseInv, ParserInv
<1>2. Linked(nodes)
  BY <1>1 DEF Tree, Linked
<1>3. ASSUME NEW id \in DOMAIN nodes
      PROVE  Complete(nodes, id)
  <2>1. Shape(nodes, id) /\ Len(nodes[id].childs) \in Nat
    BY <1>1, <1>2, LinkedFacts DEF Tree
  <2> QED
    BY <2>1 DEF Shape, Needed, Complete
<1> QED
  BY <1>1, <1>2, <1>3 DEF NodesInv

\* The base scope
LEMMA BaseScope ==
  ASSUME NEW lib \in Seq(ExternEntry), NEW n \in Nat \ {0}
  PROVE  ScopesInv(<<[NewScope(1, 0) EXCEPT !.namespace = lib]>>, nodes)
           \/ Len(nodes) # n
<1> SUFFICES ASSUME Len(nodes) = n
             PROVE  ScopesInv(<<[NewScope(1, 0) EXCEPT !.namespace = lib]>>, nodes)
  OBVIOUS
<1> DEFINE base == [father |-> 0, node |-> 1, childs |-> <<>>, namespace |-> lib]
           ss == <<base>>
<1>1. [NewScope(1, 0) EXCEPT !.namespace = lib] = base
  BY DEF NewScope
<1>2. ASSUME NEW i \in DOMAIN lib
      PROVE  lib[i] \in EntryType /\ lib[i].type # "internal" /\ lib[i].body = 0
  <2>1. lib[i] \in ExternEntry
    OBVIOUS
  <2>2. \A e \in ExternEntry : e \in EntryType /\ e.type # "internal" /\ e.body = 0
    BY DEF ExternEntry, EntryType, ExternKinds
  <2> QED
    BY <2>1, <2>2
<1>3. lib \in Seq(EntryType)
  <2>1. Len(lib) \in Nat /\ lib = [i \in 1..Len(lib) |-> lib[i]]
    OBVIOUS
  <2> QED
    BY <1>2, <2>1
<1>4. base \in ScopeRecord
  BY <1>3 DEF ScopeRecord
<1>5. base.father = 0 /\ base.node = 1 /\ base.childs = <<>> /\ base.namespace = lib
  OBVIOUS
<1> HIDE DEF base
<1>6. ss \in Seq(ScopeRecord) /\ ss # <<>> /\ DOMAIN ss = {1} /\ ss[1] = base
  BY <1>4
<1> HIDE DEF ss
<1>7. TypedScopes(ss, n)
  BY <1>2, <1>5, <1>6 DEF TypedScopes
<1>8. Cardinality({k \in DOMAIN ss[1].childs : ss[1].childs[k] = 1}) = 0
  <2>1. {k \in DOMAIN ss[1].childs : ss[1].childs[k] = 1} = {}
    BY <1>5, <1>6
  <2> QED
    BY <2>1, FS_EmptySet
<1>9. TreeOf(ss)
  BY <1>5, <1>6, <1>8 DEF TreeOf
<1> QED
  BY <1>1, <1>7, <1>9 DEF ScopesInv, ss

\* No copy is under way when the evaluation begins
LEMMA FreshAgenda ==
  ASSUME NEW ns, NEW ss, NEW ag, Linked(ns), \A id \in DOMAIN ns : Complete(ns, id),
         NewFrames(ag, ns, ss, 0)
  PROVE  AgendaInv(ns, ss, ag)
<1>1. /\ ag \in Seq(FrameRecord)
      /\ \A k \in DOMAIN ag : FrameInv(ag[k], ns, ss) /\ ag[k].op \notin {"copy", "instantiate"}
  BY DEF NewFrames
<1>2. Quiet(ns, ag)
  BY <1>1 DEF Quiet
<1>3. CopiesInv(ns, ag)
  BY <1>1, <1>2, QuietCopies
<1> QED
  BY <1>1, <1>3 DEF AgendaInv

\* An evaluation starts in the base scope, with nothing copied
LEMMA StartKept ==
  ASSUME IInv, Start PROVE EvalInv'
<1> DEFINE lib == IF pass = 1 THEN Libraries \o VSL ELSE VSL
           base == <<[NewScope(1, 0) EXCEPT !.namespace = lib]>>
           ag == EvalNode(1, 1)
<1>1. /\ scopes' = base /\ agenda' = ag /\ outs' = <<<<>>>>
      /\ UNCHANGED <<fault, boundIn, nodes, parsing>>
      /\ parsing # "running" /\ scopes = <<>>
  BY DEF Start, StartEval, Started, parserVars
<1>2. lib \in Seq(ExternEntry)
  <2>1. Libraries \in Seq(ExternEntry) /\ VSL \in Seq(ExternEntry)
    BY CompilerAssumption
  <2>2. Libraries \o VSL \in Seq(ExternEntry)
    BY <2>1, ConcatProperties
  <2> QED
    BY <2>1, <2>2
<1> HIDE DEF lib
<1>3. ParseInv
  BY <1>1 DEF IInv, EvalInv, ScopesInv, TypedScopes
<1>4. NodesInv(nodes) /\ \A id \in DOMAIN nodes : Complete(nodes, id)
  BY <1>3, ParsedNodes
<1>5. 1 \in DOMAIN nodes /\ boundIn = <<>> /\ fault = "none"
  BY <1>1, <1>3 DEF ParseInv
<1>6. DOMAIN nodes = 1..Len(nodes) /\ Len(nodes) \in Nat
  BY <1>4 DEF NodesInv, Linked
<1>7. Len(nodes) \in Nat \ {0}
  BY <1>5, <1>6
<1>8. ScopesInv(base, nodes)
  BY <1>2, <1>7, BaseScope
<1>9. 1 \in DOMAIN base
  OBVIOUS
<1> HIDE DEF base, ag
<1>10. NewFrames(ag, nodes, base, 0)
  BY <1>4, <1>5, <1>9, EvalNodeFrames DEF ag
<1>11. AgendaInv(nodes, base, ag)
  BY <1>4, <1>10, FreshAgenda DEF NodesInv
<1>12. Cardinality(Owners(ag)) = 0
  BY <1>10 DEF NewFrames
<1> DEFINE os == <<<<>>>>
<1>13. TightOuts(os) /\ Len(os) = 1
  <2>1. Len(os) = 1 /\ DOMAIN os = {1} /\ os[1] = <<>> /\ os \in Seq(Seq(Characters))
    OBVIOUS
  <2> HIDE DEF os
  <2> QED
    BY <2>1 DEF TightOuts, Tight
<1>14. outs' = os
  BY <1>1
<1> HIDE DEF os
<1>15. Len(outs') = 1 + Cardinality(Owners(agenda'))
  BY <1>1, <1>12, <1>13, <1>14
<1>16. DOMAIN boundIn' \subseteq DOMAIN nodes' /\ fault' \in Faults
  BY <1>1, <1>5 DEF Faults
<1>17. NodesInv(nodes') /\ ScopesInv(scopes', nodes') /\ AgendaInv(nodes', scopes', agenda')
       /\ TightOuts(outs') /\ parsing' # "running"
  BY <1>1, <1>4, <1>8, <1>11, <1>13, <1>14
<1> QED
  BY <1>15, <1>16, <1>17 DEF EvalInv

\* The output of the first pass is read like a program
LEMMA SecondPassKept ==
  ASSUME IInv, SecondPass PROVE ParseInv'
<1> DEFINE text == Output \o Cocktail
<1>1. /\ scopes # <<>> /\ agenda = <<>> /\ fault = "none"
      /\ source' = text /\ conds' = <<"INITIAL">> /\ textBuffer' = <<>> /\ token' = NoToken
      /\ nodes' = <<>> /\ stack' = <<>> /\ parsing' = "running"
      /\ scopes' = <<>> /\ outs' = <<>> /\ boundIn' = <<>>
      /\ agenda' = agenda /\ fault' = fault
  BY DEF SecondPass, PassDone, Started
<1>2. EvalInv
  BY <1>1 DEF IInv, ParseInv
<1>3. text \in Seq(Characters)
  <2>1. outs \in Seq(Seq(Characters)) /\ Len(outs) = 1 + Cardinality(Owners(agenda))
    BY <1>2 DEF EvalInv, TightOuts
  <2>2. Cardinality(Owners(agenda)) = 0
    BY <1>1, NoOwners
  <2>3. outs[1] \in Seq(Characters)
    BY <2>1, <2>2
  <2>4. Cocktail \in Seq(Characters)
    BY CompilerAssumption
  <2> QED
    BY <2>3, <2>4, ConcatProperties DEF Output
<1> HIDE DEF text
<1>4. Tree(nodes')
  BY <1>1 DEF Tree
<1>5. LexTypes'
  <2>1. conds' \in Seq(StartConds \union {"IN_LITERAL"})
    BY <1>1 DEF StartConds
  <2> QED
    BY <1>1, <1>3, <2>1 DEF LexTypes
<1>6. TokenInv'
  BY <1>1 DEF NoToken, TokenInv, TokenRecord, Stands, HasNode, Nonterminals, Leaves
<1>7. StackInv'
  BY <1>1 DEF StackInv
<1>8. ParserInv'
  BY <1>1, <1>4, <1>5, <1>6, <1>7 DEF ParserInv
<1>9. NamesClean(nodes')
  BY <1>1 DEF NamesClean
<1> QED
  BY <1>1, <1>8, <1>9 DEF ParseInv

\* A step of the evaluator keeps the invariant
LEMMA EvaluateKept ==
  ASSUME IInv, Evaluate PROVE EvalInv'
<1>1. scopes # <<>> /\ EvalStep /\ UNCHANGED parsing
  BY DEF Evaluate, Started, parserVars
<1>2. EvalInv
  BY <1>1 DEF IInv, ParseInv
<1>3. CASE ResolveStep
  BY <1>1, <1>2, <1>3, StepResolve
<1>4. CASE EmitStep
  BY <1>1, <1>2, <1>4, StepEmit
<1> QED
  BY <1>1, <1>3, <1>4 DEF EvalStep

\* Nothing changes
LEMMA StutterKept ==
  ASSUME IInv, UNCHANGED vars PROVE IInv'
<1>1. UNCHANGED <<nodes, lexVars, parserVars, scopes, agenda, outs, fault, boundIn, stack, parsing>>
  BY DEF vars, evalVars, parserVars
<1>2. CASE ParseInv
  <2>1. ParserInv'
    BY <1>1, <1>2, ParserStutterInv DEF ParseInv
  <2> QED
    BY <1>1, <1>2, <2>1 DEF ParseInv, IInv
<1>3. CASE EvalInv
  BY <1>1, <1>3 DEF EvalInv, IInv
<1> QED
  BY <1>2, <1>3 DEF IInv

-----------------------------------------------------------------------------
(* What holds at every moment of both passes, for all programs, libraries and  *)
(* sizes of the arenas.                                                        *)

\* The invariant holds at every moment
THEOREM Invariant == Spec => []IInv
<1>1. Init => IInv
  BY InitParse DEF IInv
<1>2. IInv /\ [Next]_vars => IInv'
  <2> SUFFICES ASSUME IInv, [Next]_vars PROVE IInv'
    OBVIOUS
  <2>1. Start \/ Evaluate => EvalInv'
    BY StartKept, EvaluateKept
  <2>2. SecondPass => ParseInv'
    BY SecondPassKept
  <2>3. EvalInv' \/ ParseInv' => IInv'
    BY DEF IInv
  <2> QED
    BY <2>1, <2>2, <2>3, ParseKept, StutterKept DEF Next
<1> QED
  BY <1>1, <1>2, PTL DEF Spec

(* A blank never follows a blank in an output, and none begins it, whatever    *)
(* texts, calls, arguments and results of functions the buffer is filled from: *)
(* each write looks at the end of the buffer (vut_str_put_blank_reduced_sv),   *)
(* and the bare writes of do_calls_undefined put no blank after one.           *)
THEOREM AlwaysReduced == Spec => []BlanksReduced
<1>1. IInv => BlanksReduced
  <2>1. ParseInv => BlanksReduced
    BY DEF ParseInv, BlanksReduced
  <2>2. EvalInv => BlanksReduced
    BY DEF EvalInv, TightOuts, Tight, BlanksReduced
  <2> QED
    BY <2>1, <2>2 DEF IInv
<1> QED
  BY <1>1, Invariant, PTL

(* Every buffer has one call that waits for it: no return of an extern         *)
(* function, and no computed name, takes the text of another call, however     *)
(* deep calls, arguments and eval_node of the library interface are nested.    *)
THEOREM BuffersOwned == Spec => []BuffersMatchFrames
<1>1. IInv => BuffersMatchFrames
  <2>1. ParseInv => BuffersMatchFrames
    BY DEF ParseInv, BuffersMatchFrames, Started
  <2>2. Owners(agenda) = {k \in DOMAIN agenda :
                            \/ agenda[k].op \in {"invoke", "returned"}
                            \/ agenda[k].op = "bind" /\ Computed(agenda[k])}
    BY DEF Owners, Owns
  <2>3. EvalInv => BuffersMatchFrames
    BY <2>2 DEF EvalInv, BuffersMatchFrames
  <2> QED
    BY <2>1, <2>3 DEF IInv
<1> QED
  BY <1>1, Invariant, PTL

(* The scopes are a tree, fathers first, however resolve_symbols is run again  *)
(* on shared and copied bodies: find_symbol_on_scopes ends at the base scope.  *)
THEOREM ScopesFormTree == Spec => []ScopeTree
<1>1. IInv => ScopeTree
  <2>1. ParseInv => ScopeTree
    BY DEF ParseInv, ScopeTree, Scopes
  <2>2. EvalInv => TreeOf(scopes)
    BY DEF EvalInv, ScopesInv
  <2>3. TreeOf(scopes) => ScopeTree
    BY DEF TreeOf, ScopeTree, Scopes
  <2> QED
    BY <2>1, <2>2, <2>3 DEF IInv
<1> QED
  BY <1>1, Invariant, PTL

\* The nodes are typed while they are linked
LEMMA LinkedTypes ==
  ASSUME Linked(nodes), NEW id \in NodeIds
  PROVE  nodes[id].type \in NodeTypes /\ ToSet(nodes[id].childs) \subseteq NodeIds
<1> DEFINE n == nodes[id]
<1>1. n \in NodeRecord /\ \A k \in DOMAIN n.childs : n.childs[k] \in NodeIds
  BY DEF Linked, NodeIds
<1> HIDE DEF n
<1>2. n.type \in NodeTypes
  BY <1>1 DEF NodeRecord
<1>3. ToSet(n.childs) \subseteq NodeIds
  BY <1>1 DEF ToSet
<1> QED
  BY <1>2, <1>3 DEF n

(* The ids the evaluator keeps are those of nodes and scopes that are there,   *)
(* through every growth of the two vectors and both passes.                    *)
THEOREM TypeCorrect == Spec => []TypeOK
<1>1. ASSUME ParseInv PROVE TypeOK
  <2>1. Tree(nodes) /\ scopes = <<>> /\ agenda = <<>> /\ outs = <<>> /\ boundIn = <<>>
        /\ fault = "none"
    BY <1>1 DEF ParseInv, ParserInv
  <2>2. \A id \in NodeIds : nodes[id].type \in NodeTypes /\ ToSet(nodes[id].childs) \subseteq NodeIds
    BY <2>1, LinkedTypes DEF Tree, Linked
  <2> QED
    BY <2>1, <2>2 DEF TypeOK, Scopes, Faults
<1>2. ASSUME EvalInv PROVE TypeOK
  <2>1. Linked(nodes) /\ TypedScopes(scopes, Len(nodes)) /\ TreeOf(scopes)
        /\ AgendaInv(nodes, scopes, agenda) /\ TightOuts(outs)
        /\ fault \in Faults /\ DOMAIN boundIn \subseteq DOMAIN nodes
    BY <1>2 DEF EvalInv, NodesInv, ScopesInv
  <2>2. \A id \in NodeIds : nodes[id].type \in NodeTypes /\ ToSet(nodes[id].childs) \subseteq NodeIds
    BY <2>1, LinkedTypes DEF Tree, Linked
  <2>3. ASSUME NEW k \in DOMAIN agenda
        PROVE  /\ agenda[k].op \in FrameOps
               /\ agenda[k].scope \in Scopes \union {0}
               /\ agenda[k].node \in NodeIds
               /\ agenda[k].flags \subseteq Flags
    <3>1. agenda[k] \in FrameRecord /\ FrameInv(agenda[k], nodes, scopes)
      BY <2>1 DEF AgendaInv
    <3> QED
      BY <3>1 DEF FrameRecord, FrameInv, Scopes, NodeIds
  <2>4. ASSUME NEW s \in Scopes
        PROVE  /\ scopes[s].father \in Scopes \union {0}
               /\ scopes[s].node \in NodeIds
               /\ ToSet(scopes[s].childs) \subseteq Scopes
               /\ scopes[s].namespace \in Seq(EntryRecord)
    <3> DEFINE sc == scopes[s]
               names == sc.namespace
    <3>1. s \in DOMAIN scopes /\ DOMAIN nodes = 1..Len(nodes)
      BY <2>1, <2>4 DEF Scopes, Linked
    <3>2. scopes \in Seq(ScopeRecord) /\ DOMAIN scopes = 1..Len(scopes) /\ Len(scopes) \in Nat
      BY <2>1 DEF TypedScopes
    <3>3. sc.father \in Scopes \union {0}
      BY <2>1, <3>1, <3>2 DEF TreeOf, Scopes
    <3>4. sc.node \in NodeIds
      BY <2>1, <3>1 DEF TypedScopes, NodeIds
    <3>5. ToSet(sc.childs) \subseteq Scopes
      BY <2>1, <3>1 DEF TypedScopes, Scopes, ToSet
    <3>6. names \in Seq(EntryType)
      <4>1. sc \in ScopeRecord
        BY <3>1, <3>2
      <4> QED
        BY <4>1 DEF ScopeRecord
    <3>7. \A i \in DOMAIN names : IF names[i].type = "internal" THEN names[i].body \in DOMAIN nodes
                                                                ELSE names[i].body = 0
      BY <2>1, <3>1 DEF TypedScopes
    <3> HIDE DEF names
    <3>8. ASSUME NEW i \in DOMAIN names
          PROVE  names[i] \in EntryRecord
      <4>1. names[i] \in EntryType
        BY <3>6
      <4>2. \A e \in EntryType : (IF e.type = "internal" THEN e.body \in DOMAIN nodes ELSE e.body = 0)
                                    => e \in EntryRecord
        BY DEF EntryType, EntryRecord, NodeIds
      <4> QED
        BY <3>7, <4>1, <4>2
    <3>9. names \in Seq(EntryRecord)
      <4>1. Len(names) \in Nat /\ names = [i \in 1..Len(names) |-> names[i]]
        BY <3>6
      <4> QED
        BY <3>8, <4>1
    <3> QED
      BY <3>3, <3>4, <3>5, <3>9 DEF names
  <2>5. \A k \in DOMAIN outs : outs[k] \in Seq(Characters)
    BY <2>1 DEF TightOuts
  <2>6. DOMAIN boundIn \subseteq NodeIds /\ fault \in Faults
    BY <2>1 DEF NodeIds
  <2> QED
    BY <2>2, <2>3, <2>4, <2>5, <2>6 DEF TypeOK
<1>3. IInv => TypeOK
  BY <1>1, <1>2 DEF IInv
<1> QED
  BY <1>3, Invariant, PTL
-----------------------------------------------------------------------------
(* No call is written before it is resolved.  A tree that a do_calls frame is  *)
(* going to write is covered: a set D of its nodes is resolved as it stands,   *)
(* and where D ends resolve_calls is still to come, before the frame runs.     *)

PendingOps == {"resolve_calls", "bind", "instantiate"}

\* The nodes that are to be resolved before frame k runs
Pending(ag, k) == {ag[i].node : i \in {j \in DOMAIN ag : j < k /\ ag[j].op \in PendingOps}}

\* What frames are going to resolve
Todo(frames) == Pending(frames, Len(frames) + 1)

\* The nodes that are going to be given children
Targets(ag) == {ag[i].arg : i \in {j \in DOMAIN ag : ag[j].op \in {"copy", "instantiate"}}}

\* What do_calls reads below the node is in S; bs are the calls that were bound
Closed(ns, bs, id, S) ==
  /\ ns[id].type \in {"ARGS", "PROGRAM"} =>
       \A k \in DOMAIN ns[id].childs : ns[id].childs[k] \in S
  /\ ns[id].type = "CALL" => /\ id \in bs
                             /\ Len(ns[id].childs) >= 2 => ns[id].childs[2] \in S

Cover(ns, bs, ag, k, D) ==
  /\ D \subseteq DOMAIN ns
  /\ ag[k].node \in D \union Pending(ag, k)
  /\ \A id \in D : Closed(ns, bs, id, D \union Pending(ag, k)) /\ id \notin Targets(ag)

Covered(ns, bs, ag, k) == \E D : Cover(ns, bs, ag, k, D)
CoverInv(ns, bs, ag)   == \A k \in DOMAIN ag : ag[k].op = "do_calls" => Covered(ns, bs, ag, k)

\* The second child of a call or of a definition is an ARGS, and so is every body
ArgsSecond(ns) ==
  \A id \in DOMAIN ns : ns[id].type \in Blocks =>
    \A k \in DOMAIN ns[id].childs : k >= 2 => ns[ns[id].childs[k]].type = "ARGS"

BodiesArgs(ns, ss) ==
  \A s \in DOMAIN ss : \A i \in DOMAIN ss[s].namespace :
    ss[s].namespace[i].type = "internal" => ns[ss[s].namespace[i].body].type = "ARGS"

\* Frame k brings a call or a definition no child but an ARGS, unless its first one
ArgsCopied(ns, ag, k) ==
  \/ ns[ag[k].node].type = "ARGS"
  \/ /\ ns[ag[k].arg].childs = <<>>
     /\ \A j \in DOMAIN ag : j < k => ~ Copies(ag, j, ag[k].arg)

CopiesTyped(ns, ag) ==
  \A k \in DOMAIN ag :
    ag[k].op = "copy" /\ ag[k].arg \in DOMAIN ns /\ ns[ag[k].arg].type \in Blocks => ArgsCopied(ns, ag, k)

BindsCalls(ns, ag) ==
  \A k \in DOMAIN ag : ag[k].op \in {"bind", "instantiate"} => ns[ag[k].node].type = "CALL"

\* An instantiation waits for copies only: those of an ARGS
InstantiateInv(ns, bs, ag) ==
  \A k \in DOMAIN ag : ag[k].op = "instantiate" =>
    /\ \A j \in DOMAIN ag : j < k => ag[j].op = "copy"
    /\ ag[k].node \in bs
    /\ \/ ag[k].arg \in DOMAIN ns /\ ns[ag[k].arg].type = "ARGS"
       \/ /\ ag[1].op = "copy" /\ ag[1].arg = 0 /\ ns[ag[1].node].type = "ARGS"
          /\ ag[k].arg = Len(ns) + 1

ResolvedInv(ns, ss, bs, ag) ==
  /\ ArgsSecond(ns) /\ BodiesArgs(ns, ss)
  /\ CopiesTyped(ns, ag) /\ BindsCalls(ns, ag) /\ InstantiateInv(ns, bs, ag)
  /\ CoverInv(ns, bs, ag)

\* More nodes may be read below a node
LEMMA ClosedMore ==
  ASSUME NEW ns, NEW bs, NEW id, NEW S, NEW T, Closed(ns, bs, id, S), S \subseteq T
  PROVE  Closed(ns, bs, id, T)
BY DEF Closed

\* No node changes its type, but a name
Retyped(ns, ms) ==
  \A id \in DOMAIN ns : \/ ms[id].type = ns[id].type
                        \/ ns[id].type \in NameTypes /\ ms[id].type \in NameTypes

\* A node that keeps its children stays resolved
LEMMA ClosedKept ==
  ASSUME NEW ns, NEW ms, NEW bs, NEW cs, bs \subseteq cs, NEW id \in DOMAIN ns, NEW S,
         Retyped(ns, ms), ms[id].childs = ns[id].childs, Closed(ns, bs, id, S)
  PROVE  Closed(ms, cs, id, S)
<1>1. CASE ms[id].type = ns[id].type
  BY <1>1 DEF Closed
<1>2. CASE ns[id].type \in NameTypes /\ ms[id].type \in NameTypes
  BY <1>2 DEF Closed, NameTypes
<1> QED
  BY <1>1, <1>2 DEF Retyped

\* What evaluation does to nodes and to the calls that are bound
Evolves(ns, ms, bs, cs) == bs \subseteq cs /\ Retyped(ns, ms) /\ DOMAIN ns \subseteq DOMAIN ms

(* A step that runs the first frame: N are the nodes it resolves, as far as    *)
(* its frames have not to do it yet.                                           *)
Resolves(ns, ms, cs, ag, frames, N, new) ==
  /\ N \subseteq DOMAIN ms
  /\ \A id \in DOMAIN ns : id \in N \/ id \in Targets(ag) \/ ms[id].childs = ns[id].childs
  /\ \A id \in N : Closed(ms, cs, id, N \union Todo(frames)) /\ id \notin Targets(new)
  /\ \A id \in Targets(new) : id \in Targets(ag) \/ id \notin DOMAIN ns
  /\ ag[1].op \in PendingOps => ag[1].node \in N \union Todo(frames)
  /\ \A k \in DOMAIN frames : frames[k].op = "do_calls" => Covered(ms, cs, new, k)

\* After such a step what is to be written is still covered
LEMMA CoverStep ==
  ASSUME NEW ns, NEW ms, NEW bs, NEW cs, NEW ag \in Seq(FrameRecord), ag # <<>>,
         NEW frames \in Seq(FrameRecord), NEW new, new = frames \o Tail(ag), NEW N,
         Evolves(ns, ms, bs, cs), CoverInv(ns, bs, ag), Resolves(ns, ms, cs, ag, frames, N, new)
  PROVE  CoverInv(ms, cs, new)
<1> DEFINE F == Todo(frames)
<1>0. /\ bs \subseteq cs /\ Retyped(ns, ms) /\ DOMAIN ns \subseteq DOMAIN ms
      /\ N \subseteq DOMAIN ms
      /\ \A id \in DOMAIN ns : id \in N \/ id \in Targets(ag) \/ ms[id].childs = ns[id].childs
      /\ \A id \in N : Closed(ms, cs, id, N \union F) /\ id \notin Targets(new)
      /\ \A id \in Targets(new) : id \in Targets(ag) \/ id \notin DOMAIN ns
      /\ ag[1].op \in PendingOps => ag[1].node \in N \union F
      /\ \A k \in DOMAIN frames : frames[k].op = "do_calls" => Covered(ms, cs, new, k)
  BY DEF Evolves, Resolves
<1>00. F = Pending(frames, Len(frames) + 1)
  BY DEF Todo
<1> HIDE DEF F
<1>1. /\ \A k \in DOMAIN new :
           \/ k \in DOMAIN frames /\ new[k] = frames[k]
           \/ /\ k > Len(frames) /\ (k - Len(frames)) + 1 \in DOMAIN ag \ {1}
              /\ new[k] = ag[(k - Len(frames)) + 1]
      /\ \A k \in DOMAIN frames : k \in DOMAIN new /\ new[k] = frames[k]
      /\ \A j \in DOMAIN ag \ {1} : /\ (j - 1) + Len(frames) \in DOMAIN new
                                    /\ new[(j - 1) + Len(frames)] = ag[j]
  BY Continued
<1>2. /\ Len(frames) \in Nat /\ DOMAIN frames = 1..Len(frames)
      /\ DOMAIN ag = 1..Len(ag) /\ Len(ag) \in Nat
      /\ new \in Seq(FrameRecord) /\ DOMAIN new \subseteq Nat
  BY Continued
<1> SUFFICES ASSUME NEW k \in DOMAIN new, new[k].op = "do_calls"
             PROVE  Covered(ms, cs, new, k)
  BY DEF CoverInv
<1>3. CASE k \in DOMAIN frames
  BY <1>0, <1>1, <1>3
<1>4. CASE k > Len(frames) /\ (k - Len(frames)) + 1 \in DOMAIN ag \ {1}
           /\ new[k] = ag[(k - Len(frames)) + 1]
  <2> DEFINE j == (k - Len(frames)) + 1
             P == Pending(ag, j)
             Q == Pending(new, k)
  <2>1. j \in DOMAIN ag \ {1} /\ new[k] = ag[j] /\ k = (j - 1) + Len(frames) /\ k \in Nat /\ j \in Nat
    BY <1>2, <1>4
  <2> HIDE DEF j
  <2>2. PICK D : Cover(ns, bs, ag, j, D)
    BY <2>1 DEF CoverInv, Covered
  <2>3. F \subseteq Q
    <3> SUFFICES ASSUME NEW n \in F PROVE n \in Q
      OBVIOUS
    <3>1. PICK i \in DOMAIN frames : frames[i].op \in PendingOps /\ n = frames[i].node
      BY <1>00 DEF Pending
    <3>2. i \in DOMAIN new /\ new[i] = frames[i] /\ i < k
      BY <1>1, <1>2, <1>4
    <3> QED
      BY <3>1, <3>2 DEF Pending
  <2>4. P \subseteq N \union Q
    <3> SUFFICES ASSUME NEW n \in P PROVE n \in N \union Q
      OBVIOUS
    <3>1. PICK i \in DOMAIN ag : i < j /\ ag[i].op \in PendingOps /\ n = ag[i].node
      BY DEF Pending
    <3>2. CASE i = 1
      BY <1>0, <2>3, <3>1, <3>2
    <3>3. CASE i # 1
      <4>1. (i - 1) + Len(frames) \in DOMAIN new /\ new[(i - 1) + Len(frames)] = ag[i]
        BY <1>1, <3>3
      <4>2. (i - 1) + Len(frames) < k
        BY <1>2, <2>1, <3>1
      <4> QED
        BY <3>1, <4>1, <4>2 DEF Pending
    <3> QED
      BY <3>2, <3>3
  <2> HIDE DEF P, Q
  <2> DEFINE E == D \union N
  <2>5. D \subseteq DOMAIN ns /\ ag[j].node \in D \union P
        /\ \A id \in D : Closed(ns, bs, id, D \union P) /\ id \notin Targets(ag)
    BY <2>2 DEF Cover, P
  <2>6. E \subseteq DOMAIN ms /\ new[k].node \in E \union Q
    BY <1>0, <2>1, <2>4, <2>5
  <2>7. ASSUME NEW id \in E
        PROVE  Closed(ms, cs, id, E \union Q) /\ id \notin Targets(new)
    <3>1. CASE id \in N
      <4>1. Closed(ms, cs, id, N \union F) /\ N \union F \subseteq E \union Q
        BY <1>0, <2>3, <3>1
      <4> HIDE DEF E
      <4>2. Closed(ms, cs, id, E \union Q)
        BY <4>1, ClosedMore
      <4> QED
        BY <1>0, <3>1, <4>2
    <3>2. CASE id \in D /\ id \notin N
      <4>1. id \in DOMAIN ns /\ id \notin Targets(ag) /\ id \notin Targets(new)
        BY <1>0, <2>5, <3>2
      <4>2. ms[id].childs = ns[id].childs
        BY <1>0, <3>2, <4>1
      <4>3. Closed(ns, bs, id, D \union P)
        BY <2>5, <3>2
      <4>4. Closed(ms, cs, id, D \union P)
        BY <1>0, <4>1, <4>2, <4>3, ClosedKept
      <4>5. D \union P \subseteq E \union Q
        BY <2>4
      <4> HIDE DEF E
      <4>6. Closed(ms, cs, id, E \union Q)
        BY <4>4, <4>5, ClosedMore
      <4> QED
        BY <4>1, <4>6
    <3> QED
      BY <3>1, <3>2
  <2> HIDE DEF E
  <2>8. Cover(ms, cs, new, k, E)
    BY <2>6, <2>7 DEF Cover, Q
  <2> QED
    BY <2>8 DEF Covered
<1> QED
  BY <1>1, <1>3, <1>4

\* A frame that resolves
LEMMA TodoFrame ==
  ASSUME NEW frames \in Seq(FrameRecord), NEW k \in DOMAIN frames, frames[k].op \in PendingOps
  PROVE  frames[k].node \in Todo(frames)
<1>1. k < Len(frames) + 1
  OBVIOUS
<1> QED
  BY <1>1 DEF Todo, Pending

\* One frame that resolves
LEMMA TodoOne ==
  ASSUME NEW f \in FrameRecord, f.op \in PendingOps
  PROVE  f.node \in Todo(<<f>>)
<1> DEFINE s == <<f>>
<1>1. s \in Seq(FrameRecord) /\ 1 \in DOMAIN s /\ s[1] = f
  OBVIOUS
<1> HIDE DEF s
<1>2. s[1].node \in Todo(s)
  BY <1>1, TodoFrame
<1> QED
  BY <1>1, <1>2 DEF s

\* Frames after frames
LEMMA TodoConcat ==
  ASSUME NEW s \in Seq(FrameRecord), NEW t \in Seq(FrameRecord), NEW n, n \in Todo(s) \union Todo(t)
  PROVE  n \in Todo(s \o t)
<1> DEFINE st == s \o t
<1>1. /\ st \in Seq(FrameRecord) /\ Len(st) = Len(s) + Len(t)
      /\ \A k \in DOMAIN s : k \in DOMAIN st /\ st[k] = s[k]
      /\ \A k \in DOMAIN t : Len(s) + k \in DOMAIN st /\ st[Len(s) + k] = t[k]
  BY ConcatProperties
<1> HIDE DEF st
<1>2. CASE n \in Todo(s)
  <2>1. PICK k \in DOMAIN s : s[k].op \in PendingOps /\ n = s[k].node
    BY <1>2 DEF Todo, Pending
  <2>2. k \in DOMAIN st /\ st[k] = s[k]
    BY <1>1
  <2> QED
    BY <1>1, <2>1, <2>2, TodoFrame DEF st
<1>3. CASE n \in Todo(t)
  <2>1. PICK k \in DOMAIN t : t[k].op \in PendingOps /\ n = t[k].node
    BY <1>3 DEF Todo, Pending
  <2>2. Len(s) + k \in DOMAIN st /\ st[Len(s) + k] = t[k]
    BY <1>1
  <2> QED
    BY <1>1, <2>1, <2>2, TodoFrame DEF st
<1> QED
  BY <1>2, <1>3

\* A loop of resolve_calls over the children of a node
LEMMA TodoChilds ==
  ASSUME Linked(nodes), NEW node \in DOMAIN nodes, NEW scope \in Nat,
         NEW frames, frames = ForEachChild("resolve_calls", scope, node), frames \in Seq(FrameRecord)
  PROVE  \A k \in DOMAIN nodes[node].childs : nodes[node].childs[k] \in Todo(frames)
<1> SUFFICES ASSUME NEW k \in DOMAIN nodes[node].childs
             PROVE  nodes[node].childs[k] \in Todo(frames)
  OBVIOUS
<1>1. k \in DOMAIN frames /\ frames[k] = Frame("resolve_calls", scope, nodes[node].childs[k])
  BY DEF ForEachChild, NthChild
<1>2. frames[k].op \in PendingOps /\ frames[k].node = nodes[node].childs[k]
  BY <1>1 DEF Frame, PendingOps
<1> QED
  BY <1>1, <1>2, TodoFrame

\* A second child that is added or replaced is an ARGS
LEMMA ArgsSecondKept ==
  ASSUME NEW ns, NEW ms, Linked(ns), Retyped(ns, ms), ArgsSecond(ns),
         \A id \in DOMAIN ms : ms[id].type \in Blocks =>
           \A k \in DOMAIN ms[id].childs : k >= 2 =>
             \/ ms[ms[id].childs[k]].type = "ARGS"
             \/ /\ id \in DOMAIN ns /\ k \in DOMAIN ns[id].childs
                /\ ms[id].childs[k] = ns[id].childs[k]
  PROVE  ArgsSecond(ms)
<1> SUFFICES ASSUME NEW id \in DOMAIN ms, ms[id].type \in Blocks,
                    NEW k \in DOMAIN ms[id].childs, k >= 2
             PROVE  ms[ms[id].childs[k]].type = "ARGS"
  BY DEF ArgsSecond
<1>1. CASE /\ id \in DOMAIN ns /\ k \in DOMAIN ns[id].childs
           /\ ms[id].childs[k] = ns[id].childs[k]
  <2>1. ns[id].type \in Blocks
    BY <1>1 DEF Retyped, Blocks, NameTypes
  <2>2. ns[ns[id].childs[k]].type = "ARGS" /\ ns[id].childs[k] \in DOMAIN ns
    BY <1>1, <2>1 DEF ArgsSecond, Linked
  <2>3. ms[ns[id].childs[k]].type = "ARGS"
    BY <2>2 DEF Retyped, NameTypes
  <2> QED
    BY <1>1, <2>3
<1> QED
  BY <1>1

\* The bodies stay ARGS
LEMMA BodiesArgsKept ==
  ASSUME NEW ns, NEW ms, NEW ss, Linked(ns), TypedScopes(ss, Len(ns)), Retyped(ns, ms), BodiesArgs(ns, ss)
  PROVE  BodiesArgs(ms, ss)
<1> SUFFICES ASSUME NEW s \in DOMAIN ss, NEW i \in DOMAIN ss[s].namespace,
                    ss[s].namespace[i].type = "internal"
             PROVE  ms[ss[s].namespace[i].body].type = "ARGS"
  BY DEF BodiesArgs
<1>1. ns[ss[s].namespace[i].body].type = "ARGS"
  BY DEF BodiesArgs
<1>2. ss[s].namespace[i].body \in 1..Len(ns)
  BY DEF TypedScopes
<1>3. DOMAIN ns = 1..Len(ns)
  BY DEF Linked
<1> QED
  BY <1>1, <1>2, <1>3 DEF Retyped, NameTypes

\* The body of a definition that a name means
LEMMA FoundArgs ==
  ASSUME EvalInv, BodiesArgs(nodes, scopes), NEW from \in DOMAIN scopes, NEW name,
         FindSymbol(from, name).type = "internal"
  PROVE  nodes[FindSymbol(from, name).body].type = "ARGS"
<1>1. /\ scopes \in Seq(ScopeRecord) /\ FathersFirst
      /\ Len(scopes) \in Nat \ {0} /\ DOMAIN scopes = 1..Len(scopes)
  BY ScopeFacts
<1>2. from \in 0..Len(scopes)
  BY <1>1
<1>3. FindSymbol(from, name) # NoEntry
  BY DEF NoEntry
<1>4. PICK s \in DOMAIN scopes : \E i \in DOMAIN scopes[s].namespace :
        FindSymbol(from, name) = scopes[s].namespace[i]
  BY <1>1, <1>2, <1>3, FindSymbolFacts
<1> QED
  BY <1>4 DEF BodiesArgs

\* When the first frame is no copy, no frame after it copies or instantiates
LEMMA QuietTail ==
  ASSUME NEW ns, NEW ss, NEW bs, NEW ag, AgendaInv(ns, ss, ag), Linked(ns), InstantiateInv(ns, bs, ag),
         ag # <<>>, ag[1].op # "copy", NEW j \in DOMAIN ag \ {1}
  PROVE  ag[j].op \notin {"copy", "instantiate"}
<1>1. ag \in Seq(FrameRecord) /\ CopiesInv(ns, ag)
  BY DEF AgendaInv
<1>2. Quiet(ns, ag)
  BY <1>1, QuietFacts
<1>3. 1 \in DOMAIN ag /\ 1 < j
  BY <1>1
<1> QED
  BY <1>2, <1>3 DEF Quiet, InstantiateInv

\* What a step of a frame that is no copy has to do
Advances(ns, ms, cs, ag, frames, N, new) ==
  /\ N \subseteq DOMAIN ms
  /\ \A id \in DOMAIN ns : \/ id \in N \/ ms[id].childs = ns[id].childs
                           \/ ag[1].op = "instantiate" /\ id = ag[1].arg
  /\ \A id \in N : Closed(ms, cs, id, N \union Todo(frames))
  /\ ag[1].op \in PendingOps => ag[1].node \in N \union Todo(frames)
  /\ \A k \in DOMAIN frames :
       /\ frames[k].op \notin {"copy", "instantiate"}
       /\ frames[k].op = "bind" => ms[frames[k].node].type = "CALL"
       /\ frames[k].op = "do_calls" => Covered(ms, cs, new, k)

\* A step of a frame that is no copy, and that adds none
LEMMA ResolvedStep ==
  ASSUME NEW ns, NEW ss, NEW bs, NEW ag, Linked(ns), AgendaInv(ns, ss, ag), ResolvedInv(ns, ss, bs, ag),
         ag # <<>>, ag[1].op # "copy",
         NEW ms, NEW ts, NEW cs, Evolves(ns, ms, bs, cs), ArgsSecond(ms), BodiesArgs(ms, ts),
         NEW frames \in Seq(FrameRecord), NEW new, new = frames \o Tail(ag), NEW N,
         Advances(ns, ms, cs, ag, frames, N, new)
  PROVE  ResolvedInv(ms, ts, cs, new) /\ Targets(new) = {}
<1>0. \A k \in DOMAIN frames : /\ frames[k].op \notin {"copy", "instantiate"}
                               /\ frames[k].op = "bind" => ms[frames[k].node].type = "CALL"
  BY DEF Advances
<1> Retyped(ns, ms)
  BY DEF Evolves
<1>1. /\ ag \in Seq(FrameRecord) /\ \A k \in DOMAIN ag : FrameInv(ag[k], ns, ss)
      /\ BindsCalls(ns, ag) /\ InstantiateInv(ns, bs, ag) /\ CoverInv(ns, bs, ag)
  BY DEF AgendaInv, ResolvedInv
<1>2. /\ new \in Seq(FrameRecord)
      /\ \A k \in DOMAIN new :
           \/ k \in DOMAIN frames /\ new[k] = frames[k]
           \/ /\ k > Len(frames) /\ (k - Len(frames)) + 1 \in DOMAIN ag \ {1}
              /\ new[k] = ag[(k - Len(frames)) + 1]
  BY <1>1, Continued
<1>3. ASSUME NEW k \in DOMAIN new
      PROVE  new[k].op \notin {"copy", "instantiate"}
  <2>1. CASE k \in DOMAIN frames /\ new[k] = frames[k]
    BY <1>0, <2>1
  <2>2. CASE (k - Len(frames)) + 1 \in DOMAIN ag \ {1} /\ new[k] = ag[(k - Len(frames)) + 1]
    BY <1>1, <2>2, QuietTail
  <2> QED
    BY <1>2, <2>1, <2>2
<1>4. CopiesTyped(ms, new) /\ InstantiateInv(ms, cs, new) /\ Targets(new) = {}
  BY <1>3 DEF CopiesTyped, InstantiateInv, Targets
<1>5. BindsCalls(ms, new)
  <2> SUFFICES ASSUME NEW k \in DOMAIN new, new[k].op = "bind"
               PROVE  ms[new[k].node].type = "CALL"
    BY <1>3 DEF BindsCalls
  <2>1. CASE k \in DOMAIN frames /\ new[k] = frames[k]
    BY <1>0, <2>1
  <2>2. CASE (k - Len(frames)) + 1 \in DOMAIN ag \ {1} /\ new[k] = ag[(k - Len(frames)) + 1]
    <3>1. new[k].node \in DOMAIN ns /\ ns[new[k].node].type = "CALL"
      BY <1>1, <2>2 DEF FrameInv, BindsCalls
    <3> QED
      BY <1>0, <3>1 DEF Retyped, NameTypes
  <2> QED
    BY <1>2, <2>1, <2>2
<1>6. Resolves(ns, ms, cs, ag, frames, N, new)
  <2>1. ag[1].op = "instantiate" => ag[1].arg \in Targets(ag)
    <3>1. 1 \in DOMAIN ag
      BY <1>1
    <3> QED
      BY <3>1 DEF Targets
  <2> QED
    BY <1>4, <2>1 DEF Advances, Resolves
<1>7. CoverInv(ms, cs, new)
  BY <1>1, <1>6, CoverStep
<1> QED
  BY <1>4, <1>5, <1>7 DEF ResolvedInv

\* What is resolved now, and after the step
Resolved == ResolvedInv(nodes, scopes, DOMAIN boundIn, agenda)

\* A step lets no node that is there wait for children, but those that did
FreshTargets == \A id \in Targets(agenda') : id \in Targets(agenda) \/ id \notin DOMAIN nodes

\* Nodes and bindings that stay as they are
LEMMA EvolvesSame ==
  ASSUME NEW ns, NEW bs PROVE Evolves(ns, ns, bs, bs)
BY DEF Evolves, Retyped

\* A step that resolves no node
LEMMA ResolvedSilent ==
  ASSUME EvalInv, Resolved, agenda # <<>>, agenda[1].op # "copy", agenda[1].op \notin PendingOps,
         NEW frames \in Seq(FrameRecord), Continue(frames), UNCHANGED <<nodes, boundIn>>,
         BodiesArgs(nodes, scopes'),
         \A k \in DOMAIN frames :
           /\ frames[k].op \notin {"copy", "instantiate", "bind"}
           /\ frames[k].op = "do_calls" => Covered(nodes, DOMAIN boundIn, agenda', k)
  PROVE  Resolved' /\ FreshTargets
<1> DEFINE bs == DOMAIN boundIn
           new == agenda'
           ts == scopes'
<1>1. new = frames \o Tail(agenda)
  BY DEF Continue
<1>2. Linked(nodes) /\ AgendaInv(nodes, scopes, agenda) /\ ResolvedInv(nodes, scopes, bs, agenda)
  BY ScopeFacts DEF EvalInv, Resolved
<1>3. ArgsSecond(nodes) /\ BodiesArgs(nodes, ts) /\ Evolves(nodes, nodes, bs, bs)
  BY <1>2, EvolvesSame DEF ResolvedInv
<1>4. Advances(nodes, nodes, bs, agenda, frames, {}, new)
  BY DEF Advances
<1> HIDE DEF bs, new, ts
<1>5. ResolvedInv(nodes, ts, bs, new) /\ Targets(new) = {}
  BY <1>1, <1>2, <1>3, <1>4, ResolvedStep
<1> QED
  BY <1>5 DEF Resolved, FreshTargets, bs, new, ts

\* The children of a definition that is resolved
LEMMA ResolvedAssignment ==
  ASSUME EvalInv, Resolved, ResolveAssignment PROVE Resolved' /\ FreshTargets
<1> DEFINE f == agenda[1]
           name == nodes[NthChild(nodes, f.node, 1)].text
           body == NthChild(nodes, f.node, 2)
           e == InternalEntry(name, body)
<1>1. /\ At("resolve_symbols") /\ Type(f.node) = "ASSIGNMENT"
      /\ scopes' = AddEntry(scopes, f.scope, e)
      /\ Continue(<<>>) /\ UNCHANGED <<nodes, boundIn>>
  BY DEF ResolveAssignment, Head1
<1>2. /\ agenda # <<>> /\ f.op = "resolve_symbols" /\ FrameInv(f, nodes, scopes)
      /\ f.node \in DOMAIN nodes /\ Complete(nodes, f.node)
  BY <1>1, AtFacts
<1>3. f.scope \in DOMAIN scopes
  BY <1>2, ScopeOfFrame
<1>4. /\ Linked(nodes) /\ scopes \in Seq(ScopeRecord)
      /\ ArgsSecond(nodes) /\ BodiesArgs(nodes, scopes)
  BY ScopeFacts DEF Resolved, ResolvedInv
<1>5. nodes[body].type = "ARGS"
  <2>1. /\ Len(nodes[f.node].childs) \in Nat
        /\ DOMAIN nodes[f.node].childs = 1..Len(nodes[f.node].childs)
    BY <1>2, <1>4, LinkedFacts
  <2>2. 2 <= Len(nodes[f.node].childs)
    BY <1>1, <1>2 DEF Complete, Needed, Type
  <2>3. 2 \in DOMAIN nodes[f.node].childs /\ nodes[f.node].type \in Blocks
    BY <1>1, <2>1, <2>2 DEF Type, Blocks
  <2> QED
    BY <1>2, <1>4, <2>3 DEF ArgsSecond, NthChild
<1> HIDE DEF name, body
<1>6. BodiesArgs(nodes, scopes')
  <2> SUFFICES ASSUME NEW s \in DOMAIN scopes', NEW i \in DOMAIN scopes'[s].namespace,
                      scopes'[s].namespace[i].type = "internal"
               PROVE  nodes[scopes'[s].namespace[i].body].type = "ARGS"
    BY DEF BodiesArgs
  <2>1. s \in DOMAIN scopes /\ e.body = body
    BY <1>1 DEF AddEntry, InternalEntry
  <2> HIDE DEF e
  <2>2. scopes[s] \in ScopeRecord
    BY <1>4, <2>1
  <2>3. CASE s = f.scope
    <3>1. scopes'[s].namespace = Append(scopes[s].namespace, e)
      BY <1>1, <1>3, <1>4, <2>2, <2>3 DEF AddEntry, ScopeRecord
    <3>2. scopes[s].namespace \in Seq(EntryType)
      BY <2>2 DEF ScopeRecord
    <3>3. \/ i = Len(scopes[s].namespace) + 1 /\ scopes'[s].namespace[i] = e
          \/ i \in DOMAIN scopes[s].namespace /\ scopes'[s].namespace[i] = scopes[s].namespace[i]
      BY <3>1, <3>2
    <3> QED
      BY <1>4, <1>5, <2>1, <3>3 DEF BodiesArgs
  <2>4. CASE s # f.scope
    <3>1. scopes'[s] = scopes[s]
      BY <1>1, <1>4, <2>1, <2>4 DEF AddEntry
    <3> QED
      BY <1>4, <2>1, <3>1 DEF BodiesArgs
  <2> QED
    BY <2>3, <2>4
<1>7. <<>> \in Seq(FrameRecord) /\ DOMAIN <<>> = {}
  OBVIOUS
<1> QED
  BY <1>1, <1>2, <1>6, <1>7, ResolvedSilent DEF PendingOps

\* Frames of one operation
LoopOf(op, s) == s \in Seq(FrameRecord) /\ \A k \in DOMAIN s : s[k].op = op

\* The frames of a loop of resolve_symbols or resolve_calls
LEMMA LoopFrames ==
  ASSUME EvalInv, NEW node \in DOMAIN nodes, NEW scope \in Nat, NEW op \in {"resolve_symbols", "resolve_calls"}
  PROVE  LoopOf(op, ForEachChild(op, scope, node))
<1> DEFINE n == Len(nodes[node].childs)
           s == ForEachChild(op, scope, node)
<1>1. /\ n \in Nat /\ DOMAIN nodes[node].childs = 1..n /\ DOMAIN nodes \subseteq Nat
      /\ \A k \in 1..n : nodes[node].childs[k] \in DOMAIN nodes
  BY ScopeFacts, LinkedFacts
<1>2. \A k \in 1..n : /\ Frame(op, scope, nodes[node].childs[k]) \in FrameRecord
                      /\ Frame(op, scope, nodes[node].childs[k]).op = op
  BY <1>1 DEF Frame, FrameRecord, FrameOps
<1>3. s = [k \in 1..n |-> Frame(op, scope, nodes[node].childs[k])]
  BY <1>1 DEF ForEachChild, NthChild
<1> HIDE DEF n, s
<1> QED
  BY <1>1, <1>2, <1>3 DEF s, LoopOf

\* resolve_symbols of a call
LEMMA ResolvedSymbolsOfCall ==
  ASSUME EvalInv, Resolved, ResolveSymbolsOfCall PROVE Resolved' /\ FreshTargets
<1> DEFINE f == agenda[1]
           s == ForEachChild("resolve_symbols", Len(scopes) + 1, f.node)
<1>1. /\ At("resolve_symbols") /\ scopes' = AddScopeChild(scopes, f.scope, f.node)
      /\ Continue(s) /\ UNCHANGED <<nodes, boundIn>>
  BY DEF ResolveSymbolsOfCall, Head1
<1>2. /\ agenda # <<>> /\ f.op = "resolve_symbols" /\ FrameInv(f, nodes, scopes)
      /\ f.node \in DOMAIN nodes /\ f.node \in Nat
  BY <1>1, AtFacts
<1>3. f.scope \in DOMAIN scopes
  BY <1>2, ScopeOfFrame
<1>4. scopes \in Seq(ScopeRecord) /\ Len(scopes) \in Nat /\ BodiesArgs(nodes, scopes)
  BY ScopeFacts DEF Resolved, ResolvedInv
<1>5. BodiesArgs(nodes, scopes')
  <2> DEFINE ts == AddScopeChild(scopes, f.scope, f.node)
             n == Len(scopes)
  <2>1. /\ ts \in Seq(ScopeRecord) /\ Len(ts) = n + 1
        /\ ts[n + 1] = NewScope(f.node, f.scope)
        /\ \A t \in 1..n : /\ ts[t].father = scopes[t].father
                           /\ ts[t].node = scopes[t].node
                           /\ ts[t].namespace = scopes[t].namespace
                           /\ ts[t].childs = IF t = f.scope THEN Append(scopes[t].childs, n + 1)
                                                            ELSE scopes[t].childs
    BY <1>2, <1>3, <1>4, AddedScope
  <2> HIDE DEF ts
  <2>2. DOMAIN ts = 1..(n + 1) /\ DOMAIN scopes = 1..n
    BY <1>4, <2>1
  <2>3. DOMAIN ts[n + 1].namespace = {}
    BY <2>1 DEF NewScope
  <2>4. BodiesArgs(nodes, ts)
    <3> SUFFICES ASSUME NEW t \in DOMAIN ts, NEW i \in DOMAIN ts[t].namespace,
                        ts[t].namespace[i].type = "internal"
                 PROVE  nodes[ts[t].namespace[i].body].type = "ARGS"
      BY DEF BodiesArgs
    <3>1. t \in DOMAIN scopes /\ ts[t].namespace = scopes[t].namespace
      BY <1>4, <2>1, <2>2, <2>3
    <3> QED
      BY <1>4, <3>1 DEF BodiesArgs
  <2> QED
    BY <1>1, <2>4 DEF ts
<1>6. s \in Seq(FrameRecord) /\ \A k \in DOMAIN s : s[k].op = "resolve_symbols"
  <2>1. Len(scopes) + 1 \in Nat
    BY <1>4
  <2>2. LoopOf("resolve_symbols", s)
    BY <1>2, <2>1, LoopFrames
  <2> QED
    BY <2>2 DEF LoopOf
<1> HIDE DEF s
<1> QED
  BY <1>1, <1>2, <1>5, <1>6, ResolvedSilent DEF PendingOps

\* resolve_symbols of another node
LEMMA ResolvedSymbolsBelow ==
  ASSUME EvalInv, Resolved, ResolveSymbolsBelow PROVE Resolved' /\ FreshTargets
<1> DEFINE f == agenda[1]
           s == ForEachChild("resolve_symbols", f.scope, f.node)
<1>1. /\ At("resolve_symbols") /\ Continue(s) /\ UNCHANGED <<nodes, scopes, boundIn>>
  BY DEF ResolveSymbolsBelow, Head1
<1>2. /\ agenda # <<>> /\ f.op = "resolve_symbols" /\ f.node \in DOMAIN nodes /\ f.scope \in Nat
  BY <1>1, AtFacts
<1>3. s \in Seq(FrameRecord) /\ \A k \in DOMAIN s : s[k].op = "resolve_symbols"
  <2>1. LoopOf("resolve_symbols", s)
    BY <1>2, LoopFrames
  <2> QED
    BY <2>1 DEF LoopOf
<1>4. BodiesArgs(nodes, scopes')
  BY <1>1 DEF Resolved, ResolvedInv
<1> HIDE DEF s
<1> QED
  BY <1>1, <1>2, <1>3, <1>4, ResolvedSilent DEF PendingOps

\* A step of resolve_calls that leaves the nodes alone; N is {} or the node itself
LEMMA ResolvedHere ==
  ASSUME EvalInv, Resolved, At("resolve_calls"), NEW frames \in Seq(FrameRecord), Continue(frames),
         UNCHANGED <<nodes, scopes, boundIn>>, NEW N, N \subseteq DOMAIN nodes,
         Advances(nodes, nodes, DOMAIN boundIn, agenda, frames, N, frames \o Tail(agenda))
  PROVE  Resolved' /\ FreshTargets
<1> DEFINE bs == DOMAIN boundIn
           new == frames \o Tail(agenda)
<1>1. /\ agenda' = new /\ nodes' = nodes /\ scopes' = scopes /\ boundIn' = boundIn
  BY DEF Continue
<1>2. Linked(nodes) /\ AgendaInv(nodes, scopes, agenda) /\ ResolvedInv(nodes, scopes, bs, agenda)
  BY ScopeFacts DEF EvalInv, Resolved
<1>3. ArgsSecond(nodes) /\ BodiesArgs(nodes, scopes) /\ Evolves(nodes, nodes, bs, bs)
  BY <1>2, EvolvesSame DEF ResolvedInv
<1>4. agenda # <<>> /\ agenda[1].op # "copy"
  BY AtFacts
<1>5. Advances(nodes, nodes, bs, agenda, frames, N, new)
  OBVIOUS
<1> HIDE DEF bs, new
<1>6. ResolvedInv(nodes, scopes, bs, new) /\ Targets(new) = {}
  <2>1. new = frames \o Tail(agenda)
    BY DEF new
  <2> QED
    BY <1>2, <1>3, <1>4, <1>5, <2>1, ResolvedStep
<1> QED
  BY <1>1, <1>6 DEF Resolved, FreshTargets, bs

\* resolve_calls of a node that is no call
LEMMA ResolvedCallsBelow ==
  ASSUME EvalInv, Resolved, ResolveCallsBelow PROVE Resolved' /\ FreshTargets
<1> DEFINE f == agenda[1]
           s == IF Type(f.node) \in {"ARGS", "PROGRAM"}
                THEN ForEachChild("resolve_calls", f.scope, f.node) ELSE <<>>
           N == {f.node}
           new == s \o Tail(agenda)
           bs == DOMAIN boundIn
<1>1. /\ At("resolve_calls") /\ Type(f.node) # "CALL" /\ Continue(s)
      /\ UNCHANGED <<nodes, scopes, boundIn>>
  BY DEF ResolveCallsBelow, Head1
<1>2. /\ agenda # <<>> /\ f.op = "resolve_calls" /\ f.node \in DOMAIN nodes /\ f.scope \in Nat
  BY <1>1, AtFacts
<1>3. s \in Seq(FrameRecord) /\ \A k \in DOMAIN s : s[k].op = "resolve_calls"
  <2>1. CASE Type(f.node) \in {"ARGS", "PROGRAM"}
    <3>1. s = ForEachChild("resolve_calls", f.scope, f.node)
      BY <2>1
    <3> HIDE DEF s
    <3>2. LoopOf("resolve_calls", s)
      BY <1>2, <3>1, LoopFrames
    <3> QED
      BY <3>2 DEF LoopOf
  <2>2. CASE Type(f.node) \notin {"ARGS", "PROGRAM"}
    <3>1. s = <<>>
      BY <2>2
    <3> HIDE DEF s
    <3> QED
      BY <3>1
  <2> QED
    BY <2>1, <2>2
<1>4. Closed(nodes, bs, f.node, N \union Todo(s))
  <2>1. CASE Type(f.node) \in {"ARGS", "PROGRAM"}
    <3>1. s = ForEachChild("resolve_calls", f.scope, f.node)
      BY <2>1
    <3> HIDE DEF s
    <3>2. \A k \in DOMAIN nodes[f.node].childs : nodes[f.node].childs[k] \in Todo(s)
      BY <1>2, <1>3, <3>1, ScopeFacts, TodoChilds
    <3> QED
      BY <1>1, <3>2 DEF Closed, Type
  <2>2. CASE Type(f.node) \notin {"ARGS", "PROGRAM"}
    BY <1>1, <2>2 DEF Closed, Type
  <2> QED
    BY <2>1, <2>2
<1> HIDE DEF s, new, bs
<1>5. Advances(nodes, nodes, bs, agenda, s, N, new)
  BY <1>2, <1>3, <1>4 DEF Advances
<1> QED
  BY <1>1, <1>2, <1>3, <1>5, ResolvedHere DEF new, bs

\* resolve_calls of a call by name
LEMMA ResolvedByName ==
  ASSUME EvalInv, Resolved, CallByName PROVE Resolved' /\ FreshTargets
<1> DEFINE f == agenda[1]
           b == Frame("bind", CallScope(f), f.node)
           s == <<b>>
           new == s \o Tail(agenda)
           bs == DOMAIN boundIn
<1>1. /\ At("resolve_calls") /\ Type(f.node) = "CALL" /\ Continue(s)
      /\ UNCHANGED <<nodes, scopes, boundIn>>
  BY DEF CallByName, AtCall, Head1
<1>2. /\ agenda # <<>> /\ f.op = "resolve_calls" /\ FrameInv(f, nodes, scopes)
      /\ f.node \in DOMAIN nodes /\ f.node \in Nat
  BY <1>1, AtFacts
<1>3. f.scope \in DOMAIN scopes
  BY <1>2, ScopeOfFrame
<1>4. CallScope(f) \in Nat
  BY <1>3, CallScopeFacts
<1>5. b \in FrameRecord /\ b.op = "bind" /\ b.node = f.node
  BY <1>2, <1>4 DEF Frame, FrameRecord, FrameOps
<1> HIDE DEF b
<1>6. s \in Seq(FrameRecord) /\ DOMAIN s = {1} /\ s[1] = b
  BY <1>5
<1>7. f.node \in Todo(s)
  BY <1>5, TodoOne DEF PendingOps
<1> HIDE DEF s, new, bs
<1>8. Advances(nodes, nodes, bs, agenda, s, {}, new)
  BY <1>1, <1>2, <1>5, <1>6, <1>7 DEF Advances, Type
<1> QED
  BY <1>1, <1>6, <1>8, ResolvedHere DEF new, bs

\* A tree that is resolved first may be written after
LEMMA WaitedCover ==
  ASSUME NEW ns, NEW bs, NEW ag, NEW k, ag[k].node \in Pending(ag, k)
  PROVE  Covered(ns, bs, ag, k)
<1>1. Cover(ns, bs, ag, k, {})
  BY DEF Cover
<1> QED
  BY <1>1 DEF Covered

\* The block that computes a name is a node
LEMMA NameBlockFacts ==
  ASSUME EvalInv, agenda # <<>>, agenda[1].op # "copy", Type(agenda[1].node) = "CALL",
         Type(CallSymbol(agenda[1])) = "SYMBOL", nodes[CallSymbol(agenda[1])].text = NoText
  PROVE  NameBlock(agenda[1]) \in DOMAIN nodes
<1> DEFINE id == CallSymbol(agenda[1])
<1>1. id \in DOMAIN nodes
  BY NameFacts
<1>2. Linked(nodes) /\ Complete(nodes, id)
  BY <1>1, HeadFacts, ScopeFacts
<1>3. Needed(nodes[id]) = 1
  BY DEF Needed, Type
<1> HIDE DEF id
<1>4. /\ Len(nodes[id].childs) \in Nat
      /\ \A k \in 1..Len(nodes[id].childs) : nodes[id].childs[k] \in DOMAIN nodes
  BY <1>1, <1>2, LinkedFacts
<1>5. 1 \in 1..Len(nodes[id].childs)
  BY <1>2, <1>3, <1>4 DEF Complete
<1> QED
  BY <1>4, <1>5 DEF NameBlock, NthChild, id

\* resolve_calls of a call by computed name
LEMMA ResolvedByComputedName ==
  ASSUME EvalInv, Resolved, CallByComputedName PROVE Resolved' /\ FreshTargets
<1> DEFINE f == agenda[1]
           block == NameBlock(f)
           f1 == Frame("resolve_calls", CallScope(f), block)
           f2 == Frame("do_calls", 0, block)
           f3 == [Frame("bind", CallScope(f), f.node) EXCEPT !.arg = Capacity(Len(scopes))]
           s == <<f1, f2, f3>>
           new == s \o Tail(agenda)
           bs == DOMAIN boundIn
<1>1. /\ At("resolve_calls") /\ Type(f.node) = "CALL" /\ Type(CallSymbol(f)) = "SYMBOL"
      /\ nodes[CallSymbol(f)].text = NoText
      /\ Continue(s) /\ UNCHANGED <<nodes, scopes, boundIn>>
  BY DEF CallByComputedName, AtComputedName, AtCall, Head1
<1>2. /\ agenda # <<>> /\ f.op = "resolve_calls" /\ f.op # "copy" /\ FrameInv(f, nodes, scopes)
      /\ f.node \in DOMAIN nodes /\ f.node \in Nat
  BY <1>1, AtFacts
<1>3. f.scope \in DOMAIN scopes /\ Len(scopes) \in Nat /\ DOMAIN nodes \subseteq Nat
  BY <1>2, ScopeOfFrame, ScopeFacts
<1>4. CallScope(f) \in Nat /\ Capacity(Len(scopes)) \in Nat
  BY <1>3, CallScopeFacts, CapacityFacts
<1>5. block \in Nat
  BY <1>1, <1>2, <1>3, NameBlockFacts
<1>6. /\ f1 \in FrameRecord /\ f1.op = "resolve_calls" /\ f1.node = block
      /\ f2 \in FrameRecord /\ f2.op = "do_calls" /\ f2.node = block
      /\ f3 \in FrameRecord /\ f3.op = "bind" /\ f3.node = f.node
  BY <1>2, <1>4, <1>5 DEF Frame, FrameRecord, FrameOps, Flags
<1> HIDE DEF f1, f2, f3, block
<1>7. s \in Seq(FrameRecord) /\ DOMAIN s = {1, 2, 3} /\ s[1] = f1 /\ s[2] = f2 /\ s[3] = f3
  BY <1>6
<1> HIDE DEF s
<1>8. f.node \in Todo(s)
  BY <1>6, <1>7, TodoFrame DEF PendingOps
<1>9. Covered(nodes, bs, new, 2)
  <2>1. agenda \in Seq(FrameRecord)
    BY DEF EvalInv, AgendaInv
  <2>2. new = s \o Tail(agenda)
    OBVIOUS
  <2> HIDE DEF new
  <2>3. \A k \in DOMAIN s : k \in DOMAIN new /\ new[k] = s[k]
    <3>1. s \in Seq(FrameRecord) /\ agenda # <<>>
      BY <1>2, <1>7
    <3> QED
      BY <2>1, <2>2, <3>1, ContinuedFrames
  <2>4. 1 \in DOMAIN new /\ new[1] = f1 /\ new[2] = f2
    BY <1>7, <2>3
  <2>5. new[2].node = new[1].node /\ new[1].op \in PendingOps
    BY <1>6, <2>4 DEF PendingOps
  <2>6. new[2].node \in Pending(new, 2)
    BY <2>4, <2>5 DEF Pending
  <2> QED
    BY <2>6, WaitedCover
<1> HIDE DEF new, bs
<1>10. Advances(nodes, nodes, bs, agenda, s, {}, new)
  BY <1>1, <1>2, <1>6, <1>7, <1>8, <1>9 DEF Advances, Type
<1> QED
  BY <1>1, <1>7, <1>10, ResolvedHere DEF new, bs

\* No node changes its children, but p, which may get c, and new nodes are empty ARGS
Widened(ns, ms, p, c) ==
  /\ Retyped(ns, ms) /\ DOMAIN ns \subseteq DOMAIN ms
  /\ \A id \in DOMAIN ns : id # p => ms[id].childs = ns[id].childs
  /\ \/ ms[p].childs = ns[p].childs
     \/ ms[p].childs = Append(ns[p].childs, c) /\ ms[c].type = "ARGS"
  /\ \A id \in DOMAIN ms \ DOMAIN ns : ms[id].type = "ARGS" /\ ms[id].childs = <<>>

\* The k-th child of a node that may get one
WidenedAt(ns, ms, p, c, k) ==
  \/ k \in DOMAIN ns[p].childs /\ ms[p].childs[k] = ns[p].childs[k]
  \/ ms[p].childs[k] = c /\ ms[c].type = "ARGS" /\ ms[p].childs # ns[p].childs

\* A child is an old one, or the ARGS that came last
LEMMA WidenedChild ==
  ASSUME NEW ns, NEW ms, NEW p \in DOMAIN ns, NEW c, Linked(ns), Widened(ns, ms, p, c),
         NEW k \in DOMAIN ms[p].childs
  PROVE  WidenedAt(ns, ms, p, c, k)
<1>1. ns[p].childs \in Seq(Nat)
  BY LinkedFacts
<1>2. CASE ms[p].childs = ns[p].childs
  BY <1>2 DEF WidenedAt
<1>3. CASE ms[p].childs = Append(ns[p].childs, c) /\ ms[c].type = "ARGS"
  <2> DEFINE s == ns[p].childs
             l == Len(s)
             t == ms[p].childs
  <2>1. l \in Nat /\ l = Len(s) /\ DOMAIN s = 1..l /\ s \in Seq(Nat) /\ t = Append(s, c)
    BY <1>1, <1>3
  <2> HIDE DEF s, t, l
  <2>2. /\ DOMAIN t = 1..(l + 1) /\ t[l + 1] = c /\ \A i \in 1..l : t[i] = s[i]
        /\ Len(t) = l + 1
    BY <2>1
  <2>3. t # s
    <3>1. Len(t) # l
      BY <2>1, <2>2
    <3> QED
      BY <2>1, <3>1
  <2>4. k \in DOMAIN t
    BY DEF t
  <2>5. (k \in DOMAIN s /\ t[k] = s[k]) \/ t[k] = c
    BY <2>1, <2>2, <2>4
  <2> QED
    BY <1>3, <2>3, <2>5 DEF s, t, WidenedAt
<1> QED
  BY <1>2, <1>3 DEF Widened

\* The domain of the list of children
LEMMA WidenedSecond ==
  ASSUME NEW ns, NEW ms, NEW p \in DOMAIN ns, NEW c, Linked(ns), Widened(ns, ms, p, c),
         Len(ms[p].childs) >= 2
  PROVE  2 \in DOMAIN ms[p].childs
<1>1. ns[p].childs \in Seq(Nat)
  BY LinkedFacts
<1>2. CASE ms[p].childs = ns[p].childs
  BY <1>1, <1>2
<1>3. CASE ms[p].childs = Append(ns[p].childs, c)
  BY <1>1, <1>3
<1> QED
  BY <1>2, <1>3 DEF Widened

\* An ARGS at the end keeps every ARGS of a call in the second place
LEMMA WidenedArgs ==
  ASSUME NEW ns, NEW ms, NEW p \in DOMAIN ns, NEW c, Linked(ns), Widened(ns, ms, p, c), ArgsSecond(ns)
  PROVE  ArgsSecond(ms)
<1>1. Retyped(ns, ms)
  BY DEF Widened
<1>2. ASSUME NEW id \in DOMAIN ms, ms[id].type \in Blocks, NEW k \in DOMAIN ms[id].childs, k >= 2
      PROVE  \/ ms[ms[id].childs[k]].type = "ARGS"
             \/ /\ id \in DOMAIN ns /\ k \in DOMAIN ns[id].childs
                /\ ms[id].childs[k] = ns[id].childs[k]
  <2>1. id \in DOMAIN ns
    BY <1>2 DEF Widened, Blocks
  <2>2. CASE id = p
    <3>1. WidenedAt(ns, ms, p, c, k)
      BY <2>2, WidenedChild
    <3> QED
      BY <2>1, <2>2, <3>1 DEF WidenedAt
  <2>3. CASE id # p
    BY <2>1, <2>3 DEF Widened
  <2> QED
    BY <2>2, <2>3
<1> QED
  BY <1>1, <1>2, ArgsSecondKept

\* A call that is bound, the rest of it being left to resolve_calls
LEMMA ResolvedBound ==
  ASSUME EvalInv, Resolved, At("bind"), Bound(agenda[1]),
         NEW c, Widened(nodes, nodes', agenda[1].node, c),
         NEW frames \in Seq(FrameRecord), Continue(frames),
         \A k \in DOMAIN frames : frames[k].op \in {"resolve_symbols", "resolve_calls"},
         \A k \in DOMAIN nodes[agenda[1].node].childs : nodes[agenda[1].node].childs[k] \in Todo(frames),
         \/ nodes'[agenda[1].node].childs = nodes[agenda[1].node].childs
         \/ c \in Todo(frames) \/ c \in DOMAIN nodes' \ DOMAIN nodes
  PROVE  Resolved' /\ FreshTargets
<1> DEFINE n == agenda[1].node
           ms == nodes'
           bs == DOMAIN boundIn
           cs == DOMAIN boundIn'
           new == frames \o Tail(agenda)
           N == {n} \union (DOMAIN ms \ DOMAIN nodes)
           T == N \union Todo(frames)
<1>1. /\ agenda # <<>> /\ agenda[1].op = "bind" /\ n \in DOMAIN nodes
  BY AtFacts
<1>2. /\ Linked(nodes) /\ AgendaInv(nodes, scopes, agenda) /\ ResolvedInv(nodes, scopes, bs, agenda)
      /\ TypedScopes(scopes, Len(nodes)) /\ agenda \in Seq(FrameRecord)
  BY ScopeFacts DEF EvalInv, Resolved, AgendaInv
<1>3. cs = bs \union {n} /\ scopes' = scopes
  BY DEF Bound
<1>4. /\ Retyped(nodes, ms) /\ DOMAIN nodes \subseteq DOMAIN ms /\ Evolves(nodes, ms, bs, cs)
  <2>1. bs \subseteq cs
    BY <1>3
  <2> HIDE DEF n, bs, cs, new, N
  <2>2. Retyped(nodes, ms) /\ DOMAIN nodes \subseteq DOMAIN ms
    BY DEF Widened
  <2> HIDE DEF ms
  <2> QED
    BY <2>1, <2>2 DEF Evolves
<1>5. ArgsSecond(ms)
  BY <1>1, <1>2, WidenedArgs DEF ResolvedInv
<1>6. BodiesArgs(ms, scopes)
  BY <1>2, <1>4, BodiesArgsKept DEF ResolvedInv
<1>7. ms[n].type = "CALL"
  <2>1. 1 \in DOMAIN agenda
    BY <1>1, <1>2
  <2>2. nodes[n].type = "CALL"
    BY <1>1, <1>2, <2>1 DEF ResolvedInv, BindsCalls
  <2> QED
    BY <1>1, <1>4, <2>2 DEF Retyped, NameTypes
<1>8. Closed(ms, cs, n, T)
  <2>1. ASSUME NEW k \in DOMAIN ms[n].childs
        PROVE  ms[n].childs[k] \in T
    <3>1. WidenedAt(nodes, ms, n, c, k)
      BY <1>1, <1>2, WidenedChild
    <3> QED
      BY <3>1 DEF WidenedAt
  <2>2. Len(ms[n].childs) >= 2 => 2 \in DOMAIN ms[n].childs
    BY <1>1, <1>2, WidenedSecond
  <2> QED
    BY <1>3, <1>7, <2>1, <2>2 DEF Closed
<1>9. ASSUME NEW id \in N
      PROVE  Closed(ms, cs, id, T)
  <2>1. CASE id \in DOMAIN ms \ DOMAIN nodes
    <3>1. ms[id].type = "ARGS" /\ ms[id].childs = <<>>
      BY <2>1 DEF Widened
    <3>2. DOMAIN ms[id].childs = {}
      BY <3>1
    <3> HIDE DEF ms, cs, T
    <3> QED
      BY <3>1, <3>2 DEF Closed
  <2> QED
    BY <1>8, <2>1
<1>10. \A id \in DOMAIN nodes : id \in N \/ ms[id].childs = nodes[id].childs
  BY DEF Widened
<1>11. N \subseteq DOMAIN ms
  BY <1>1, <1>4
<1> HIDE DEF new
<1>12. Advances(nodes, ms, cs, agenda, frames, N, new)
  BY <1>9, <1>10, <1>11 DEF Advances
<1> HIDE DEF n, ms, bs, cs, N
<1>13. ResolvedInv(ms, scopes, cs, new) /\ Targets(new) = {}
  <2>1. new = frames \o Tail(agenda) /\ agenda[1].op # "copy"
    BY <1>1 DEF new
  <2> QED
    BY <1>1, <1>2, <1>4, <1>5, <1>6, <1>12, <2>1, ResolvedStep
<1>14. agenda' = new
  BY DEF Continue, new
<1> QED
  BY <1>3, <1>13, <1>14 DEF Resolved, FreshTargets, ms, cs

\* resolve_calls_descent
LEMMA DescentFrames ==
  ASSUME EvalInv, At("bind")
  PROVE  /\ Descent(agenda[1]) \in Seq(FrameRecord)
         /\ \A k \in DOMAIN Descent(agenda[1]) : Descent(agenda[1])[k].op = "resolve_calls"
         /\ \A k \in DOMAIN nodes[agenda[1].node].childs :
              nodes[agenda[1].node].childs[k] \in Todo(Descent(agenda[1]))
<1> DEFINE f == agenda[1]
           s == ForEachChild("resolve_calls", f.scope, f.node)
<1>1. f.node \in DOMAIN nodes /\ f.scope \in Nat
  BY AtFacts
<1>2. s \in Seq(FrameRecord) /\ \A k \in DOMAIN s : s[k].op = "resolve_calls"
  <2>1. LoopOf("resolve_calls", s)
    BY <1>1, LoopFrames
  <2> QED
    BY <2>1 DEF LoopOf
<1>3. Linked(nodes) /\ Descent(f) = s
  BY ScopeFacts DEF Descent
<1>4. \A k \in DOMAIN nodes[f.node].childs : nodes[f.node].childs[k] \in Todo(s)
  <2>1. s = ForEachChild("resolve_calls", f.scope, f.node)
    OBVIOUS
  <2> HIDE DEF s
  <2> QED
    BY <1>1, <1>2, <1>3, <2>1, TodoChilds
<1> HIDE DEF s
<1> QED
  BY <1>2, <1>3, <1>4

\* A definition called without arguments
LEMMA ResolvedShare ==
  ASSUME EvalInv, Resolved, BindShare PROVE Resolved' /\ FreshTargets
<1> DEFINE f == agenda[1]
           body == Meaning(f).body
           f1 == Frame("resolve_symbols", f.scope, body)
           d  == Descent(f)
           f2 == Frame("resolve_calls", f.scope, body)
           s  == <<f1>> \o d \o <<f2>>
<1>1. /\ At("bind") /\ Meaning(f).type = "internal"
      /\ nodes' = AddChild(nodes, f.node, body)
      /\ Continue(s) /\ Bound(f)
  BY DEF BindShare, Head1
<1>2. Linked(nodes) /\ NamesClean(nodes) /\ DOMAIN nodes \subseteq Nat
  BY ScopeFacts
<1>3. f.node \in DOMAIN nodes /\ f.scope \in DOMAIN scopes
  BY <1>1, BindNode
<1>4. body \in DOMAIN nodes
  BY <1>1, <1>3, Found DEF Meaning
<1>5. nodes[body].type = "ARGS"
  <2>1. BodiesArgs(nodes, scopes)
    BY DEF Resolved, ResolvedInv
  <2> QED
    BY <1>1, <1>3, <2>1, FoundArgs DEF Meaning
<1>6. f.scope \in Nat
  BY <1>1, AtFacts
<1> HIDE DEF body
<1>7. Widened(nodes, nodes', f.node, body)
  <2>1. AddedChild(nodes, AddChild(nodes, f.node, body), f.node, body)
    BY <1>2, <1>3, <1>4, AddChildKept
  <2>2. AddedChild(nodes, nodes', f.node, body)
    BY <1>1, <2>1
  <2>3. DOMAIN nodes' = DOMAIN nodes
    BY <1>2, <2>2 DEF AddedChild, Linked
  <2> QED
    BY <1>4, <1>5, <2>2, <2>3 DEF AddedChild, Widened, Retyped
<1>8. /\ f1 \in FrameRecord /\ f1.op = "resolve_symbols"
      /\ f2 \in FrameRecord /\ f2.op = "resolve_calls" /\ f2.node = body
  BY <1>2, <1>4, <1>6 DEF Frame, FrameRecord, FrameOps
<1>9. /\ d \in Seq(FrameRecord) /\ \A k \in DOMAIN d : d[k].op = "resolve_calls"
      /\ \A k \in DOMAIN nodes[f.node].childs : nodes[f.node].childs[k] \in Todo(d)
  BY <1>1, DescentFrames
<1> HIDE DEF f1, d, f2
<1> DEFINE t == <<f1>> \o d
<1>10. <<f1>> \in Seq(FrameRecord) /\ <<f2>> \in Seq(FrameRecord) /\ t \in Seq(FrameRecord)
  BY <1>8, <1>9
<1>11. \A k \in DOMAIN nodes[f.node].childs : nodes[f.node].childs[k] \in Todo(t)
  BY <1>9, <1>10, TodoConcat
<1>12. \A k \in DOMAIN t : t[k].op \in {"resolve_symbols", "resolve_calls"}
  BY <1>8, <1>9, <1>10
<1> HIDE DEF t
<1>13. s = t \o <<f2>>
  BY DEF t
<1> HIDE DEF s
<1>14. s \in Seq(FrameRecord) /\ \A k \in DOMAIN s : s[k].op \in {"resolve_symbols", "resolve_calls"}
  BY <1>8, <1>10, <1>12, <1>13
<1>15. \A k \in DOMAIN nodes[f.node].childs : nodes[f.node].childs[k] \in Todo(s)
  BY <1>10, <1>11, <1>13, TodoConcat
<1>16. body \in Todo(s)
  <2>1. body \in Todo(<<f2>>)
    BY <1>8, TodoOne DEF PendingOps
  <2> QED
    BY <1>10, <1>13, <2>1, TodoConcat
<1> QED
  BY <1>1, <1>7, <1>14, <1>15, <1>16, ResolvedBound

\* A call whose descent alone is left to do
LEMMA ResolvedDescent ==
  ASSUME EvalInv, Resolved, At("bind"), Bound(agenda[1]), Continue(Descent(agenda[1])),
         NEW c, Widened(nodes, nodes', agenda[1].node, c),
         \/ nodes'[agenda[1].node].childs = nodes[agenda[1].node].childs
         \/ c \in DOMAIN nodes' \ DOMAIN nodes
  PROVE  Resolved' /\ FreshTargets
<1> DEFINE s == Descent(agenda[1])
<1>1. /\ s \in Seq(FrameRecord) /\ \A k \in DOMAIN s : s[k].op = "resolve_calls"
      /\ \A k \in DOMAIN nodes[agenda[1].node].childs : nodes[agenda[1].node].childs[k] \in Todo(s)
  BY DescentFrames
<1>2. Continue(s)
  OBVIOUS
<1> HIDE DEF s
<1>3. \A k \in DOMAIN s : s[k].op \in {"resolve_symbols", "resolve_calls"}
  BY <1>1
<1> QED
  BY <1>1, <1>2, <1>3, ResolvedBound

\* A name that is marked changes no children
LEMMA MarkedWidened ==
  ASSUME EvalInv, At("bind"), NEW type \in {"FUNCTION", "UNDEFINED"},
         NEW ms, ms = SetType(nodes, CallSymbol(agenda[1]), type)
  PROVE  /\ Retyped(nodes, ms) /\ DOMAIN ms = DOMAIN nodes
         /\ \A id \in DOMAIN nodes : ms[id].childs = nodes[id].childs
<1> DEFINE id == CallSymbol(agenda[1])
<1>1. id \in DOMAIN nodes /\ nodes[id].type \in NameTypes
  BY BindNode
<1>2. Linked(nodes) /\ nodes \in Seq(NodeRecord)
  BY ScopeFacts DEF Linked
<1> HIDE DEF id
<1>3. ms = [nodes EXCEPT ![id].type = type]
  BY DEF SetType, id
<1>4. \A j \in DOMAIN nodes : nodes[j] \in NodeRecord
  BY <1>2
<1>5. /\ DOMAIN ms = DOMAIN nodes
      /\ \A j \in DOMAIN nodes : j # id => ms[j] = nodes[j]
      /\ ms[id] = [nodes[id] EXCEPT !.type = type]
  BY <1>1, <1>3
<1>6. ms[id].type = type /\ ms[id].childs = nodes[id].childs
  BY <1>1, <1>4, <1>5 DEF NodeRecord
<1>7. Retyped(nodes, ms)
  BY <1>1, <1>5, <1>6 DEF Retyped, NameTypes
<1> QED
  BY <1>5, <1>6, <1>7

\* A name that nothing defines
LEMMA ResolvedUndefined ==
  ASSUME EvalInv, Resolved, BindUndefined PROVE Resolved' /\ FreshTargets
<1>1. /\ At("bind") /\ Continue(Descent(agenda[1])) /\ Bound(agenda[1])
      /\ nodes' = SetType(nodes, CallSymbol(agenda[1]), "UNDEFINED")
  BY DEF BindUndefined, Head1
<1>2. /\ Retyped(nodes, nodes') /\ DOMAIN nodes' = DOMAIN nodes
      /\ \A id \in DOMAIN nodes : nodes'[id].childs = nodes[id].childs
  BY <1>1, MarkedWidened
<1>3. agenda[1].node \in DOMAIN nodes
  BY <1>1, BindNode
<1>4. Widened(nodes, nodes', agenda[1].node, 0)
  BY <1>2, <1>3 DEF Widened
<1>5. nodes'[agenda[1].node].childs = nodes[agenda[1].node].childs
  BY <1>2, <1>3
<1> QED
  BY <1>1, <1>4, <1>5, ResolvedDescent

\* An extern function
LEMMA ResolvedExtern ==
  ASSUME EvalInv, Resolved, BindExtern PROVE Resolved' /\ FreshTargets
<1> DEFINE f == agenda[1]
           ms == SetType(nodes, CallSymbol(f), "FUNCTION")
           ls == NewNode(ms, "ARGS", NoText)
           new == Len(nodes) + 1
<1>1. /\ At("bind") /\ Continue(Descent(f)) /\ Bound(f)
      /\ \/ nodes' = ms
         \/ nodes' = AddChild(ls, f.node, new)
  BY DEF BindExtern, Head1
<1>2. /\ Linked(ms) /\ NamesClean(ms) /\ Len(ms) = Len(nodes) /\ DOMAIN ms = DOMAIN nodes
  BY <1>1, Marked
<1>3. /\ Retyped(nodes, ms)
      /\ \A id \in DOMAIN nodes : ms[id].childs = nodes[id].childs
  BY <1>1, MarkedWidened
<1>4. f.node \in DOMAIN nodes /\ Linked(nodes) /\ Len(nodes) \in Nat /\ DOMAIN nodes = 1..Len(nodes)
  BY <1>1, BindNode, ScopeFacts
<1> HIDE DEF ms
<1>5. CASE nodes' = ms
  <2>1. Widened(nodes, nodes', f.node, 0)
    BY <1>2, <1>3, <1>4, <1>5 DEF Widened
  <2>2. nodes'[f.node].childs = nodes[f.node].childs
    BY <1>3, <1>4, <1>5
  <2> QED
    BY <1>1, <2>1, <2>2, ResolvedDescent
<1>6. CASE nodes' = AddChild(ls, f.node, new)
  <2>1. "ARGS" \in NodeTypes /\ "ARGS" \notin NameTypes /\ NoText \in Seq(Characters)
    BY DEF NodeTypes, NameTypes, NoText
  <2>2. /\ Linked(ls) /\ NamesClean(ls) /\ Len(ls) = Len(ms) + 1
        /\ \A id \in DOMAIN ms : ls[id] = ms[id]
        /\ ls[Len(ms) + 1] = [type |-> "ARGS", text |-> NoText, childs |-> <<>>]
    BY <1>2, <2>1, NewNodeKept
  <2>3. ls[new].type = "ARGS" /\ ls[new].childs = <<>> /\ Len(ls) = new
    BY <1>2, <2>2
  <2> HIDE DEF ls
  <2>4. DOMAIN ls = 1..new /\ new \in DOMAIN ls /\ f.node \in DOMAIN ls /\ new # f.node
        /\ new \notin DOMAIN nodes /\ DOMAIN ls = DOMAIN nodes \union {new}
    <3>1. DOMAIN ls = 1..Len(ls)
      BY <2>2 DEF Linked
    <3> QED
      BY <1>4, <2>3, <3>1
  <2> HIDE DEF new
  <2>5. AddedChild(ls, nodes', f.node, new)
    BY <1>6, <2>2, <2>4, AddChildKept
  <2>6. DOMAIN nodes' = DOMAIN ls
    BY <2>2, <2>5 DEF AddedChild, Linked
  <2>7. /\ \A id \in DOMAIN ls : nodes'[id].type = ls[id].type
        /\ nodes'[f.node].childs = Append(ls[f.node].childs, new)
        /\ \A id \in DOMAIN ls : id # f.node => nodes'[id] = ls[id]
    BY <2>5 DEF AddedChild
  <2>8. Retyped(nodes, nodes')
    BY <1>2, <1>3, <2>2, <2>4, <2>7 DEF Retyped
  <2>9. \A id \in DOMAIN nodes : id # f.node => nodes'[id].childs = nodes[id].childs
    BY <1>2, <1>3, <2>2, <2>4, <2>7
  <2>10. nodes'[f.node].childs = Append(nodes[f.node].childs, new) /\ nodes'[new].type = "ARGS"
         /\ nodes'[new].childs = <<>>
    BY <1>2, <1>3, <1>4, <2>2, <2>3, <2>4, <2>7
  <2>11. Widened(nodes, nodes', f.node, new)
    BY <2>4, <2>6, <2>8, <2>9, <2>10 DEF Widened
  <2>12. new \in DOMAIN nodes' \ DOMAIN nodes
    BY <2>4, <2>6
  <2> QED
    BY <1>1, <2>11, <2>12, ResolvedDescent
<1> QED
  BY <1>1, <1>5, <1>6

\* What a copy that starts leaves to do
CopyAhead(ns, ag, copy, inst, new) ==
  /\ 1 \in DOMAIN new /\ new[1] = copy /\ 2 \in DOMAIN new /\ new[2] = inst /\ DOMAIN new \subseteq Nat \ {0}
  /\ \A k \in DOMAIN new : \/ k \in {1, 2}
                           \/ \E j \in DOMAIN ag \ {1} : /\ new[k] = ag[j]
                                                         /\ ag[j].op \notin {"copy", "instantiate"}

\* A copy that starts puts the copy and its instantiate before what was there
LEMMA CopyAheadFacts ==
  ASSUME NEW ns, NEW ss, NEW bs, NEW ag, AgendaInv(ns, ss, ag), Linked(ns), InstantiateInv(ns, bs, ag),
         ag # <<>>, ag[1].op # "copy", NEW copy \in FrameRecord, NEW inst \in FrameRecord,
         NEW new, new = <<copy, inst>> \o Tail(ag)
  PROVE  CopyAhead(ns, ag, copy, inst, new)
<1> DEFINE s == <<copy, inst>>
<1>1. s \in Seq(FrameRecord) /\ DOMAIN s = {1, 2} /\ s[1] = copy /\ s[2] = inst /\ Len(s) = 2
  OBVIOUS
<1>2. ag \in Seq(FrameRecord) /\ new = s \o Tail(ag)
  BY DEF AgendaInv
<1> HIDE DEF s
<1>3. /\ new \in Seq(FrameRecord)
      /\ \A k \in DOMAIN new :
           \/ k \in DOMAIN s /\ new[k] = s[k]
           \/ /\ k > Len(s) /\ (k - Len(s)) + 1 \in DOMAIN ag \ {1}
              /\ new[k] = ag[(k - Len(s)) + 1]
      /\ \A k \in DOMAIN s : k \in DOMAIN new /\ new[k] = s[k]
  BY <1>1, <1>2, Continued
<1>4. \A j \in DOMAIN ag \ {1} : ag[j].op \notin {"copy", "instantiate"}
  BY QuietTail
<1>5. 1 \in DOMAIN new /\ new[1] = copy /\ 2 \in DOMAIN new /\ new[2] = inst
  BY <1>1, <1>3
<1>6. DOMAIN new \subseteq Nat \ {0}
  BY <1>3
<1>7. ASSUME NEW k \in DOMAIN new, k \notin {1, 2}
      PROVE  \E j \in DOMAIN ag \ {1} : /\ new[k] = ag[j]
                                        /\ ag[j].op \notin {"copy", "instantiate"}
  <2>1. (k - Len(s)) + 1 \in DOMAIN ag \ {1} /\ new[k] = ag[(k - Len(s)) + 1]
    BY <1>1, <1>3, <1>7
  <2> QED
    BY <1>4, <2>1
<1> QED
  BY <1>5, <1>6, <1>7 DEF CopyAhead

\* A definition called with arguments: the call is bound, and what is written still covered
LEMMA ResolvedBindCopy ==
  ASSUME EvalInv, Resolved, BindCopy PROVE Resolved' /\ FreshTargets
<1> DEFINE f == agenda[1]
           body == Meaning(f).body
           new0 == Len(nodes) + 1
           copy == Frame("copy", 0, body)
           inst == [Frame("instantiate", f.scope, f.node) EXCEPT !.arg = new0]
           s == <<copy, inst>>
           bs == DOMAIN boundIn
           cs == DOMAIN boundIn'
           new == s \o Tail(agenda)
<1>1. /\ At("bind") /\ Meaning(f).type = "internal"
      /\ Continue(s) /\ nodes' = nodes /\ Bound(f)
  BY DEF BindCopy, Head1
<1>2. /\ Linked(nodes) /\ AgendaInv(nodes, scopes, agenda) /\ agenda \in Seq(FrameRecord)
      /\ Len(nodes) \in Nat /\ DOMAIN nodes = 1..Len(nodes)
      /\ ArgsSecond(nodes) /\ BodiesArgs(nodes, scopes)
      /\ CopiesTyped(nodes, agenda) /\ BindsCalls(nodes, agenda) /\ InstantiateInv(nodes, bs, agenda)
      /\ CoverInv(nodes, bs, agenda)
  BY ScopeFacts DEF EvalInv, AgendaInv, Resolved, ResolvedInv
<1>3. /\ agenda # <<>> /\ f.op = "bind" /\ f.op # "copy" /\ f.node \in DOMAIN nodes
      /\ f.scope \in DOMAIN scopes /\ f.scope \in Nat
  BY <1>1, AtFacts, BindNode
<1>4. body \in DOMAIN nodes /\ nodes[body].type = "ARGS"
  BY <1>1, <1>2, <1>3, Found, FoundArgs DEF Meaning
<1> HIDE DEF body
<1>5. copy \in FrameRecord /\ copy.op = "copy" /\ copy.arg = 0 /\ copy.node = body
  BY <1>2, <1>4 DEF Frame, FrameRecord, FrameOps
<1>6. inst \in FrameRecord /\ inst.op = "instantiate" /\ inst.arg = new0 /\ inst.node = f.node
  <2>1. f.node \in Nat /\ new0 \in Nat /\ f.scope \in Nat
    BY <1>2, <1>3
  <2> HIDE DEF new0
  <2> QED
    BY <2>1 DEF Frame, FrameRecord, FrameOps
<1>7. 0 \notin DOMAIN nodes /\ new0 \notin DOMAIN nodes
  BY <1>2
<1> HIDE DEF copy, inst
<1>8. CopyAhead(nodes, agenda, copy, inst, new)
  BY <1>2, <1>3, <1>5, <1>6, CopyAheadFacts
<1>9. nodes[f.node].type = "CALL"
  BY <1>2, <1>3 DEF BindsCalls
<1>10. cs = bs \union {f.node} /\ scopes' = scopes
  BY <1>1 DEF Bound
<1>11. s \in Seq(FrameRecord) /\ DOMAIN s = {1, 2} /\ s[1] = copy /\ s[2] = inst /\ new = s \o Tail(agenda)
  BY <1>5, <1>6
<1> HIDE DEF s, new, bs, cs, new0
<1>12. CopiesTyped(nodes, new)
  <2> SUFFICES ASSUME NEW k \in DOMAIN new, new[k].op = "copy", new[k].arg \in DOMAIN nodes
               PROVE  FALSE
    BY DEF CopiesTyped
  <2> QED
    BY <1>5, <1>6, <1>7, <1>8 DEF CopyAhead
<1>13. BindsCalls(nodes, new)
  <2> SUFFICES ASSUME NEW k \in DOMAIN new, new[k].op \in {"bind", "instantiate"}
               PROVE  nodes[new[k].node].type = "CALL"
    BY DEF BindsCalls
  <2>1. CASE k \in {1, 2}
    BY <1>5, <1>6, <1>8, <1>9, <2>1 DEF CopyAhead
  <2>2. CASE k \notin {1, 2}
    BY <1>2, <1>8, <2>2 DEF CopyAhead, BindsCalls
  <2> QED
    BY <2>1, <2>2
<1>14. InstantiateInv(nodes, cs, new)
  <2> SUFFICES ASSUME NEW k \in DOMAIN new, new[k].op = "instantiate"
               PROVE  /\ \A j \in DOMAIN new : j < k => new[j].op = "copy"
                      /\ new[k].node \in cs
                      /\ /\ new[1].op = "copy" /\ new[1].arg = 0 /\ nodes[new[1].node].type = "ARGS"
                         /\ new[k].arg = Len(nodes) + 1
    BY DEF InstantiateInv
  <2>1. k = 2 /\ new[2] = inst /\ new[1] = copy
    BY <1>5, <1>8 DEF CopyAhead
  <2>2. \A j \in DOMAIN new : j < k => j = 1
    BY <1>8, <2>1 DEF CopyAhead
  <2> QED
    BY <1>4, <1>5, <1>6, <1>10, <2>1, <2>2 DEF new0
<1>15. \A id \in Targets(new) : id \notin DOMAIN nodes
  BY <1>5, <1>6, <1>7, <1>8 DEF CopyAhead, Targets
<1>16. f.node \in Todo(s)
  BY <1>6, <1>11, TodoFrame DEF PendingOps
<1>17. Resolves(nodes, nodes, cs, agenda, s, {}, new)
  BY <1>3, <1>5, <1>6, <1>11, <1>15, <1>16 DEF Resolves
<1>18. Evolves(nodes, nodes, bs, cs)
  BY <1>10 DEF Evolves, Retyped
<1>19. CoverInv(nodes, cs, new)
  BY <1>2, <1>3, <1>11, <1>17, <1>18, CoverStep
<1>20. agenda' = new
  BY <1>1, <1>11 DEF Continue
<1>21. Resolved'
  BY <1>1, <1>2, <1>10, <1>12, <1>13, <1>14, <1>19, <1>20 DEF Resolved, ResolvedInv, cs
<1> QED
  BY <1>15, <1>20, <1>21 DEF FreshTargets

\* Where a frame of the agenda comes from, when the first one has copied a node
Shifted(ag, frames, new) ==
  /\ \A k \in DOMAIN new :
       \/ k \in DOMAIN frames /\ new[k] = frames[k]
       \/ /\ k > Len(frames) /\ (k - Len(frames)) + 1 \in DOMAIN ag \ {1}
          /\ new[k] = ag[(k - Len(frames)) + 1]
  /\ \A k \in DOMAIN new : k \in Nat \ {0}
  /\ Len(frames) \in Nat /\ DOMAIN frames = 1..Len(frames) /\ DOMAIN ag \subseteq Nat \ {0} /\ 1 \in DOMAIN ag

\* The frames a copy leaves come first, the others follow in their order
LEMMA ShiftedFacts ==
  ASSUME NEW ag \in Seq(FrameRecord), ag # <<>>, NEW frames \in Seq(FrameRecord),
         NEW new, new = frames \o Tail(ag)
  PROVE  Shifted(ag, frames, new)
<1>1. /\ new \in Seq(FrameRecord)
      /\ \A k \in DOMAIN new :
           \/ k \in DOMAIN frames /\ new[k] = frames[k]
           \/ /\ k > Len(frames) /\ (k - Len(frames)) + 1 \in DOMAIN ag \ {1}
              /\ new[k] = ag[(k - Len(frames)) + 1]
  BY Continued
<1>2. /\ Len(frames) \in Nat /\ DOMAIN frames = 1..Len(frames)
      /\ DOMAIN ag \subseteq Nat \ {0} /\ 1 \in DOMAIN ag
  OBVIOUS
<1>3. \A k \in DOMAIN new : k \in Nat \ {0}
  BY <1>1
<1> QED
  BY <1>1, <1>2, <1>3 DEF Shifted

\* The second child that a copy adds is an ARGS
LEMMA CopiedArgs ==
  ASSUME NEW ns, NEW ag, Linked(ns), ArgsSecond(ns), CopiesTyped(ns, ag), 1 \in DOMAIN ag, ag[1].op = "copy",
         NEW ms, NEW c, CopiedNode(ns, ms, ag[1].node, ag[1].arg, c), Retyped(ns, ms)
  PROVE  ArgsSecond(ms)
<1> DEFINE p == ag[1].arg
<1>1. ASSUME NEW id \in DOMAIN ms, ms[id].type \in Blocks, NEW k \in DOMAIN ms[id].childs, k >= 2
      PROVE  \/ ms[ms[id].childs[k]].type = "ARGS"
             \/ /\ id \in DOMAIN ns /\ k \in DOMAIN ns[id].childs
                /\ ms[id].childs[k] = ns[id].childs[k]
  <2>1. CASE id = c
    BY <1>1, <2>1 DEF CopiedNode
  <2>2. CASE id \in DOMAIN ns /\ id # p
    BY <1>1, <2>2 DEF CopiedNode
  <2>3. CASE id \in DOMAIN ns /\ id = p
    <3> DEFINE old == ns[id].childs
    <3>1. ms[id].childs = Append(old, c) /\ old \in Seq(Nat)
      BY <2>3, LinkedFacts DEF CopiedNode
    <3>2. ns[p].type \in Blocks
      BY <1>1, <2>3 DEF CopiedNode
    <3>3. ArgsCopied(ns, ag, 1)
      BY <2>3, <3>2 DEF CopiesTyped
    <3>4. ns[ag[1].node].type = "ARGS" \/ old = <<>>
      BY <2>3, <3>3 DEF ArgsCopied
    <3> HIDE DEF old
    <3>5. \/ k \in DOMAIN old /\ ms[id].childs[k] = old[k]
          \/ ms[id].childs[k] = c /\ k = Len(old) + 1
      BY <1>1, <3>1
    <3>6. old = <<>> => Len(old) = 0
      OBVIOUS
    <3>7. \/ k \in DOMAIN old /\ ms[id].childs[k] = old[k]
          \/ ms[id].childs[k] = c /\ ns[ag[1].node].type = "ARGS"
      BY <1>1, <3>4, <3>5, <3>6
    <3> QED
      BY <2>3, <3>7 DEF CopiedNode, old
  <2> QED
    BY <2>1, <2>2, <2>3 DEF CopiedNode
<1> QED
  BY <1>1, ArgsSecondKept

\* What is copied next is typed like what was copied
LEMMA CopiedTyped ==
  ASSUME NEW ns, NEW ss, NEW ag, AgendaInv(ns, ss, ag), Linked(ns), ArgsSecond(ns), CopiesTyped(ns, ag),
         ag[1].op = "copy", NEW frames, CopyFrames(ns, ag[1].node, frames), NEW new, Shifted(ag, frames, new),
         NEW ms, CopiedNode(ns, ms, ag[1].node, ag[1].arg, Len(ns) + 1)
  PROVE  CopiesTyped(ms, new)
<1> DEFINE p == ag[1].arg
           c == Len(ns) + 1
           n == ag[1].node
           m == Len(frames)
<1>1. /\ \A k \in DOMAIN ns : ms[k].type = ns[k].type
      /\ \A k \in DOMAIN ns : k # p => ms[k] = ns[k]
      /\ ms[c].type = ns[n].type /\ ms[c].childs = <<>> /\ c \notin DOMAIN ns
  BY DEF CopiedNode
<1>2. /\ 1 \in DOMAIN ag /\ \A k \in DOMAIN ag : ag[k].node \in DOMAIN ns
      /\ m \in Nat /\ DOMAIN frames = 1..m /\ DOMAIN ag \subseteq Nat \ {0}
  BY DEF AgendaInv, FrameInv, Shifted
<1>3. \A k \in DOMAIN frames : /\ frames[k].op = "copy" /\ frames[k].arg = c
                               /\ frames[k].node = ns[n].childs[k] /\ k \in DOMAIN ns[n].childs
                               /\ frames[k].node \in DOMAIN ns
  <2>1. /\ DOMAIN ns[n].childs = 1..Len(ns[n].childs) /\ m = Len(ns[n].childs)
        /\ \A k \in 1..Len(ns[n].childs) : ns[n].childs[k] \in DOMAIN ns
    BY <1>2, LinkedFacts DEF CopyFrames
  <2> QED
    BY <1>2, <2>1 DEF CopyFrames
<1>4. \A k \in DOMAIN ag \ {1} : ag[k].op = "copy" => ag[k].arg \in DOMAIN ns
  BY DEF AgendaInv, CopiesInv
<1>5. /\ \A k \in DOMAIN new :
           \/ k \in DOMAIN frames /\ new[k] = frames[k]
           \/ /\ k > m /\ (k - m) + 1 \in DOMAIN ag \ {1}
              /\ new[k] = ag[(k - m) + 1]
      /\ \A k \in DOMAIN new : k \in Nat \ {0}
  BY DEF Shifted
<1> HIDE DEF p, c, n, m
<1> SUFFICES ASSUME NEW k \in DOMAIN new, new[k].op = "copy", new[k].arg \in DOMAIN ms,
                    ms[new[k].arg].type \in Blocks
             PROVE  ArgsCopied(ms, new, k)
  BY DEF CopiesTyped
<1>6. CASE k \in DOMAIN frames /\ new[k] = frames[k]
  <2>1. CASE k >= 2
    <3>1. ns[n].type \in Blocks /\ n \in DOMAIN ns
      BY <1>1, <1>2, <1>3, <1>6 DEF n
    <3>2. ns[frames[k].node].type = "ARGS"
      BY <1>3, <1>6, <2>1, <3>1 DEF ArgsSecond
    <3> QED
      BY <1>1, <1>3, <1>6, <3>2 DEF ArgsCopied
  <2>2. CASE ~ (k >= 2)
    <3>1. \A j \in DOMAIN new : ~ (j < k)
      BY <1>5, <2>2
    <3>2. ms[new[k].arg].childs = <<>>
      BY <1>1, <1>3, <1>6
    <3> QED
      BY <3>1, <3>2 DEF ArgsCopied
  <2> QED
    BY <2>1, <2>2
<1>7. CASE k > m /\ (k - m) + 1 \in DOMAIN ag \ {1} /\ new[k] = ag[(k - m) + 1]
  <2> DEFINE j == (k - m) + 1
  <2>1. j \in DOMAIN ag \ {1} /\ new[k] = ag[j] /\ j \in Nat /\ j > 1
    BY <1>2, <1>7
  <2>2. \A i : i < k /\ i \in Nat /\ i > m => (i - m) + 1 < j
    BY <1>2, <1>5
  <2> HIDE DEF j
  <2>3. ag[j].op = "copy" /\ ag[j].arg \in DOMAIN ns /\ ns[ag[j].arg].type \in Blocks
    BY <1>1, <1>4, <2>1
  <2>4. ArgsCopied(ns, ag, j)
    BY <2>1, <2>3 DEF CopiesTyped
  <2>5. CASE ns[ag[j].node].type = "ARGS"
    BY <1>1, <1>2, <2>1, <2>5 DEF ArgsCopied
  <2>6. CASE /\ ns[ag[j].arg].childs = <<>>
             /\ \A i \in DOMAIN ag : i < j => ~ Copies(ag, i, ag[j].arg)
    <3>1. ag[j].arg # p
      BY <1>2, <2>1, <2>6 DEF Copies, p
    <3>2. ms[ag[j].arg].childs = <<>>
      BY <1>1, <2>3, <2>6, <3>1
    <3>3. ASSUME NEW i \in DOMAIN new, i < k, Copies(new, i, ag[j].arg)
          PROVE  FALSE
      <4>1. i \notin DOMAIN frames
        BY <1>1, <1>3, <1>5, <2>3, <3>3, <1>2 DEF Copies
      <4>2. i > m /\ (i - m) + 1 \in DOMAIN ag \ {1} /\ new[i] = ag[(i - m) + 1] /\ i \in Nat
        BY <1>5, <4>1
      <4>3. (i - m) + 1 < j
        BY <2>2, <3>3, <4>2
      <4> QED
        BY <2>6, <3>3, <4>2, <4>3 DEF Copies
    <3> QED
      BY <2>1, <3>2, <3>3 DEF ArgsCopied
  <2> QED
    BY <2>4, <2>5, <2>6 DEF ArgsCopied
<1> QED
  BY <1>5, <1>6, <1>7

\* ast_copy_node of one node
LEMMA ResolvedCopied ==
  ASSUME NEW ns, NEW ss, NEW bs, NEW ag, Linked(ns), NamesClean(ns), AgendaInv(ns, ss, ag),
         TypedScopes(ss, Len(ns)), ResolvedInv(ns, ss, bs, ag), ag # <<>>, ag[1].op = "copy",
         NEW frames, CopyFrames(ns, ag[1].node, frames), NEW new, new = frames \o Tail(ag),
         NEW ms, CopiedNode(ns, ms, ag[1].node, ag[1].arg, Len(ns) + 1)
  PROVE  /\ ResolvedInv(ms, ss, bs, new)
         /\ \A id \in Targets(new) : id \in Targets(ag) \/ id \notin DOMAIN ns
<1> DEFINE p == ag[1].arg
           c == Len(ns) + 1
           n == ag[1].node
           m == Len(frames)
<1>1. /\ \A k \in DOMAIN ns : ms[k].type = ns[k].type
      /\ \A k \in DOMAIN ns : k # p => ms[k] = ns[k]
      /\ ms[c].type = ns[n].type /\ ms[c].childs = <<>>
      /\ DOMAIN ms = DOMAIN ns \union {c} /\ c \notin DOMAIN ns
  BY DEF CopiedNode
<1>2. /\ ag \in Seq(FrameRecord) /\ frames \in Seq(FrameRecord) /\ 1 \in DOMAIN ag
      /\ \A k \in DOMAIN ag : ag[k].node \in DOMAIN ns
      /\ \A k \in DOMAIN frames : frames[k].op = "copy" /\ frames[k].arg = c
  <2>1. ag \in Seq(FrameRecord) /\ \A k \in DOMAIN ag : ag[k].node \in DOMAIN ns
    BY DEF AgendaInv, FrameInv
  <2>2. frames \in Seq(FrameRecord) /\ \A k \in DOMAIN frames : frames[k].op = "copy" /\ frames[k].arg = c
    BY DEF CopyFrames
  <2> QED
    BY <2>1, <2>2
<1>3. /\ ArgsSecond(ns) /\ BodiesArgs(ns, ss) /\ CopiesTyped(ns, ag) /\ BindsCalls(ns, ag)
      /\ InstantiateInv(ns, bs, ag) /\ CoverInv(ns, bs, ag)
  BY DEF ResolvedInv
<1>4. Shifted(ag, frames, new)
  BY <1>2, ShiftedFacts
<1>5. /\ \A k \in DOMAIN new :
           \/ k \in DOMAIN frames /\ new[k] = frames[k]
           \/ /\ k > m /\ (k - m) + 1 \in DOMAIN ag \ {1}
              /\ new[k] = ag[(k - m) + 1]
      /\ \A k \in DOMAIN new : k \in Nat \ {0}
      /\ m \in Nat
  BY <1>4 DEF Shifted
<1>6. Retyped(ns, ms) /\ Evolves(ns, ms, bs, bs)
  BY <1>1 DEF Evolves, Retyped
<1> HIDE DEF p, c, n, m
<1>7. ArgsSecond(ms)
  BY <1>2, <1>3, <1>6, CopiedArgs
<1>8. BodiesArgs(ms, ss)
  BY <1>3, <1>6, BodiesArgsKept
<1>9. CopiesTyped(ms, new)
  BY <1>3, <1>4, CopiedTyped
<1>10. BindsCalls(ms, new)
  <2> SUFFICES ASSUME NEW k \in DOMAIN new, new[k].op \in {"bind", "instantiate"}
               PROVE  ms[new[k].node].type = "CALL"
    BY DEF BindsCalls
  <2>1. (k - m) + 1 \in DOMAIN ag /\ new[k] = ag[(k - m) + 1]
    BY <1>2, <1>5
  <2> QED
    BY <1>1, <1>2, <1>3, <2>1 DEF BindsCalls
<1>11. InstantiateInv(ms, bs, new)
  <2> SUFFICES ASSUME NEW k \in DOMAIN new, new[k].op = "instantiate"
               PROVE  /\ \A i \in DOMAIN new : i < k => new[i].op = "copy"
                      /\ new[k].node \in bs
                      /\ new[k].arg \in DOMAIN ms /\ ms[new[k].arg].type = "ARGS"
    BY DEF InstantiateInv
  <2> DEFINE j == (k - m) + 1
  <2>1. k > m /\ j \in DOMAIN ag \ {1} /\ new[k] = ag[j]
    BY <1>2, <1>5
  <2>2. \A i : i < k /\ i \in Nat /\ i > m => (i - m) + 1 < j
    BY <1>5
  <2> HIDE DEF j
  <2>3. /\ \A i \in DOMAIN ag : i < j => ag[i].op = "copy"
        /\ ag[j].node \in bs
        /\ \/ ag[j].arg \in DOMAIN ns /\ ns[ag[j].arg].type = "ARGS"
           \/ ns[ag[1].node].type = "ARGS" /\ ag[j].arg = Len(ns) + 1
    BY <1>3, <2>1 DEF InstantiateInv
  <2>4. ASSUME NEW i \in DOMAIN new, i < k PROVE new[i].op = "copy"
    <3>1. CASE i \in DOMAIN frames /\ new[i] = frames[i]
      BY <1>2, <3>1
    <3>2. CASE i > m /\ (i - m) + 1 \in DOMAIN ag \ {1} /\ new[i] = ag[(i - m) + 1]
      <4>1. (i - m) + 1 < j
        BY <1>5, <2>2, <2>4, <3>2
      <4> QED
        BY <2>3, <3>2, <4>1
    <3> QED
      BY <1>5, <3>1, <3>2
  <2>5. new[k].arg \in DOMAIN ms /\ ms[new[k].arg].type = "ARGS"
    <3>1. CASE ag[j].arg \in DOMAIN ns /\ ns[ag[j].arg].type = "ARGS"
      BY <1>1, <2>1, <3>1
    <3>2. CASE ns[ag[1].node].type = "ARGS" /\ ag[j].arg = Len(ns) + 1
      BY <1>1, <2>1, <3>2 DEF c, n
    <3> QED
      BY <2>3, <3>1, <3>2
  <2> QED
    BY <2>1, <2>3, <2>4, <2>5
<1>12. ASSUME NEW id \in Targets(new) PROVE id \in Targets(ag) \/ id \notin DOMAIN ns
  <2>1. PICK k \in DOMAIN new : new[k].op \in {"copy", "instantiate"} /\ id = new[k].arg
    BY <1>12 DEF Targets
  <2>2. CASE k \in DOMAIN frames /\ new[k] = frames[k]
    BY <1>1, <1>2, <2>1, <2>2
  <2>3. CASE (k - m) + 1 \in DOMAIN ag \ {1} /\ new[k] = ag[(k - m) + 1]
    BY <2>1, <2>3 DEF Targets
  <2> QED
    BY <1>5, <2>2, <2>3
<1>13. p \in Targets(ag)
  BY <1>2 DEF Targets, p
<1>14. Resolves(ns, ms, bs, ag, frames, {}, new)
  BY <1>1, <1>2, <1>12, <1>13 DEF Resolves, PendingOps
<1>15. CoverInv(ms, bs, new)
  BY <1>2, <1>3, <1>6, <1>14, CoverStep
<1> QED
  BY <1>7, <1>8, <1>9, <1>10, <1>11, <1>12, <1>15 DEF ResolvedInv

\* The frames that Copy leaves
LEMMA CopyFramesOf ==
  ASSUME NEW ns, Linked(ns), NEW id \in DOMAIN ns, NEW frames,
         frames = [k \in DOMAIN ns[id].childs |->
                     [Frame("copy", 0, ns[id].childs[k]) EXCEPT !.arg = Len(ns) + 1]]
  PROVE  CopyFrames(ns, id, frames)
<1> DEFINE c == ns[id].childs
           new == Len(ns) + 1
           g(k) == [Frame("copy", 0, c[k]) EXCEPT !.arg = new]
<1>1. /\ DOMAIN c = 1..Len(c) /\ Len(c) \in Nat /\ new \in Nat
      /\ \A k \in 1..Len(c) : c[k] \in Nat
  <2>1. /\ DOMAIN c = 1..Len(c) /\ Len(c) \in Nat /\ DOMAIN ns = 1..Len(ns) /\ Len(ns) \in Nat
        /\ \A k \in 1..Len(c) : c[k] \in DOMAIN ns
    BY LinkedFacts
  <2> QED
    BY <2>1
<1>2. frames = [k \in 1..Len(c) |-> g(k)]
  BY <1>1
<1> HIDE DEF new, c
<1>3. \A k \in 1..Len(c) : /\ g(k) \in FrameRecord /\ g(k).op = "copy" /\ g(k).scope = 0
                           /\ g(k).node = c[k] /\ g(k).arg = new
  BY <1>1 DEF Frame, FrameRecord, FrameOps
<1> HIDE DEF g
<1>4. /\ frames \in Seq(FrameRecord) /\ Len(frames) = Len(c) /\ DOMAIN frames = 1..Len(c)
      /\ \A k \in 1..Len(c) : frames[k] = g(k)
  BY <1>1, <1>2, <1>3
<1> QED
  BY <1>3, <1>4 DEF CopyFrames, c, new

\* A copied body or argument: the copy is covered as the copied tree was
LEMMA ResolvedCopy ==
  ASSUME EvalInv, Resolved, Copy PROVE Resolved' /\ FreshTargets
<1> DEFINE f == agenda[1]
           c == nodes[f.node].childs
           frames == [k \in DOMAIN c |->
                        [Frame("copy", 0, c[k]) EXCEPT !.arg = Len(nodes) + 1]]
           bs == DOMAIN boundIn
           new == frames \o Tail(agenda)
<1>1. /\ agenda # <<>> /\ f.op = "copy" /\ nodes' = CopyNode(nodes, f.node, f.arg)
      /\ Continue(frames) /\ UNCHANGED <<scopes, boundIn>>
  BY DEF Copy, Head1, At, NthChild
<1>2. /\ Linked(nodes) /\ NamesClean(nodes) /\ Len(nodes) \in Nat /\ DOMAIN nodes = 1..Len(nodes)
      /\ TypedScopes(scopes, Len(nodes))
  BY ScopeFacts
<1>3. /\ AgendaInv(nodes, scopes, agenda) /\ f.node \in DOMAIN nodes
      /\ f.arg = 0 \/ f.arg \in DOMAIN nodes
  <2>1. AgendaInv(nodes, scopes, agenda) /\ agenda \in Seq(FrameRecord)
    BY DEF EvalInv, AgendaInv
  <2>2. 1 \in DOMAIN agenda
    BY <1>1, <2>1
  <2> QED
    BY <1>1, <2>1, <2>2 DEF AgendaInv, FrameInv, CopiesInv
<1>5. CopyFrames(nodes, f.node, frames)
  BY <1>2, <1>3, CopyFramesOf
<1>6. CopiedNode(nodes, nodes', f.node, f.arg, Len(nodes) + 1)
  <2>1. CopiedNode(nodes, CopyNode(nodes, f.node, f.arg), f.node, f.arg, Len(nodes) + 1)
    BY <1>2, <1>3, CopyNodeFacts
  <2> QED
    BY <1>1, <2>1
<1>7. ResolvedInv(nodes, scopes, bs, agenda)
  BY DEF Resolved
<1> HIDE DEF frames, bs
<1>8. /\ ResolvedInv(nodes', scopes, bs, new)
      /\ \A id \in Targets(new) : id \in Targets(agenda) \/ id \notin DOMAIN nodes
  BY <1>1, <1>2, <1>3, <1>5, <1>6, <1>7, ResolvedCopied
<1>9. agenda' = new
  BY <1>1 DEF Continue
<1> QED
  BY <1>1, <1>8, <1>9 DEF Resolved, FreshTargets, bs

\* The nodes, when node a has taken the place of the second child of node n
Refilled(ns, ms, n, a) ==
  /\ DOMAIN ms = DOMAIN ns
  /\ \A id \in DOMAIN ns : ms[id].type = ns[id].type
  /\ \A id \in DOMAIN ns \ {n, a} : ms[id].childs = ns[id].childs
  /\ ms[n].childs = [ns[n].childs EXCEPT ![2] = a]

\* No other node is touched, and nothing else of the call; node a keeps its text
SecondReplaced(ns, ms, n, a) ==
  /\ \A id \in DOMAIN ns \ {n, a} : ms[id] = ns[id]
  /\ ms[n] = [ns[n] EXCEPT !.childs = [ns[n].childs EXCEPT ![2] = a]]
  /\ ms[a].text = ns[a].text

\* instantiate fills node a and puts it in the second place of call n
LEMMA RefilledFacts ==
  ASSUME NEW ns, Linked(ns), NEW n \in DOMAIN ns, NEW a \in DOMAIN ns, n # a, NEW childs,
         NEW ms, ms = SetNthChild([ns EXCEPT ![a] = [ns[a] EXCEPT !.childs = childs]], n, 2, a)
  PROVE  Refilled(ns, ms, n, a) /\ SecondReplaced(ns, ms, n, a)
<1> DEFINE x == [ns[a] EXCEPT !.childs = childs]
           ls == [ns EXCEPT ![a] = x]
           y == [ns[n] EXCEPT !.childs = [ns[n].childs EXCEPT ![2] = a]]
<1>1. ns[a] \in NodeRecord /\ ns[n] \in NodeRecord
  BY LinkedFacts
<1>2. x.type = ns[a].type /\ x.text = ns[a].text
  BY <1>1 DEF NodeRecord
<1>3. y.type = ns[n].type /\ y.childs = [ns[n].childs EXCEPT ![2] = a]
  BY <1>1 DEF NodeRecord
<1> HIDE DEF x
<1>4. DOMAIN ls = DOMAIN ns /\ ls[a] = x /\ \A id \in DOMAIN ns : id # a => ls[id] = ns[id]
  OBVIOUS
<1>5. ms = [ls EXCEPT ![n].childs[2] = a]
  BY DEF SetNthChild, x
<1> HIDE DEF ls
<1>6. ms = [ls EXCEPT ![n] = [ls[n] EXCEPT !.childs = [ls[n].childs EXCEPT ![2] = a]]]
  BY <1>5
<1>7. ms = [ls EXCEPT ![n] = y]
  BY <1>4, <1>6
<1> HIDE DEF y
<1>8. DOMAIN ms = DOMAIN ns /\ ms[n] = y /\ ms[a] = x /\ \A id \in DOMAIN ns \ {n, a} : ms[id] = ns[id]
  BY <1>4, <1>7
<1>9. Refilled(ns, ms, n, a)
  BY <1>2, <1>3, <1>8 DEF Refilled
<1> QED
  BY <1>2, <1>8, <1>9 DEF SecondReplaced, y

\* The second child of the call is an ARGS again
LEMMA RefilledArgs ==
  ASSUME NEW ns, Linked(ns), ArgsSecond(ns), NEW n \in DOMAIN ns, NEW a \in DOMAIN ns,
         ns[a].type = "ARGS", Len(ns[n].childs) >= 2, NEW ms, Refilled(ns, ms, n, a), Retyped(ns, ms)
  PROVE  /\ ArgsSecond(ms)
         /\ Len(ms[n].childs) >= 2 => ms[n].childs[2] = a
<1>0. ns[n].childs \in Seq(Nat) /\ ms[n].childs = [ns[n].childs EXCEPT ![2] = a]
  BY LinkedFacts DEF Refilled
<1>2. /\ DOMAIN ms[n].childs = DOMAIN ns[n].childs
      /\ \A k \in DOMAIN ns[n].childs : ms[n].childs[k] = IF k = 2 THEN a ELSE ns[n].childs[k]
      /\ 2 \in DOMAIN ns[n].childs
  <2> DEFINE s == ns[n].childs
             t == ms[n].childs
  <2>1. s \in Seq(Nat) /\ t = [s EXCEPT ![2] = a] /\ Len(s) >= 2
    BY <1>0
  <2> HIDE DEF s, t
  <2>2. 2 \in DOMAIN s
    BY <2>1
  <2>3. DOMAIN t = DOMAIN s /\ \A k \in DOMAIN s : t[k] = IF k = 2 THEN a ELSE s[k]
    BY <2>1
  <2> QED
    BY <2>2, <2>3 DEF s, t
<1>1. ASSUME NEW id \in DOMAIN ms, ms[id].type \in Blocks, NEW k \in DOMAIN ms[id].childs, k >= 2
      PROVE  \/ ms[ms[id].childs[k]].type = "ARGS"
             \/ /\ id \in DOMAIN ns /\ k \in DOMAIN ns[id].childs
                /\ ms[id].childs[k] = ns[id].childs[k]
  <2>0. /\ DOMAIN ms = DOMAIN ns
        /\ \A i \in DOMAIN ns : ms[i].type = ns[i].type
        /\ \A i \in DOMAIN ns \ {n, a} : ms[i].childs = ns[i].childs
    BY DEF Refilled
  <2>1. id \in DOMAIN ns /\ id # a
    BY <1>1, <2>0 DEF Blocks
  <2>2. CASE id = n
    BY <1>1, <1>2, <2>0, <2>2
  <2>3. CASE id # n
    BY <1>1, <2>0, <2>1, <2>3
  <2> QED
    BY <2>2, <2>3
<1>3. ArgsSecond(ms)
  BY <1>1, ArgsSecondKept
<1> QED
  BY <1>2, <1>3

\* The copy takes the place of the arguments, and is left to resolve
LEMMA ResolvedInstantiate ==
  ASSUME EvalInv, Resolved, Instantiate PROVE Resolved' /\ FreshTargets
<1> DEFINE f == agenda[1]
           a == NthChild(nodes, f.node, 2)
           n == NthChild(nodes, f.node, 1)
           p == f.arg
           childs == [k \in DOMAIN nodes[p].childs |->
                        IF nodes[nodes[p].childs[k]].type = "ARG_REF_ALL_ARGS" THEN a
                        ELSE nodes[p].childs[k]]
           ls == [nodes EXCEPT ![p] = [nodes[p] EXCEPT !.childs = childs]]
           f1 == Frame("resolve_symbols", f.scope, p)
           f2 == Frame("resolve_calls", f.scope, n)
           f3 == Frame("resolve_calls", f.scope, p)
           s  == <<f1, f2, f3>>
           ms == nodes'
           bs == DOMAIN boundIn
           N == {f.node}
           new == s \o Tail(agenda)
<1>1. /\ At("instantiate") /\ ms = SetNthChild(ls, f.node, 2, p)
      /\ Continue(s) /\ UNCHANGED <<scopes, boundIn>>
  <2>1. [nodes EXCEPT ![f.arg].childs =
           [k \in DOMAIN @ |-> IF nodes[@[k]].type = "ARG_REF_ALL_ARGS" THEN a ELSE @[k]]] = ls
    OBVIOUS
  <2> HIDE DEF ls
  <2> QED
    BY <2>1 DEF Instantiate, Head1, Type
<1>2. /\ agenda # <<>> /\ f.op = "instantiate" /\ FrameInv(f, nodes, scopes) /\ f.node \in DOMAIN nodes
      /\ f.op # "copy"
  BY <1>1, AtFacts
<1>3. f.scope \in DOMAIN scopes /\ f.scope \in Nat /\ Len(nodes[f.node].childs) >= 2
  BY <1>2, ScopeOfFrame DEF FrameInv
<1>4. /\ Linked(nodes) /\ AgendaInv(nodes, scopes, agenda) /\ TypedScopes(scopes, Len(nodes))
      /\ agenda \in Seq(FrameRecord) /\ DOMAIN nodes \subseteq Nat
      /\ ResolvedInv(nodes, scopes, bs, agenda)
  BY ScopeFacts DEF EvalInv, AgendaInv, Resolved
<1>5. /\ ArgsSecond(nodes) /\ BodiesArgs(nodes, scopes)
      /\ BindsCalls(nodes, agenda) /\ InstantiateInv(nodes, bs, agenda)
  BY <1>4 DEF ResolvedInv
<1>6. /\ f.node \in bs /\ nodes[f.node].type = "CALL"
      /\ p \in DOMAIN nodes /\ nodes[p].type = "ARGS" /\ f.node # p
  <2>1. 1 \in DOMAIN agenda
    BY <1>2, <1>4
  <2>2. f.node \in bs /\ p \in DOMAIN nodes /\ nodes[p].type = "ARGS"
    BY <1>2, <1>5, <2>1 DEF InstantiateInv
  <2>3. nodes[f.node].type = "CALL"
    BY <1>2, <1>5, <2>1 DEF BindsCalls
  <2> QED
    BY <2>2, <2>3
<1>7. n \in DOMAIN nodes
  <2>1. /\ Len(nodes[f.node].childs) \in Nat
        /\ \A k \in 1..Len(nodes[f.node].childs) : nodes[f.node].childs[k] \in DOMAIN nodes
    BY <1>2, <1>4, LinkedFacts
  <2> QED
    BY <1>3, <2>1 DEF NthChild
<1> HIDE DEF childs, a, n
<1>8. Refilled(nodes, ms, f.node, p)
  BY <1>1, <1>2, <1>4, <1>6, RefilledFacts
<1> HIDE DEF ls, ms, bs
<1>9. Evolves(nodes, ms, bs, bs) /\ Retyped(nodes, ms)
  BY <1>8 DEF Refilled, Evolves, Retyped
<1>10. ArgsSecond(ms) /\ (Len(ms[f.node].childs) >= 2 => ms[f.node].childs[2] = p)
  BY <1>2, <1>3, <1>4, <1>5, <1>6, <1>8, <1>9, RefilledArgs
<1>11. BodiesArgs(ms, scopes)
  BY <1>4, <1>5, <1>9, BodiesArgsKept
<1>12. /\ f1 \in FrameRecord /\ f1.op = "resolve_symbols" /\ f2 \in FrameRecord /\ f2.op = "resolve_calls"
       /\ f3 \in FrameRecord /\ f3.op = "resolve_calls" /\ f3.node = p
  <2>1. p \in Nat /\ n \in Nat /\ f.scope \in Nat
    BY <1>3, <1>4, <1>6, <1>7
  <2> HIDE DEF p
  <2> QED
    BY <2>1 DEF Frame, FrameRecord, FrameOps
<1> HIDE DEF f1, f2, f3
<1>13. s \in Seq(FrameRecord) /\ DOMAIN s = {1, 2, 3} /\ s[1] = f1 /\ s[2] = f2 /\ s[3] = f3
       /\ new = s \o Tail(agenda)
  BY <1>12
<1> HIDE DEF s, new
<1>14. p \in Todo(s)
  <2>1. 3 \in DOMAIN s /\ s[3].op \in PendingOps /\ s[3].node = p
    BY <1>12, <1>13 DEF PendingOps
  <2>2. s[3].node \in Todo(s)
    BY <1>13, <2>1, TodoFrame
  <2> QED
    BY <2>1, <2>2
<1>15. Closed(ms, bs, f.node, N \union Todo(s))
  BY <1>2, <1>6, <1>8, <1>10, <1>14 DEF Closed, Refilled
<1>16. N \subseteq DOMAIN ms /\ \A id \in DOMAIN nodes : id \in N \/ ms[id].childs = nodes[id].childs \/ id = p
  BY <1>2, <1>8 DEF Refilled
<1>17. \A k \in DOMAIN s : s[k].op \in {"resolve_symbols", "resolve_calls"}
  BY <1>12, <1>13
<1>18. Advances(nodes, ms, bs, agenda, s, N, new)
  <2>1. \A id \in N : Closed(ms, bs, id, N \union Todo(s))
    BY <1>15
  <2>2. f.node \in N
    OBVIOUS
  <2> HIDE DEF N
  <2> QED
    BY <1>2, <1>16, <1>17, <2>1, <2>2 DEF Advances
<1> HIDE DEF N
<1>19. ResolvedInv(ms, scopes, bs, new) /\ Targets(new) = {}
  BY <1>2, <1>4, <1>9, <1>10, <1>11, <1>13, <1>18, ResolvedStep
<1>20. agenda' = new
  BY <1>1, <1>13 DEF Continue
<1> QED
  BY <1>1, <1>19, <1>20 DEF Resolved, FreshTargets, ms, bs

\* Nodes that are resolved, and that nothing is going to change
Whole(D) ==
  /\ D \subseteq DOMAIN nodes
  /\ \A id \in D : Closed(nodes, DOMAIN boundIn, id, D) /\ id \notin Targets(agenda)

WriteOps == {"do_calls", "close", "invoke", "returned"}

\* What is written is resolved
LEMMA HeadWhole ==
  ASSUME EvalInv, Resolved, At("do_calls")
  PROVE  \E D : Whole(D) /\ agenda[1].node \in D
<1>1. agenda # <<>> /\ agenda[1].op = "do_calls"
  BY AtFacts
<1>2. agenda \in Seq(FrameRecord) /\ CoverInv(nodes, DOMAIN boundIn, agenda)
  BY DEF EvalInv, AgendaInv, Resolved, ResolvedInv
<1>3. 1 \in DOMAIN agenda /\ \A j \in DOMAIN agenda : ~ (j < 1)
  BY <1>1, <1>2
<1>4. PICK D : Cover(nodes, DOMAIN boundIn, agenda, 1, D)
  BY <1>1, <1>2, <1>3 DEF CoverInv, Covered
<1>5. Pending(agenda, 1) = {}
  BY <1>3 DEF Pending
<1>6. D \union {} = D
  OBVIOUS
<1> QED
  BY <1>4, <1>5, <1>6 DEF Cover, Whole

\* Frames that write resolved nodes
LEMMA WrittenStep ==
  ASSUME EvalInv, Resolved, agenda # <<>>, agenda[1].op \in WriteOps, NEW D, Whole(D),
         NEW frames \in Seq(FrameRecord), Continue(frames), UNCHANGED <<nodes, scopes, boundIn>>,
         \A k \in DOMAIN frames : /\ frames[k].op \in WriteOps
                                  /\ frames[k].op = "do_calls" => frames[k].node \in D
  PROVE  Resolved' /\ FreshTargets
<1> DEFINE new == agenda'
<1>1. agenda \in Seq(FrameRecord) /\ new = frames \o Tail(agenda)
  BY DEF EvalInv, AgendaInv, Continue
<1> HIDE DEF new
<1>2. /\ \A k \in DOMAIN new : \/ k \in DOMAIN frames /\ new[k] = frames[k]
                               \/ \E j \in DOMAIN agenda : new[k] = agenda[j]
      /\ \A k \in DOMAIN frames : new[k] = frames[k]
  BY <1>1, ContinuedFrames
<1>3. Targets(new) \subseteq Targets(agenda)
  <2> SUFFICES ASSUME NEW id \in Targets(new) PROVE id \in Targets(agenda)
    OBVIOUS
  <2>1. PICK k \in DOMAIN new : new[k].op \in {"copy", "instantiate"} /\ id = new[k].arg
    BY DEF Targets
  <2>2. PICK j \in DOMAIN agenda : new[k] = agenda[j]
    BY <1>2, <2>1 DEF WriteOps
  <2> QED
    BY <2>1, <2>2 DEF Targets
<1>4. ASSUME NEW k \in DOMAIN frames, frames[k].op = "do_calls"
      PROVE  Covered(nodes, DOMAIN boundIn, new, k)
  <2> DEFINE E == D \union Pending(new, k)
             bs == DOMAIN boundIn
  <2>1. new[k].node \in E /\ D \subseteq DOMAIN nodes
    BY <1>2, <1>4 DEF Whole
  <2>2. ASSUME NEW id \in D PROVE Closed(nodes, bs, id, E) /\ id \notin Targets(new)
    <3>1. Closed(nodes, bs, id, D) /\ id \notin Targets(agenda)
      BY DEF Whole
    <3>2. D \subseteq E
      OBVIOUS
    <3> HIDE DEF E, bs
    <3>3. Closed(nodes, bs, id, E)
      BY <3>1, <3>2, ClosedMore
    <3> QED
      BY <1>3, <3>1, <3>3
  <2>3. Cover(nodes, bs, new, k, D)
    BY <2>1, <2>2 DEF Cover
  <2> QED
    BY <2>3 DEF Covered
<1>5. BodiesArgs(nodes, scopes')
  BY DEF Resolved, ResolvedInv
<1>6. /\ agenda[1].op # "copy" /\ agenda[1].op \notin PendingOps
      /\ \A k \in DOMAIN frames :
           /\ frames[k].op \notin {"copy", "instantiate", "bind"}
           /\ frames[k].op = "do_calls" => Covered(nodes, DOMAIN boundIn, agenda', k)
  BY <1>4 DEF WriteOps, PendingOps, new
<1> QED
  BY <1>5, <1>6, ResolvedSilent

\* Nothing more to write
LEMMA WrittenNothing ==
  ASSUME EvalInv, Resolved, agenda # <<>>, agenda[1].op \in WriteOps, Continue(<<>>),
         UNCHANGED <<nodes, scopes, boundIn>>
  PROVE  Resolved' /\ FreshTargets
<1>1. Whole({})
  BY DEF Whole
<1>2. <<>> \in Seq(FrameRecord) /\ DOMAIN <<>> = {}
  OBVIOUS
<1> QED
  BY <1>1, <1>2, WrittenStep

\* The frame of a node that is written
LEMMA EmitRecord ==
  ASSUME EvalInv, NEW node \in DOMAIN nodes, NEW flags \in SUBSET Flags
  PROVE  /\ EmitFrame(node, flags) \in FrameRecord
         /\ EmitFrame(node, flags).op = "do_calls" /\ EmitFrame(node, flags).node = node
<1>1. node \in Nat
  BY ScopeFacts
<1> QED
  BY <1>1 DEF EmitFrame, Frame, FrameRecord, FrameOps

\* The children of a PROGRAM or ARGS
LEMMA WrittenChilds ==
  ASSUME EvalInv, Resolved, EmitChilds PROVE Resolved' /\ FreshTargets
<1> DEFINE f == agenda[1]
           n == Len(nodes[f.node].childs)
           PlaceOf(k) == (IF k = 1 THEN {"FIRST_CHILD"} ELSE {})
                         \union (IF k = n THEN {"LAST_CHILD"} ELSE {})
           g(k) == EmitFrame(nodes[f.node].childs[k], PlaceOf(k))
           s == [k \in 1..n |-> EmitFrame(NthChild(nodes, f.node, k), PlaceOf(k))]
<1>1. /\ At("do_calls") /\ Type(f.node) \in {"PROGRAM", "ARGS"} /\ Continue(s)
      /\ UNCHANGED <<nodes, scopes, boundIn>>
  BY DEF EmitChilds, Head1, NumChild
<1>2. agenda # <<>> /\ f.op = "do_calls" /\ f.node \in DOMAIN nodes
  BY <1>1, AtFacts
<1>3. PICK D : Whole(D) /\ f.node \in D
  BY <1>1, HeadWhole
<1>4. /\ n \in Nat /\ DOMAIN nodes[f.node].childs = 1..n
      /\ \A k \in 1..n : nodes[f.node].childs[k] \in DOMAIN nodes
  BY <1>2, ScopeFacts, LinkedFacts
<1>5. \A k \in 1..n : nodes[f.node].childs[k] \in D
  BY <1>1, <1>3, <1>4 DEF Whole, Closed, Type
<1>6. \A k \in 1..n : PlaceOf(k) \in SUBSET Flags
  BY DEF Flags
<1>7. s = [k \in 1..n |-> g(k)]
  BY DEF NthChild
<1> HIDE DEF s, PlaceOf, n
<1>8. ASSUME NEW k \in 1..n
      PROVE  g(k) \in FrameRecord /\ g(k).op = "do_calls" /\ g(k).node \in D
  <2>1. nodes[f.node].childs[k] \in DOMAIN nodes /\ PlaceOf(k) \in SUBSET Flags
    BY <1>4, <1>6
  <2> QED
    BY <1>5, <2>1, EmitRecord
<1> HIDE DEF g
<1>9. s \in Seq(FrameRecord) /\ \A k \in DOMAIN s : s[k].op = "do_calls" /\ s[k].node \in D
  BY <1>4, <1>7, <1>8
<1> QED
  BY <1>1, <1>2, <1>3, <1>9, WrittenStep DEF WriteOps

\* The second child of a call
LEMMA SecondWhole ==
  ASSUME EvalInv, Resolved, AtEmitCall, HasArgs(agenda[1]), NEW D, Whole(D), agenda[1].node \in D
  PROVE  LET args == NthChild(nodes, agenda[1].node, 2)
         IN  /\ args \in DOMAIN nodes /\ args \in D
             /\ nodes[args].type = "ARGS"
             /\ \A k \in DOMAIN nodes[args].childs : nodes[args].childs[k] \in D
<1> DEFINE n == agenda[1].node
           args == NthChild(nodes, n, 2)
<1>1. At("do_calls") /\ nodes[n].type = "CALL" /\ n \in DOMAIN nodes
  BY AtFacts DEF AtEmitCall, Head1, Type
<1>2. args \in DOMAIN nodes /\ Len(nodes[n].childs) >= 2
  BY <1>1, ScopeFacts, ArgsFacts
<1>3. 2 \in DOMAIN nodes[n].childs
  <2>1. DOMAIN nodes[n].childs = 1..Len(nodes[n].childs) /\ Len(nodes[n].childs) \in Nat
    BY <1>1, ScopeFacts, LinkedFacts
  <2> QED
    BY <1>2, <2>1
<1>4. args = nodes[n].childs[2]
  BY DEF NthChild
<1> HIDE DEF args
<1>5. nodes[args].type = "ARGS"
  <2>1. ArgsSecond(nodes)
    BY DEF Resolved, ResolvedInv
  <2> QED
    BY <1>1, <1>3, <1>4, <2>1 DEF ArgsSecond, Blocks
<1>6. args \in D
  BY <1>1, <1>2, <1>4 DEF Whole, Closed
<1>7. \A k \in DOMAIN nodes[args].childs : nodes[args].childs[k] \in D
  BY <1>5, <1>6 DEF Whole, Closed
<1> QED
  BY <1>2, <1>5, <1>6, <1>7 DEF args

\* A call of a definition
LEMMA WrittenCall ==
  ASSUME EvalInv, Resolved, EmitCall PROVE Resolved' /\ FreshTargets
<1> DEFINE f == agenda[1]
           args == NthChild(nodes, f.node, 2)
           g == EmitFrame(args, f.flags)
           s == <<g>>
<1>1. AtEmitCall /\ At("do_calls") /\ HasArgs(f) /\ Continue(s) /\ UNCHANGED <<nodes, scopes, boundIn>>
  BY DEF EmitCall, AtEmitCall, Head1
<1>2. agenda # <<>> /\ f.op = "do_calls" /\ f.flags \in SUBSET Flags
  BY <1>1, AtFacts DEF FrameRecord
<1>3. PICK D : Whole(D) /\ f.node \in D
  BY <1>1, HeadWhole
<1>4. args \in DOMAIN nodes /\ args \in D
  BY <1>1, <1>3, SecondWhole
<1> HIDE DEF args
<1>5. g \in FrameRecord /\ g.op = "do_calls" /\ g.node \in D
  BY <1>2, <1>4, EmitRecord
<1> HIDE DEF g
<1>6. s \in Seq(FrameRecord) /\ \A k \in DOMAIN s : s[k].op = "do_calls" /\ s[k].node \in D
  BY <1>5
<1> HIDE DEF s
<1> QED
  BY <1>1, <1>2, <1>3, <1>6, WrittenStep DEF WriteOps

\* The arguments of an extern function
LEMMA WrittenArguments ==
  ASSUME EvalInv, Resolved, EmitArguments PROVE Resolved' /\ FreshTargets
<1> DEFINE f == agenda[1]
           args == NthChild(nodes, f.node, 2)
           g == EmitFrame(args, f.flags)
           h == [f EXCEPT !.op = "invoke"]
           s == <<g, h>>
<1>1. AtEmitCall /\ At("do_calls") /\ HasArgs(f) /\ Continue(s) /\ UNCHANGED <<nodes, scopes, boundIn>>
  BY DEF EmitArguments, AtEmitCall, Head1
<1>2. agenda # <<>> /\ f.op = "do_calls" /\ f.flags \in SUBSET Flags /\ f \in FrameRecord
  BY <1>1, AtFacts DEF FrameRecord
<1>3. PICK D : Whole(D) /\ f.node \in D
  BY <1>1, HeadWhole
<1>4. args \in DOMAIN nodes /\ args \in D
  BY <1>1, <1>3, SecondWhole
<1> HIDE DEF args
<1>5. g \in FrameRecord /\ g.op = "do_calls" /\ g.node \in D
  BY <1>2, <1>4, EmitRecord
<1>6. h \in FrameRecord /\ h.op = "invoke"
  BY <1>2 DEF FrameRecord, FrameOps
<1> HIDE DEF g, h
<1>7. s \in Seq(FrameRecord) /\ \A k \in DOMAIN s : /\ s[k].op \in {"do_calls", "invoke"}
                                                    /\ s[k].op = "do_calls" => s[k].node \in D
  BY <1>5, <1>6
<1> HIDE DEF s
<1> QED
  BY <1>1, <1>2, <1>3, <1>7, WrittenStep DEF WriteOps

\* An undefined call: the arguments, and the end of the call
LEMMA WrittenUndefined ==
  ASSUME EvalInv, Resolved, EmitUndefined PROVE Resolved' /\ FreshTargets
<1> DEFINE f == agenda[1]
           a == NthChild(nodes, f.node, 2)
           args == IF HasArgs(f) THEN nodes[a].childs ELSE <<>>
           g(k) == EmitFrame(args[k], f.flags)
           s == [k \in DOMAIN args |-> g(k)]
           h == Frame("close", 0, f.node)
           t == s \o <<h>>
<1>1. AtEmitCall /\ At("do_calls") /\ Continue(t) /\ UNCHANGED <<nodes, scopes, boundIn>>
  BY DEF EmitUndefined, AtEmitCall, Head1
<1>2. agenda # <<>> /\ f.op = "do_calls" /\ f.flags \in SUBSET Flags /\ f.node \in Nat
  BY <1>1, AtFacts DEF FrameRecord
<1>3. PICK D : Whole(D) /\ f.node \in D
  BY <1>1, HeadWhole
<1>4. args \in Seq(Nat) /\ \A k \in DOMAIN args : args[k] \in DOMAIN nodes /\ args[k] \in D
  <2>1. CASE HasArgs(f)
    <3>1. a \in DOMAIN nodes /\ \A k \in DOMAIN nodes[a].childs : nodes[a].childs[k] \in D
      BY <1>1, <1>3, <2>1, SecondWhole
    <3> HIDE DEF a
    <3>2. /\ nodes[a].childs \in Seq(Nat) /\ DOMAIN nodes[a].childs = 1..Len(nodes[a].childs)
          /\ \A k \in 1..Len(nodes[a].childs) : nodes[a].childs[k] \in DOMAIN nodes
      BY <3>1, ScopeFacts, LinkedFacts
    <3> QED
      BY <2>1, <3>1, <3>2
  <2>2. CASE ~ HasArgs(f)
    BY <2>2
  <2> QED
    BY <2>1, <2>2
<1> HIDE DEF args
<1>5. ASSUME NEW k \in DOMAIN args
      PROVE  g(k) \in FrameRecord /\ g(k).op = "do_calls" /\ g(k).node \in D
  BY <1>2, <1>4, EmitRecord
<1> HIDE DEF g
<1>6. s \in Seq(FrameRecord) /\ \A k \in DOMAIN s : s[k].op = "do_calls" /\ s[k].node \in D
  <2>1. DOMAIN args = 1..Len(args) /\ Len(args) \in Nat
    BY <1>4
  <2> QED
    BY <1>5, <2>1
<1>7. h \in FrameRecord /\ h.op = "close"
  BY <1>2 DEF Frame, FrameRecord, FrameOps
<1> HIDE DEF s, h
<1>8. t \in Seq(FrameRecord) /\ \A k \in DOMAIN t : /\ t[k].op \in {"do_calls", "close"}
                                                    /\ t[k].op = "do_calls" => t[k].node \in D
  BY <1>6, <1>7
<1> HIDE DEF t
<1> QED
  BY <1>1, <1>2, <1>3, <1>8, WrittenStep DEF WriteOps

\* A function that evaluates a definition: the body is resolved before it is written
LEMMA ResolvedEvalSymbol ==
  ASSUME EvalInv, Resolved, InvokeEvalSymbol PROVE Resolved' /\ FreshTargets
<1> DEFINE f == agenda[1]
           r == RunScope(f)
           body == Evaluated(f).body
           f1 == Frame("resolve_symbols", r, body)
           f2 == Frame("resolve_calls", r, body)
           f3 == Frame("do_calls", 0, body)
           f4 == Frame("returned", 0, f.node)
           s == <<f1, f2, f3>> \o <<f4>>
           new == agenda'
           bs == DOMAIN boundIn
<1>1. /\ At("invoke") /\ r # 0 /\ Evaluated(f).type = "internal"
      /\ Continue(s) /\ UNCHANGED <<nodes, scopes, boundIn>>
  BY DEF InvokeEvalSymbol, AtInvoke, Head1, EvalNode
<1>2. agenda # <<>> /\ f.op = "invoke" /\ f.node \in Nat
  BY <1>1, AtFacts
<1>3. r \in DOMAIN scopes /\ r \in Nat
  BY <1>1, RunScopeFacts
<1>4. body \in Nat
  <2>1. body \in DOMAIN nodes
    BY <1>1, <1>3, Found DEF Evaluated
  <2> QED
    BY <2>1, ScopeFacts
<1> HIDE DEF r, body
<1>5. /\ f1 \in FrameRecord /\ f1.op = "resolve_symbols"
      /\ f2 \in FrameRecord /\ f2.op = "resolve_calls" /\ f2.node = body
      /\ f3 \in FrameRecord /\ f3.op = "do_calls" /\ f3.node = body
      /\ f4 \in FrameRecord /\ f4.op = "returned"
  BY <1>2, <1>3, <1>4 DEF Frame, FrameRecord, FrameOps
<1> HIDE DEF f1, f2, f3, f4
<1>6. /\ s \in Seq(FrameRecord) /\ DOMAIN s = 1..4
      /\ s[1] = f1 /\ s[2] = f2 /\ s[3] = f3 /\ s[4] = f4
  <2> DEFINE t == <<f1, f2, f3>>
             u == <<f4>>
  <2>1. /\ t \in Seq(FrameRecord) /\ Len(t) = 3
        /\ t[1] = f1 /\ t[2] = f2 /\ t[3] = f3
    BY <1>5
  <2>2. u \in Seq(FrameRecord) /\ Len(u) = 1 /\ u[1] = f4
    BY <1>5
  <2>3. s = t \o u
    OBVIOUS
  <2> HIDE DEF t, u, s
  <2>4. /\ t \o u \in Seq(FrameRecord) /\ Len(t \o u) = 4
        /\ \A i \in 1..4 : (t \o u)[i] = IF i <= 3 THEN t[i] ELSE u[i - 3]
    <3>1. /\ t \o u \in Seq(FrameRecord) /\ Len(t \o u) = Len(t) + Len(u)
          /\ \A i \in 1..Len(t) + Len(u) :
               (t \o u)[i] = IF i <= Len(t) THEN t[i] ELSE u[i - Len(t)]
      BY <2>1, <2>2, ConcatProperties, Zenon
    <3> QED
      BY <2>1, <2>2, <3>1
  <2>5. /\ (t \o u)[1] = t[1] /\ (t \o u)[2] = t[2]
        /\ (t \o u)[3] = t[3] /\ (t \o u)[4] = u[1]
    BY <2>4
  <2> QED
    BY <2>1, <2>2, <2>3, <2>4, <2>5
<1> HIDE DEF s
<1>7. agenda \in Seq(FrameRecord) /\ new = s \o Tail(agenda)
  BY <1>1 DEF EvalInv, AgendaInv, Continue
<1> HIDE DEF new
<1>8. \A k \in DOMAIN s : k \in DOMAIN new /\ new[k] = s[k]
  BY <1>2, <1>6, <1>7, ContinuedFrames
<1>9. Covered(nodes, bs, new, 3)
  <2>1. 2 \in DOMAIN new /\ new[2] = f2 /\ new[3] = f3
    BY <1>6, <1>8
  <2>2. new[3].node \in Pending(new, 3)
    BY <1>5, <2>1 DEF Pending, PendingOps
  <2> QED
    BY <2>2, WaitedCover
<1>10. \A k \in DOMAIN s : /\ s[k].op \notin {"copy", "instantiate", "bind"}
                           /\ s[k].op = "do_calls" => k = 3
  BY <1>5, <1>6
<1>11. BodiesArgs(nodes, scopes')
  BY <1>1 DEF Resolved, ResolvedInv
<1>12. \A k \in DOMAIN s : /\ s[k].op \notin {"copy", "instantiate", "bind"}
                           /\ s[k].op = "do_calls" => Covered(nodes, DOMAIN boundIn, agenda', k)
  BY <1>9, <1>10 DEF new
<1>13. agenda[1].op # "copy" /\ agenda[1].op \notin PendingOps
  BY <1>2 DEF PendingOps
<1> QED
  BY <1>1, <1>2, <1>6, <1>11, <1>12, <1>13, ResolvedSilent

\* The process stops
LEMMA ResolvedStops ==
  ASSUME Resolved, NEW why, Stop(why) PROVE Resolved' /\ FreshTargets
BY DEF Stop, Resolved, FreshTargets

\* Every step of the evaluator
LEMMA ResolvedKept ==
  ASSUME EvalInv, Resolved, EvalStep PROVE Resolved' /\ FreshTargets
<1>1. CASE NoRoomForScope \/ SymbolAssertFails \/ NameAssertFails \/ StaleScope \/ NoRoomForNode
           \/ BadFunction \/ BadSymbol
  <2>1. \E why : Stop(why)
    BY <1>1 DEF NoRoomForScope, SymbolAssertFails, NameAssertFails, StaleScope, NoRoomForNode,
                BadFunction, BadSymbol
  <2> QED
    BY <2>1, ResolvedStops
<1>2. CASE EmitText \/ EmitNothing \/ CloseUndefined \/ InvokeComment \/ InvokeReturnArg \/ PutReturned
  <2>1. /\ \E op \in WriteOps : At(op)
        /\ Continue(<<>>) /\ UNCHANGED <<nodes, scopes, boundIn>>
    BY <1>2 DEF EmitText, EmitNothing, CloseUndefined, InvokeComment, InvokeReturnArg, PutReturned,
                AtInvoke, WriteOps
  <2>2. agenda # <<>> /\ agenda[1].op \in WriteOps
    BY <2>1 DEF At
  <2> QED
    BY <2>1, <2>2, WrittenNothing
<1>3. CASE ResolveStep
  BY <1>1, <1>3, ResolvedAssignment, ResolvedSymbolsOfCall, ResolvedSymbolsBelow, ResolvedCallsBelow,
     ResolvedByName, ResolvedByComputedName, ResolvedBindCopy, ResolvedShare, ResolvedExtern,
     ResolvedUndefined, ResolvedCopy, ResolvedInstantiate DEF ResolveStep
<1>4. CASE EmitStep
  BY <1>1, <1>2, <1>4, WrittenChilds, WrittenUndefined, WrittenCall, WrittenArguments,
     ResolvedEvalSymbol DEF EmitStep
<1> QED
  BY <1>3, <1>4 DEF EvalStep

\* The parser makes no call or definition with a second child but an ARGS
LEMMA ParsedArgs ==
  ASSUME ParseInv PROVE ArgsSecond(nodes)
<1>1. Tree(nodes)
  BY DEF ParseInv, ParserInv
<1>2. Linked(nodes)
  BY <1>1 DEF Tree, Linked
<1> SUFFICES ASSUME NEW id \in DOMAIN nodes, nodes[id].type \in Blocks,
                    NEW k \in DOMAIN nodes[id].childs, k >= 2
             PROVE  nodes[nodes[id].childs[k]].type = "ARGS"
  BY DEF ArgsSecond
<1>3. Shape(nodes, id)
  BY <1>1 DEF Tree
<1>4. Len(nodes[id].childs) \in Nat /\ DOMAIN nodes[id].childs = 1..Len(nodes[id].childs)
  BY <1>2, LinkedFacts
<1> QED
  BY <1>3, <1>4 DEF Shape, Blocks

\* When the evaluation starts, the program is to be resolved before it is written
LEMMA ResolvedStart ==
  ASSUME IInv, Start PROVE Resolved'
<1> DEFINE lib == IF pass = 1 THEN Libraries \o VSL ELSE VSL
           base == <<[NewScope(1, 0) EXCEPT !.namespace = lib]>>
           ag == EvalNode(1, 1)
           bs == DOMAIN boundIn
<1>1. /\ scopes' = base /\ agenda' = ag /\ UNCHANGED <<boundIn, nodes>>
      /\ scopes = <<>>
  BY DEF Start, StartEval, Started
<1>2. lib \in Seq(ExternEntry)
  <2>1. Libraries \in Seq(ExternEntry) /\ VSL \in Seq(ExternEntry)
    BY CompilerAssumption
  <2>2. Libraries \o VSL \in Seq(ExternEntry)
    BY <2>1, ConcatProperties
  <2> QED
    BY <2>1, <2>2
<1> HIDE DEF lib
<1>3. ArgsSecond(nodes)
  <2>1. ParseInv
    BY <1>1 DEF IInv, EvalInv, ScopesInv, TypedScopes
  <2> QED
    BY <2>1, ParsedArgs
<1>4. BodiesArgs(nodes, base)
  <2>1. DOMAIN base = {1} /\ base[1].namespace = lib
    BY DEF NewScope
  <2>2. \A i \in DOMAIN lib : lib[i] \in ExternEntry
    BY <1>2
  <2>3. \A e \in ExternEntry : e.type # "internal"
    BY DEF ExternEntry, ExternKinds
  <2> HIDE DEF base
  <2> QED
    BY <2>1, <2>2, <2>3 DEF BodiesArgs
<1>5. /\ DOMAIN ag = {1, 2, 3} /\ ag[1].op = "resolve_symbols"
      /\ ag[2].op = "resolve_calls" /\ ag[3].op = "do_calls" /\ ag[2].node = ag[3].node
  BY DEF EvalNode, Frame
<1> HIDE DEF ag, base, bs
<1>6. CopiesTyped(nodes, ag) /\ BindsCalls(nodes, ag) /\ InstantiateInv(nodes, bs, ag)
  BY <1>5 DEF CopiesTyped, BindsCalls, InstantiateInv
<1>7. CoverInv(nodes, bs, ag)
  <2>1. ag[3].node \in Pending(ag, 3)
    BY <1>5 DEF Pending, PendingOps
  <2>2. Covered(nodes, bs, ag, 3)
    BY <2>1, WaitedCover
  <2> QED
    BY <1>5, <2>2 DEF CoverInv
<1> QED
  BY <1>1, <1>3, <1>4, <1>6, <1>7 DEF Resolved, ResolvedInv, bs

\* While there are scopes, what is to be written is covered
RInv == scopes # <<>> => Resolved

\* The two invariants, of every reachable state
LEMMA CoveredAlways == Spec => [](IInv /\ RInv)
<1>1. Init => RInv
  BY DEF Init, RInv
<1>2. IInv /\ RInv /\ [Next]_vars => RInv'
  <2> SUFFICES ASSUME IInv, RInv, [Next]_vars PROVE RInv'
    OBVIOUS
  <2>1. CASE Parse
    <3>1. ParseStep /\ UNCHANGED scopes
      BY <2>1 DEF Parse, evalVars
    <3>2. parsing = "running"
      BY <3>1, ParsingRuns
    <3>3. scopes = <<>>
      BY <3>2 DEF IInv, EvalInv, ParseInv
    <3> QED
      BY <3>1, <3>3 DEF RInv
  <2>2. CASE Start
    BY <2>2, ResolvedStart DEF RInv
  <2>3. CASE Evaluate
    <3>1. scopes # <<>> /\ EvalStep
      BY <2>3 DEF Evaluate, Started
    <3>2. EvalInv /\ Resolved
      BY <3>1 DEF IInv, ParseInv, RInv
    <3> QED
      BY <3>1, <3>2, ResolvedKept DEF RInv
  <2>4. CASE SecondPass
    BY <2>4 DEF SecondPass, RInv
  <2>5. CASE UNCHANGED vars
    <3>1. UNCHANGED <<nodes, scopes, agenda, boundIn>>
      BY <2>5 DEF vars, evalVars
    <3> QED
      BY <3>1 DEF RInv, Resolved
  <2> QED
    BY <2>1, <2>2, <2>3, <2>4, <2>5 DEF Next
<1> QED
  BY <1>1, <1>2, Invariant, PTL DEF Spec

(* do_calls never meets a call that resolve_calls_call (eval.c:280) has not     *)
(* bound: every call is resolved before it is written, in the program, in each *)
(* argument and in each copied body, and none is dropped without a trace.      *)
THEOREM CallsResolved == Spec => []ResolvedBeforeWritten
<1>1. IInv /\ RInv => ResolvedBeforeWritten
  <2> SUFFICES ASSUME IInv, RInv, AtEmitCall PROVE agenda[1].node \in DOMAIN boundIn
    BY DEF ResolvedBeforeWritten, Head1
  <2>1. At("do_calls") /\ nodes[agenda[1].node].type = "CALL"
    BY DEF AtEmitCall, Head1, Type
  <2>2. EvalInv
    BY <2>1 DEF IInv, ParseInv, At
  <2>3. Resolved
    BY <2>2, ScopeFacts DEF RInv
  <2>4. PICK D : Whole(D) /\ agenda[1].node \in D
    BY <2>1, <2>2, <2>3, HeadWhole
  <2> QED
    BY <2>1, <2>4 DEF Whole, Closed
<1> QED
  BY <1>1, CoveredAlways, PTL

-----------------------------------------------------------------------------
(* The program as it was written.  What is copied is new, and so is the name   *)
(* of a call that was copied; nothing is ever added to a node of the program   *)
(* but the second child of a call that is bound.                               *)

\* The name of a call the parser did not make is a node it did not make
NamesApart ==
  \A id \in NodeIds \ DOMAIN parsed :
    nodes[id].type = "CALL" /\ Len(nodes[id].childs) >= 1 => nodes[id].childs[1] \notin DOMAIN parsed

\* No node of the program is waiting for children
TargetsApart == \A id \in Targets(agenda) : id \notin DOMAIN parsed

ProgramInv == /\ Tree(parsed) /\ DOMAIN parsed \subseteq NodeIds
              /\ ProgramKept /\ NamesApart /\ TargetsApart

\* A node that is not changed is as it was written, or as binding left it
LEMMA WrittenSame ==
  ASSUME NEW id \in DOMAIN parsed, AsWritten(id), nodes'[id] = nodes[id], parsed' = parsed,
         DOMAIN nodes \subseteq DOMAIN nodes', DOMAIN boundIn \subseteq DOMAIN boundIn'
  PROVE  AsWritten(id)'
<1>1. CASE nodes[id] = parsed[id]
  BY <1>1 DEF AsWritten
<1>2. CASE id \in DOMAIN boundIn /\ parsed[id].type = "CALL" /\ CallAsBound(id)
  <2>1. PICK c \in NodeIds : /\ nodes[id] = [parsed[id] EXCEPT !.childs = <<parsed[id].childs[1], c>>]
                             /\ Len(parsed[id].childs) = 2 => c \notin DOMAIN parsed
    BY <1>2 DEF CallAsBound
  <2>2. CallAsBound(id)'
    BY <2>1 DEF CallAsBound, NodeIds
  <2> QED
    BY <1>2, <2>2 DEF AsWritten
<1>3. CASE NameAsBound(id)
  <2>1. NameAsBound(id)'
    BY <1>3 DEF NameAsBound
  <2> QED
    BY <2>1 DEF AsWritten
<1> QED
  BY <1>1, <1>2, <1>3 DEF AsWritten

\* A step lets no node of the program wait for children
LEMMA TargetsStay ==
  ASSUME TargetsApart, FreshTargets, parsed' = parsed, DOMAIN parsed \subseteq NodeIds
  PROVE  TargetsApart'
BY DEF TargetsApart, FreshTargets, NodeIds

\* A step that changes no node
LEMMA ProgramSame ==
  ASSUME ProgramInv, FreshTargets, UNCHANGED <<nodes, parsed>>, DOMAIN boundIn \subseteq DOMAIN boundIn'
  PROVE  ProgramInv'
<1>1. TargetsApart'
  BY TargetsStay DEF ProgramInv
<1>2. NamesApart' /\ Tree(parsed)' /\ (DOMAIN parsed \subseteq NodeIds)'
  BY DEF ProgramInv, NamesApart, NodeIds
<1>3. ASSUME NEW id \in DOMAIN parsed PROVE AsWritten(id)'
  <2>1. AsWritten(id)
    BY DEF ProgramInv, ProgramKept
  <2> QED
    BY <2>1, WrittenSame
<1>4. ProgramKept'
  BY <1>3 DEF ProgramKept
<1> QED
  BY <1>1, <1>2, <1>4 DEF ProgramInv

\* What binding does to the nodes: n is the call, s its name
BindsTo(ns, ms, n, s) ==
  /\ DOMAIN ns \subseteq DOMAIN ms
  /\ \A id \in DOMAIN ns : id \notin {n, s} => ms[id] = ns[id]
  /\ \/ ms[s] = ns[s]
     \/ \E t \in {"FUNCTION", "UNDEFINED"} : ms[s] = [ns[s] EXCEPT !.type = t]
  /\ \/ ms[n] = ns[n]
     \/ /\ Len(ns[n].childs) = 1
        /\ \E c \in DOMAIN ms : ms[n] = [ns[n] EXCEPT !.childs = <<ns[n].childs[1], c>>]
  /\ \A id \in DOMAIN ms \ DOMAIN ns : ms[id].type = "ARGS"

\* A call of the program has one child or two, its name first
LEMMA ProgramCall ==
  ASSUME ProgramInv, NEW id \in DOMAIN parsed, parsed[id].type = "CALL"
  PROVE  /\ parsed[id] \in NodeRecord /\ parsed[id].childs \in Seq(Nat)
         /\ Len(parsed[id].childs) \in {1, 2}
         /\ parsed[id].childs[1] \in DOMAIN parsed /\ parsed[parsed[id].childs[1]].type = "SYMBOL"
<1>1. /\ parsed \in Seq(NodeRecord) /\ Shape(parsed, id)
      /\ \A k \in DOMAIN parsed[id].childs : parsed[id].childs[k] \in DOMAIN parsed
  BY DEF ProgramInv, Tree
<1>2. parsed[id] \in NodeRecord /\ parsed[id].childs \in Seq(Nat)
  <2>1. parsed[id] \in NodeRecord
    BY <1>1
  <2> QED
    BY <2>1 DEF NodeRecord
<1>3. Len(parsed[id].childs) \in {1, 2} /\ parsed[parsed[id].childs[1]].type = "SYMBOL"
  BY <1>1 DEF Shape
<1>4. 1 \in DOMAIN parsed[id].childs
  BY <1>2, <1>3
<1> QED
  BY <1>1, <1>2, <1>3, <1>4

\* A call of the program that is evaluated is a call that was written, with its name
LEMMA CallWritten ==
  ASSUME ProgramInv, NEW id \in DOMAIN parsed, nodes[id].type = "CALL"
  PROVE  /\ parsed[id].type = "CALL" /\ nodes[id].childs[1] = parsed[id].childs[1]
         /\ \/ nodes[id] = parsed[id]
            \/ CallAsBound(id) /\ Len(nodes[id].childs) = 2
<1>1. AsWritten(id) /\ parsed[id] \in NodeRecord
  BY DEF ProgramInv, ProgramKept, Tree
<1>2. CASE nodes[id] = parsed[id]
  BY <1>2
<1>3. CASE parsed[id].type = "CALL" /\ CallAsBound(id)
  <2>1. PICK c \in NodeIds : nodes[id] = [parsed[id] EXCEPT !.childs = <<parsed[id].childs[1], c>>]
    BY <1>3 DEF CallAsBound
  <2>2. nodes[id].childs = <<parsed[id].childs[1], c>>
    BY <1>1, <2>1 DEF NodeRecord
  <2> QED
    BY <1>3, <2>2
<1>4. ~ NameAsBound(id)
  BY DEF NameAsBound
<1> QED
  BY <1>1, <1>2, <1>3, <1>4 DEF AsWritten

\* The name of a call of the program is marked, or left alone
LEMMA NameStep ==
  ASSUME ProgramInv, NEW n \in DOMAIN parsed, nodes[n].type = "CALL", n \in DOMAIN boundIn',
         NEW s, s = nodes[n].childs[1], BindsTo(nodes, nodes', n, s), parsed' = parsed,
         DOMAIN boundIn \subseteq DOMAIN boundIn'
  PROVE  s \in DOMAIN parsed /\ AsWritten(s)'
<1>1. /\ parsed[n].type = "CALL" /\ parsed[n].childs[1] = s
      /\ s \in DOMAIN parsed /\ parsed[s].type = "SYMBOL"
  BY CallWritten, ProgramCall
<1>2. AsWritten(s) /\ parsed[s] \in NodeRecord
  BY <1>1 DEF ProgramInv, ProgramKept, Tree
<1>3. CASE nodes'[s] = nodes[s]
  <2>1. DOMAIN nodes \subseteq DOMAIN nodes'
    BY DEF BindsTo
  <2>2. AsWritten(s)'
    BY <1>1, <1>2, <1>3, <2>1, WrittenSame
  <2> QED
    BY <1>1, <2>2
<1>4. ASSUME NEW t \in {"FUNCTION", "UNDEFINED"}, nodes'[s] = [nodes[s] EXCEPT !.type = t]
      PROVE  AsWritten(s)'
  <2>1. nodes[s] = [parsed[s] EXCEPT !.type = nodes[s].type]
    <3>1. CASE nodes[s] = parsed[s]
      BY <1>2, <3>1 DEF NodeRecord
    <3>2. CASE NameAsBound(s)
      BY <3>2 DEF NameAsBound
    <3> QED
      BY <1>1, <1>2, <3>1, <3>2 DEF AsWritten
  <2>2. nodes'[s] = [parsed[s] EXCEPT !.type = t] /\ nodes'[s].type = t
    BY <1>2, <1>4, <2>1 DEF NodeRecord
  <2>3. n \in DOMAIN boundIn' \intersect DOMAIN parsed
    OBVIOUS
  <2>4. NameAsBound(s)'
    BY <1>1, <2>2, <2>3 DEF NameAsBound
  <2> QED
    BY <2>4 DEF AsWritten
<1>5. \/ nodes'[s] = nodes[s]
      \/ \E t \in {"FUNCTION", "UNDEFINED"} : nodes'[s] = [nodes[s] EXCEPT !.type = t]
  BY DEF BindsTo
<1> QED
  BY <1>1, <1>3, <1>4, <1>5

\* A call of the program is given its second child, or left alone
LEMMA CallStep ==
  ASSUME ProgramInv, NEW n \in DOMAIN parsed, nodes[n].type = "CALL", n \in DOMAIN boundIn',
         NEW s, BindsTo(nodes, nodes', n, s), parsed' = parsed,
         DOMAIN boundIn \subseteq DOMAIN boundIn'
  PROVE  AsWritten(n)'
<1>1. /\ parsed[n].type = "CALL" /\ nodes[n].childs[1] = parsed[n].childs[1]
      /\ \/ nodes[n] = parsed[n]
         \/ Len(nodes[n].childs) = 2
  BY CallWritten
<1>2. AsWritten(n)
  BY DEF ProgramInv, ProgramKept
<1>3. CASE nodes'[n] = nodes[n]
  <2>1. DOMAIN nodes \subseteq DOMAIN nodes'
    BY DEF BindsTo
  <2> QED
    BY <1>2, <1>3, <2>1, WrittenSame
<1>4. ASSUME Len(nodes[n].childs) = 1, NEW c \in DOMAIN nodes',
             nodes'[n] = [nodes[n] EXCEPT !.childs = <<nodes[n].childs[1], c>>]
      PROVE  AsWritten(n)'
  <2>1. nodes[n] = parsed[n]
    BY <1>1, <1>4
  <2>2. nodes'[n] = [parsed[n] EXCEPT !.childs = <<parsed[n].childs[1], c>>] /\ Len(parsed[n].childs) # 2
    BY <1>4, <2>1
  <2>3. CallAsBound(n)'
    BY <2>2 DEF CallAsBound, NodeIds
  <2> QED
    BY <1>1, <2>3 DEF AsWritten
<1>5. \/ nodes'[n] = nodes[n]
      \/ /\ Len(nodes[n].childs) = 1
         /\ \E c \in DOMAIN nodes' : nodes'[n] = [nodes[n] EXCEPT !.childs = <<nodes[n].childs[1], c>>]
  BY DEF BindsTo
<1> QED
  BY <1>3, <1>4, <1>5

\* What is bound is a call, that has a name
LEMMA BoundCall ==
  ASSUME EvalInv, Resolved, At("bind"), NEW n, n = agenda[1].node, NEW s, s = CallSymbol(agenda[1])
  PROVE  /\ n \in DOMAIN nodes /\ nodes[n].type = "CALL" /\ Len(nodes[n].childs) >= 1
         /\ s = nodes[n].childs[1] /\ s \in DOMAIN nodes /\ nodes[s].type \in NameTypes /\ s # n
<1>1. /\ agenda # <<>> /\ agenda[1].op = "bind" /\ FrameInv(agenda[1], nodes, scopes) /\ n \in DOMAIN nodes
  BY AtFacts
<1>2. agenda \in Seq(FrameRecord) /\ BindsCalls(nodes, agenda)
  BY DEF EvalInv, AgendaInv, Resolved, ResolvedInv
<1>3. nodes[n].type = "CALL"
  <2>1. 1 \in DOMAIN agenda
    BY <1>1, <1>2
  <2> QED
    BY <1>1, <1>2, <2>1 DEF BindsCalls
<1>4. Len(nodes[n].childs) >= 1
  BY <1>1 DEF FrameInv, FirstName
<1>5. s \in DOMAIN nodes /\ nodes[s].type \in NameTypes
  BY BindNode
<1>6. s = nodes[n].childs[1]
  BY DEF CallSymbol, NthChild
<1> QED
  BY <1>1, <1>3, <1>4, <1>5, <1>6 DEF NameTypes

\* Binding a call
LEMMA ProgramBound ==
  ASSUME EvalInv, Resolved, ProgramInv, FreshTargets, At("bind"), parsed' = parsed,
         DOMAIN boundIn' = DOMAIN boundIn \union {agenda[1].node},
         BindsTo(nodes, nodes', agenda[1].node, CallSymbol(agenda[1]))
  PROVE  ProgramInv'
<1> DEFINE n == agenda[1].node
           s == CallSymbol(agenda[1])
<1>1. /\ n \in DOMAIN nodes /\ nodes[n].type = "CALL" /\ Len(nodes[n].childs) >= 1
      /\ s = nodes[n].childs[1] /\ s \in DOMAIN nodes /\ nodes[s].type \in NameTypes /\ s # n
  BY BoundCall
<1>2. BindsTo(nodes, nodes', n, s) /\ n \in DOMAIN boundIn' /\ DOMAIN boundIn \subseteq DOMAIN boundIn'
  OBVIOUS
<1> HIDE DEF n, s
<1>3. /\ DOMAIN nodes \subseteq DOMAIN nodes'
      /\ \A id \in DOMAIN nodes : id \notin {n, s} => nodes'[id] = nodes[id]
  BY <1>2 DEF BindsTo
<1>4. TargetsApart' /\ Tree(parsed)' /\ (DOMAIN parsed \subseteq NodeIds)'
  BY <1>3, TargetsStay DEF ProgramInv, NodeIds
<1>5. s \in DOMAIN parsed => n \in DOMAIN parsed
  BY <1>1 DEF ProgramInv, NamesApart, NodeIds
<1>6. ASSUME NEW id \in DOMAIN parsed PROVE AsWritten(id)'
  <2>1. AsWritten(id) /\ id \in DOMAIN nodes
    BY DEF ProgramInv, ProgramKept, NodeIds
  <2>2. CASE id = n
    BY <1>1, <1>2, <2>2, CallStep
  <2>3. CASE id = s
    BY <1>1, <1>2, <1>5, <2>3, NameStep
  <2>4. CASE id \notin {n, s}
    <3>1. nodes'[id] = nodes[id]
      BY <1>3, <2>1, <2>4
    <3> QED
      BY <1>2, <1>3, <2>1, <3>1, WrittenSame
  <2> QED
    BY <2>2, <2>3, <2>4
<1>7. NamesApart'
  <2> SUFFICES ASSUME NEW id \in DOMAIN nodes', id \notin DOMAIN parsed, nodes'[id].type = "CALL",
                      Len(nodes'[id].childs) >= 1
               PROVE  nodes'[id].childs[1] \notin DOMAIN parsed
    BY DEF NamesApart, NodeIds
  <2>1. id \in DOMAIN nodes
    BY <1>2 DEF BindsTo
  <2>2. CASE id = n
    <3>1. nodes[n].childs[1] \notin DOMAIN parsed
      BY <1>1, <2>2 DEF ProgramInv, NamesApart, NodeIds
    <3>2. nodes'[n].childs[1] = nodes[n].childs[1]
      <4>1. nodes[n] \in NodeRecord
        BY <1>1, ScopeFacts, LinkedFacts
      <4>2. ASSUME NEW c, nodes'[n] = [nodes[n] EXCEPT !.childs = <<nodes[n].childs[1], c>>]
            PROVE  nodes'[n].childs = <<nodes[n].childs[1], c>>
        BY <4>1, <4>2 DEF NodeRecord
      <4>3. \/ nodes'[n] = nodes[n]
            \/ \E c \in DOMAIN nodes' : nodes'[n] = [nodes[n] EXCEPT !.childs = <<nodes[n].childs[1], c>>]
        BY <1>2 DEF BindsTo
      <4>4. CASE nodes'[n] = nodes[n]
        BY <4>4
      <4>5. CASE \E c \in DOMAIN nodes' : nodes'[n] = [nodes[n] EXCEPT !.childs = <<nodes[n].childs[1], c>>]
        <5>1. PICK c : nodes'[n] = [nodes[n] EXCEPT !.childs = <<nodes[n].childs[1], c>>]
          BY <4>5
        <5>2. nodes'[n].childs = <<nodes[n].childs[1], c>>
          BY <4>2, <5>1
        <5> QED
          BY <5>2
      <4> QED
        BY <4>3, <4>4, <4>5
    <3> QED
      BY <2>2, <3>1, <3>2
  <2>3. CASE id = s
    <3>1. nodes[s] \in NodeRecord
      BY <1>1, ScopeFacts, LinkedFacts
    <3>2. nodes'[s].type # "CALL"
      <4>1. ASSUME NEW t \in {"FUNCTION", "UNDEFINED"}, nodes'[s] = [nodes[s] EXCEPT !.type = t]
            PROVE  nodes'[s].type # "CALL"
        BY <3>1, <4>1 DEF NodeRecord
      <4> QED
        BY <1>1, <1>2, <4>1 DEF BindsTo, NameTypes
    <3> QED
      BY <2>3, <3>2
  <2>4. CASE id \notin {n, s}
    <3>1. nodes'[id] = nodes[id]
      BY <1>3, <2>1, <2>4
    <3> QED
      BY <2>1, <3>1 DEF ProgramInv, NamesApart, NodeIds
  <2> QED
    BY <2>2, <2>3, <2>4
<1>8. ProgramKept'
  BY <1>6 DEF ProgramKept
<1> QED
  BY <1>4, <1>7, <1>8 DEF ProgramInv

\* So do all outcomes of the lookup
LEMMA ProgramBinds ==
  ASSUME EvalInv, Resolved, ProgramInv, FreshTargets, At("bind"), Bound(agenda[1]), parsed' = parsed,
         BindsTo(nodes, nodes', agenda[1].node, CallSymbol(agenda[1]))
  PROVE  ProgramInv'
<1>1. DOMAIN boundIn' = DOMAIN boundIn \union {agenda[1].node}
  BY DEF Bound
<1> QED
  BY <1>1, ProgramBound

\* A node that is given its children and nothing else
LEMMA ChildsOnly ==
  ASSUME NEW x \in NodeRecord, NEW y \in NodeRecord, y.type = x.type, y.text = x.text
  PROVE  y = [x EXCEPT !.childs = y.childs]
BY DEF NodeRecord

\* A second child is added to a call
LEMMA SecondAdded ==
  ASSUME NEW x \in NodeRecord, NEW y \in NodeRecord, y.type = x.type, y.text = x.text,
         NEW c, y.childs = Append(x.childs, c), Len(x.childs) = 1
  PROVE  y = [x EXCEPT !.childs = <<x.childs[1], c>>]
<1> DEFINE s == x.childs
           t == y.childs
<1>1. s \in Seq(Nat) /\ t \in Seq(Nat) /\ t = Append(s, c) /\ Len(s) = 1
  BY DEF NodeRecord
<1> HIDE DEF s, t
<1>2. Len(t) = 2
  BY <1>1
<1>3. t[1] = s[1] /\ t[2] = c
  BY <1>1
<1>4. c \in Nat /\ s[1] \in Nat
  BY <1>1, <1>2, <1>3
<1> DEFINE u == <<s[1], c>>
<1>5. t = u
  <2>1. u \in Seq(Nat) /\ Len(u) = 2 /\ u[1] = s[1] /\ u[2] = c
    BY <1>4
  <2> HIDE DEF u
  <2>2. DOMAIN t = {1, 2} /\ DOMAIN u = {1, 2} /\ u[1] = t[1] /\ u[2] = t[2]
    BY <1>1, <1>2, <1>3, <2>1
  <2>3. \A k \in DOMAIN t : t[k] = u[k]
    BY <2>2
  <2> QED
    BY <1>1, <2>1, <2>2, <2>3
<1>6. y.childs = <<x.childs[1], c>>
  BY <1>5 DEF s, t
<1> QED
  BY <1>6, ChildsOnly

\* Binding a call to a body it shares
LEMMA ShareBinds ==
  ASSUME EvalInv, Resolved, BindShare
  PROVE  /\ At("bind") /\ Bound(agenda[1])
         /\ BindsTo(nodes, nodes', agenda[1].node, CallSymbol(agenda[1]))
         /\ nodes'[CallSymbol(agenda[1])] = nodes[CallSymbol(agenda[1])]
<1> DEFINE n == agenda[1].node
           s == CallSymbol(agenda[1])
           body == Meaning(agenda[1]).body
<1>1. /\ At("bind") /\ Meaning(agenda[1]).type = "internal" /\ ~ HasArgs(agenda[1])
      /\ nodes' = AddChild(nodes, n, body) /\ Bound(agenda[1])
  BY DEF BindShare, Head1
<1>2. Linked(nodes) /\ NamesClean(nodes)
  BY ScopeFacts
<1>3. /\ n \in DOMAIN nodes /\ nodes[n].type = "CALL" /\ Len(nodes[n].childs) >= 1
      /\ s \in DOMAIN nodes /\ s # n
  BY <1>1, BoundCall
<1>4. body \in DOMAIN nodes
  BY <1>1, BindNode, Found DEF Meaning
<1>5. Len(nodes[n].childs) = 1
  <2>1. Len(nodes[n].childs) \in Nat
    BY <1>2, <1>3, LinkedFacts
  <2>2. ~ (Len(nodes[n].childs) > 1)
    BY <1>1 DEF HasArgs, NumChild
  <2>3. Len(nodes[n].childs) >= 1
    BY <1>3
  <2> DEFINE l == Len(nodes[n].childs)
  <2>4. l \in Nat /\ l >= 1 /\ ~ (l > 1)
    BY <2>1, <2>2, <2>3
  <2> HIDE DEF l
  <2>5. l = 1
    BY <2>4
  <2> QED
    BY <2>5 DEF l
<1> HIDE DEF n, s, body
<1>7. AddedChild(nodes, nodes', n, body)
  <2>1. AddedChild(nodes, AddChild(nodes, n, body), n, body)
    BY <1>2, <1>3, <1>4, AddChildKept
  <2> QED
    BY <1>1, <2>1
<1>8. /\ Linked(nodes') /\ DOMAIN nodes' = DOMAIN nodes
      /\ nodes'[n].type = nodes[n].type /\ nodes'[n].text = nodes[n].text
      /\ nodes'[n].childs = Append(nodes[n].childs, body)
      /\ \A id \in DOMAIN nodes : id # n => nodes'[id] = nodes[id]
  BY <1>2, <1>3, <1>7 DEF AddedChild, Linked
<1>9. nodes'[n] = [nodes[n] EXCEPT !.childs = <<nodes[n].childs[1], body>>]
  <2>1. nodes[n] \in NodeRecord /\ nodes'[n] \in NodeRecord
    BY <1>2, <1>3, <1>8, LinkedFacts
  <2> QED
    BY <1>5, <1>8, <2>1, SecondAdded
<1>10. BindsTo(nodes, nodes', n, s)
  <2>1. body \in DOMAIN nodes' /\ nodes'[s] = nodes[s]
    BY <1>3, <1>4, <1>8
  <2> QED
    BY <1>5, <1>8, <1>9, <2>1 DEF BindsTo
<1>11. BindsTo(nodes, nodes', agenda[1].node, CallSymbol(agenda[1]))
  BY <1>10 DEF n, s
<1>12. nodes'[s] = nodes[s]
  BY <1>3, <1>8
<1> QED
  BY <1>1, <1>11, <1>12 DEF s

\* A name that is marked, and nothing else
LEMMA MarkedOnly ==
  ASSUME EvalInv, At("bind"), NEW type \in {"FUNCTION", "UNDEFINED"},
         NEW ms, ms = SetType(nodes, CallSymbol(agenda[1]), type)
  PROVE  /\ DOMAIN ms = DOMAIN nodes
         /\ ms[CallSymbol(agenda[1])] = [nodes[CallSymbol(agenda[1])] EXCEPT !.type = type]
         /\ \A id \in DOMAIN nodes : id # CallSymbol(agenda[1]) => ms[id] = nodes[id]
<1> DEFINE s == CallSymbol(agenda[1])
<1>1. s \in DOMAIN nodes
  BY BindNode
<1> HIDE DEF s
<1>2. ms = [nodes EXCEPT ![s] = [nodes[s] EXCEPT !.type = type]]
  BY DEF SetType, s
<1>3. /\ DOMAIN ms = DOMAIN nodes /\ ms[s] = [nodes[s] EXCEPT !.type = type]
      /\ \A id \in DOMAIN nodes : id # s => ms[id] = nodes[id]
  BY <1>1, <1>2
<1> QED
  BY <1>3 DEF s

\* Binding a call by marking its name
LEMMA MarkedBinds ==
  ASSUME EvalInv, Resolved, At("bind"), NEW type \in {"FUNCTION", "UNDEFINED"},
         nodes' = SetType(nodes, CallSymbol(agenda[1]), type)
  PROVE  /\ BindsTo(nodes, nodes', agenda[1].node, CallSymbol(agenda[1]))
         /\ nodes'[CallSymbol(agenda[1])].type = type
<1> DEFINE n == agenda[1].node
           s == CallSymbol(agenda[1])
<1>1. /\ DOMAIN nodes' = DOMAIN nodes /\ nodes'[s] = [nodes[s] EXCEPT !.type = type]
      /\ \A id \in DOMAIN nodes : id # s => nodes'[id] = nodes[id]
  BY MarkedOnly
<1>2. n \in DOMAIN nodes /\ s # n /\ s \in DOMAIN nodes
  BY BoundCall
<1> HIDE DEF n, s
<1>3. BindsTo(nodes, nodes', n, s)
  BY <1>1, <1>2 DEF BindsTo
<1>4. nodes'[s].type = type
  <2>1. nodes[s] \in NodeRecord
    BY <1>2, ScopeFacts, LinkedFacts
  <2> QED
    BY <1>1, <2>1 DEF NodeRecord
<1> QED
  BY <1>3, <1>4 DEF n, s

\* Binding a call of an extern function
LEMMA ExternBinds ==
  ASSUME EvalInv, Resolved, BindExtern
  PROVE  /\ At("bind") /\ Bound(agenda[1])
         /\ BindsTo(nodes, nodes', agenda[1].node, CallSymbol(agenda[1]))
<1> DEFINE n == agenda[1].node
           s == CallSymbol(agenda[1])
           ms == SetType(nodes, s, "FUNCTION")
           ls == NewNode(ms, "ARGS", NoText)
           new == Len(nodes) + 1
<1>1. /\ At("bind") /\ Bound(agenda[1])
      /\ \/ nodes' = ms
         \/ ~ HasArgs(agenda[1]) /\ nodes' = AddChild(ls, n, new)
  BY DEF BindExtern, Head1
<1>2. CASE nodes' = ms
  BY <1>1, <1>2, MarkedBinds
<1>3. CASE ~ HasArgs(agenda[1]) /\ nodes' = AddChild(ls, n, new)
  <2>1. /\ Linked(nodes) /\ Len(nodes) \in Nat /\ DOMAIN nodes = 1..Len(nodes)
    BY ScopeFacts
  <2>2. /\ n \in DOMAIN nodes /\ Len(nodes[n].childs) >= 1 /\ s \in DOMAIN nodes /\ s # n
    BY <1>1, BoundCall
  <2>3. Len(nodes[n].childs) = 1
    <3>1. Len(nodes[n].childs) \in Nat
      BY <2>1, <2>2, LinkedFacts
    <3>2. ~ (Len(nodes[n].childs) > 1)
      BY <1>3 DEF HasArgs, NumChild
    <3>3. Len(nodes[n].childs) >= 1
      BY <2>2
    <3> DEFINE l == Len(nodes[n].childs)
    <3>4. l \in Nat /\ l >= 1 /\ ~ (l > 1)
      BY <3>1, <3>2, <3>3
    <3> HIDE DEF l
    <3>5. l = 1
      BY <3>4
    <3> QED
      BY <3>5 DEF l
  <2>5. Linked(ms) /\ NamesClean(ms) /\ Len(ms) = Len(nodes)
    BY <1>1, Marked
  <2>6. /\ DOMAIN ms = DOMAIN nodes /\ ms[s] = [nodes[s] EXCEPT !.type = "FUNCTION"]
        /\ \A id \in DOMAIN nodes : id # s => ms[id] = nodes[id]
    BY <1>1, MarkedOnly
  <2> HIDE DEF ms
  <2>7. "ARGS" \in NodeTypes /\ "ARGS" \notin NameTypes /\ NoText \in Seq(Characters)
    BY DEF NodeTypes, NameTypes, NoText
  <2>8. /\ Linked(ls) /\ NamesClean(ls) /\ Len(ls) = new /\ \A id \in DOMAIN ms : ls[id] = ms[id]
        /\ ls[new].type = "ARGS"
    <3>1. /\ Linked(ls) /\ NamesClean(ls) /\ Len(ls) = Len(ms) + 1
          /\ \A id \in DOMAIN ms : ls[id] = ms[id]
          /\ ls[Len(ms) + 1] = [type |-> "ARGS", text |-> NoText, childs |-> <<>>]
      BY <2>5, <2>7, NewNodeKept
    <3> QED
      BY <2>5, <3>1
  <2> HIDE DEF ls
  <2>9. DOMAIN ls = DOMAIN nodes \union {new} /\ new \notin DOMAIN nodes
    <3>1. DOMAIN ls = 1..Len(ls)
      BY <2>8 DEF Linked
    <3> QED
      BY <2>1, <2>8, <3>1
  <2> HIDE DEF new, n, s
  <2>10. AddedChild(ls, nodes', n, new)
    <3>1. n \in DOMAIN ls /\ new \in DOMAIN ls
      BY <2>2, <2>9
    <3>2. AddedChild(ls, AddChild(ls, n, new), n, new)
      BY <2>8, <3>1, AddChildKept
    <3> QED
      BY <1>3, <3>2
  <2>11. /\ Linked(nodes') /\ DOMAIN nodes' = DOMAIN ls
         /\ \A id \in DOMAIN ls : nodes'[id].type = ls[id].type /\ nodes'[id].text = ls[id].text
         /\ nodes'[n].childs = Append(ls[n].childs, new)
         /\ \A id \in DOMAIN ls : id # n => nodes'[id] = ls[id]
    BY <2>8, <2>10 DEF AddedChild, Linked
  <2>12. nodes'[n] = [nodes[n] EXCEPT !.childs = <<nodes[n].childs[1], new>>]
    <3>1. ls[n] = nodes[n]
      BY <2>2, <2>6, <2>8
    <3>2. /\ nodes'[n].type = nodes[n].type /\ nodes'[n].text = nodes[n].text
          /\ nodes'[n].childs = Append(nodes[n].childs, new)
      BY <2>2, <2>9, <2>11, <3>1
    <3>3. nodes[n] \in NodeRecord /\ nodes'[n] \in NodeRecord
      BY <2>1, <2>2, <2>9, <2>11, LinkedFacts
    <3> QED
      BY <2>3, <3>2, <3>3, SecondAdded
  <2>13. nodes'[s] = [nodes[s] EXCEPT !.type = "FUNCTION"]
    BY <2>2, <2>6, <2>8, <2>9, <2>11
  <2>14. \A id \in DOMAIN nodes : id \notin {n, s} => nodes'[id] = nodes[id]
    BY <2>6, <2>8, <2>9, <2>11
  <2>15. \A id \in DOMAIN nodes' \ DOMAIN nodes : nodes'[id].type = "ARGS"
    BY <2>8, <2>9, <2>11
  <2>16. BindsTo(nodes, nodes', n, s)
    <3>1. new \in DOMAIN nodes' /\ DOMAIN nodes \subseteq DOMAIN nodes'
      BY <2>9, <2>11
    <3> QED
      BY <2>3, <2>12, <2>13, <2>14, <2>15, <3>1 DEF BindsTo
  <2>17. BindsTo(nodes, nodes', agenda[1].node, CallSymbol(agenda[1]))
    BY <2>16 DEF n, s
  <2> QED
    BY <1>1, <2>17
<1> QED
  BY <1>1, <1>2, <1>3

\* Copying a node
LEMMA ProgramCopy ==
  ASSUME EvalInv, ProgramInv, FreshTargets, Copy, parsed' = parsed PROVE ProgramInv'
<1> DEFINE n == agenda[1].node
           p == agenda[1].arg
           c == Len(nodes) + 1
<1>1. /\ agenda # <<>> /\ agenda[1].op = "copy" /\ nodes' = CopyNode(nodes, n, p)
      /\ UNCHANGED boundIn
  BY DEF Copy, Head1, At
<1>2. Linked(nodes) /\ NamesClean(nodes)
  BY ScopeFacts
<1>3. 1 \in DOMAIN agenda /\ n \in DOMAIN nodes /\ (p = 0 \/ p \in DOMAIN nodes)
  <2>1. AgendaInv(nodes, scopes, agenda) /\ agenda \in Seq(FrameRecord)
    BY DEF EvalInv, AgendaInv
  <2>2. 1 \in DOMAIN agenda
    BY <1>1, <2>1
  <2> QED
    BY <1>1, <2>1, <2>2 DEF AgendaInv, FrameInv, CopiesInv
<1>4. p \notin DOMAIN parsed
  <2>1. p \in Targets(agenda)
    BY <1>1, <1>3 DEF Targets
  <2> QED
    BY <2>1 DEF ProgramInv, TargetsApart
<1> HIDE DEF n, p
<1>5. CopiedNode(nodes, nodes', n, p, c)
  <2>1. CopiedNode(nodes, CopyNode(nodes, n, p), n, p, c)
    BY <1>2, <1>3, CopyNodeFacts
  <2> QED
    BY <1>1, <2>1
<1> HIDE DEF c
<1>6. /\ nodes'[c].childs = <<>> /\ DOMAIN nodes' = DOMAIN nodes \union {c} /\ c \notin DOMAIN nodes
      /\ \A id \in DOMAIN nodes : id # p => nodes'[id] = nodes[id]
      /\ \A id \in DOMAIN nodes : nodes'[id].type = nodes[id].type
      /\ p \in DOMAIN nodes => nodes'[p].childs = Append(nodes[p].childs, c)
  BY <1>5 DEF CopiedNode
<1>7. DOMAIN parsed \subseteq DOMAIN nodes
  BY DEF ProgramInv, NodeIds
<1>8. TargetsApart' /\ Tree(parsed)' /\ (DOMAIN parsed \subseteq NodeIds)'
  BY <1>6, TargetsStay DEF ProgramInv, NodeIds
<1>9. ASSUME NEW id \in DOMAIN parsed PROVE AsWritten(id)'
  <2>1. AsWritten(id) /\ nodes'[id] = nodes[id]
    BY <1>4, <1>6, <1>7 DEF ProgramInv, ProgramKept
  <2> QED
    BY <1>1, <1>6, <2>1, WrittenSame
<1>10. NamesApart'
  <2> SUFFICES ASSUME NEW id \in DOMAIN nodes', id \notin DOMAIN parsed, nodes'[id].type = "CALL",
                      Len(nodes'[id].childs) >= 1
               PROVE  nodes'[id].childs[1] \notin DOMAIN parsed
    BY DEF NamesApart, NodeIds
  <2>1. id # c
    BY <1>6
  <2>2. id \in DOMAIN nodes /\ nodes[id].type = "CALL"
    BY <1>6, <2>1
  <2>3. Len(nodes[id].childs) >= 1 => nodes[id].childs[1] \notin DOMAIN parsed
    BY <2>2 DEF ProgramInv, NamesApart, NodeIds
  <2>4. CASE id # p
    BY <1>6, <2>2, <2>3, <2>4
  <2>5. CASE id = p
    <3>1. nodes[id].childs \in Seq(Nat) /\ nodes'[id].childs = Append(nodes[id].childs, c)
      BY <1>2, <1>6, <2>2, <2>5, LinkedFacts
    <3>2. \/ Len(nodes[id].childs) >= 1 /\ nodes'[id].childs[1] = nodes[id].childs[1]
          \/ nodes'[id].childs[1] = c
      BY <3>1
    <3> QED
      BY <1>6, <1>7, <2>3, <3>2
  <2> QED
    BY <2>4, <2>5
<1>11. ProgramKept'
  BY <1>9 DEF ProgramKept
<1> QED
  BY <1>8, <1>10, <1>11 DEF ProgramInv

\* Putting a copy in the second place of a call
LEMMA SecondPut ==
  ASSUME NEW s \in Seq(Nat), Len(s) = 2, NEW c \in Nat
  PROVE  [s EXCEPT ![2] = c] = <<s[1], c>>
<1> DEFINE t == [s EXCEPT ![2] = c]
           u == <<s[1], c>>
<1>1. s[1] \in Nat /\ DOMAIN s = {1, 2}
  OBVIOUS
<1>2. t \in Seq(Nat) /\ DOMAIN t = {1, 2} /\ t[1] = s[1] /\ t[2] = c
  BY <1>1
<1>3. u \in Seq(Nat) /\ DOMAIN u = {1, 2} /\ u[1] = s[1] /\ u[2] = c
  BY <1>1
<1> HIDE DEF t, u
<1>4. \A k \in DOMAIN t : t[k] = u[k]
  BY <1>2, <1>3
<1>5. t = u
  <2>1. t \in [{1, 2} -> Nat] /\ u \in [{1, 2} -> Nat]
    BY <1>2, <1>3
  <2>2. t[1] = u[1] /\ t[2] = u[2]
    BY <1>2, <1>3
  <2> QED
    BY <2>1, <2>2
<1> QED
  BY <1>5 DEF t, u

\* What instantiate does to the nodes
LEMMA InstantiateNodes ==
  ASSUME EvalInv, Resolved, Instantiate, NEW n, n = agenda[1].node, NEW p, p = agenda[1].arg
  PROVE  /\ Refilled(nodes, nodes', n, p)
         /\ \A id \in DOMAIN nodes \ {n, p} : nodes'[id] = nodes[id]
         /\ nodes'[n] = [nodes[n] EXCEPT !.childs = [nodes[n].childs EXCEPT ![2] = p]]
         /\ n \in DOMAIN nodes /\ nodes[n].type = "CALL" /\ Len(nodes[n].childs) >= 2
         /\ n \in DOMAIN boundIn /\ UNCHANGED boundIn
         /\ p \in DOMAIN nodes /\ nodes[p].type = "ARGS" /\ p \in Targets(agenda)
         /\ nodes'[p].text = nodes[p].text
<1> DEFINE a == NthChild(nodes, n, 2)
           childs == [k \in DOMAIN nodes[p].childs |->
                        IF nodes[nodes[p].childs[k]].type = "ARG_REF_ALL_ARGS" THEN a
                        ELSE nodes[p].childs[k]]
           ls == [nodes EXCEPT ![p] = [nodes[p] EXCEPT !.childs = childs]]
<1>1. At("instantiate") /\ nodes' = SetNthChild(ls, n, 2, p) /\ UNCHANGED boundIn
  <2>1. [nodes EXCEPT ![p].childs =
           [k \in DOMAIN @ |-> IF nodes[@[k]].type = "ARG_REF_ALL_ARGS" THEN a ELSE @[k]]] = ls
    OBVIOUS
  <2> HIDE DEF ls
  <2> QED
    BY <2>1 DEF Instantiate, Head1, Type
<1>2. /\ agenda # <<>> /\ agenda[1].op = "instantiate" /\ FrameInv(agenda[1], nodes, scopes)
      /\ n \in DOMAIN nodes
  BY <1>1, AtFacts
<1>3. Len(nodes[n].childs) >= 2
  BY <1>2 DEF FrameInv
<1>4. /\ Linked(nodes) /\ agenda \in Seq(FrameRecord)
      /\ BindsCalls(nodes, agenda) /\ InstantiateInv(nodes, DOMAIN boundIn, agenda)
  BY ScopeFacts DEF EvalInv, AgendaInv, Resolved, ResolvedInv
<1>5. 1 \in DOMAIN agenda
  BY <1>2, <1>4
<1>6. n \in DOMAIN boundIn /\ p \in DOMAIN nodes /\ nodes[p].type = "ARGS"
  BY <1>2, <1>4, <1>5 DEF InstantiateInv
<1>7. nodes[n].type = "CALL" /\ n # p
  BY <1>2, <1>4, <1>5, <1>6 DEF BindsCalls
<1>8. p \in Targets(agenda)
  BY <1>2, <1>5 DEF Targets
<1> HIDE DEF childs, a
<1>9. /\ Refilled(nodes, nodes', n, p)
      /\ SecondReplaced(nodes, nodes', n, p)
  BY <1>1, <1>2, <1>4, <1>6, <1>7, RefilledFacts
<1> QED
  BY <1>1, <1>2, <1>3, <1>6, <1>7, <1>8, <1>9 DEF SecondReplaced

\* A call of the program whose arguments are replaced by a copy
LEMMA CallFilled ==
  ASSUME EvalInv, Resolved, ProgramInv, Instantiate, parsed' = parsed,
         NEW n \in DOMAIN parsed, n = agenda[1].node
  PROVE  AsWritten(n)'
<1> DEFINE p == agenda[1].arg
<1>1. /\ Refilled(nodes, nodes', n, p)
      /\ nodes'[n] = [nodes[n] EXCEPT !.childs = [nodes[n].childs EXCEPT ![2] = p]]
      /\ n \in DOMAIN nodes /\ nodes[n].type = "CALL" /\ Len(nodes[n].childs) >= 2
      /\ n \in DOMAIN boundIn /\ UNCHANGED boundIn
      /\ p \in DOMAIN nodes /\ p \in Targets(agenda)
  BY InstantiateNodes
<1> HIDE DEF p
<1>2. p \notin DOMAIN parsed
  BY <1>1 DEF ProgramInv, TargetsApart
<1>3. p \in DOMAIN nodes' /\ p \in Nat
  <2>1. DOMAIN nodes' = DOMAIN nodes
    BY <1>1 DEF Refilled
  <2>2. DOMAIN nodes = 1..Len(nodes)
    BY ScopeFacts
  <2> QED
    BY <1>1, <2>1, <2>2
<1>4. /\ parsed[n].type = "CALL" /\ nodes[n].childs[1] = parsed[n].childs[1]
      /\ \/ nodes[n] = parsed[n]
         \/ CallAsBound(n) /\ Len(nodes[n].childs) = 2
  BY <1>1, CallWritten
<1>5. /\ parsed[n] \in NodeRecord /\ Len(parsed[n].childs) \in {1, 2}
  BY <1>4, ProgramCall
<1>6. Len(nodes[n].childs) = 2
  <2> DEFINE l == Len(nodes[n].childs)
  <2>1. l >= 2 /\ (l = 2 \/ l \in {1, 2})
    BY <1>1, <1>4, <1>5
  <2> HIDE DEF l
  <2>2. l = 2
    BY <2>1
  <2> QED
    BY <2>2 DEF l
<1>7. nodes[n] \in NodeRecord /\ nodes[n].childs \in Seq(Nat)
  BY <1>1, ScopeFacts, LinkedFacts
<1>8. nodes'[n] = [nodes[n] EXCEPT !.childs = <<parsed[n].childs[1], p>>]
  <2>1. [nodes[n].childs EXCEPT ![2] = p] = <<nodes[n].childs[1], p>>
    BY <1>3, <1>6, <1>7, SecondPut
  <2> QED
    BY <1>1, <1>4, <2>1
<1>9. nodes'[n] = [parsed[n] EXCEPT !.childs = <<parsed[n].childs[1], p>>]
  <2>1. CASE nodes[n] = parsed[n]
    BY <1>8, <2>1
  <2>2. CASE CallAsBound(n)
    <3>1. PICK c \in NodeIds : nodes[n] = [parsed[n] EXCEPT !.childs = <<parsed[n].childs[1], c>>]
      BY <2>2 DEF CallAsBound
    <3> DEFINE x == parsed[n]
    <3>2. nodes'[n] = [[x EXCEPT !.childs = <<x.childs[1], c>>] EXCEPT !.childs = <<x.childs[1], p>>]
      BY <1>8, <3>1
    <3>3. x \in NodeRecord
      BY <1>5
    <3> HIDE DEF x
    <3>4. nodes'[n] = [x EXCEPT !.childs = <<x.childs[1], p>>]
      BY <3>2, <3>3 DEF NodeRecord
    <3> QED
      BY <3>4 DEF x
  <2> QED
    BY <1>4, <2>1, <2>2
<1>10. CallAsBound(n)'
  BY <1>2, <1>3, <1>9 DEF CallAsBound, NodeIds
<1> QED
  BY <1>1, <1>4, <1>10 DEF AsWritten

\* Instantiating a body
LEMMA ProgramInstantiate ==
  ASSUME EvalInv, Resolved, ProgramInv, FreshTargets, Instantiate, parsed' = parsed PROVE ProgramInv'
<1> DEFINE n == agenda[1].node
           p == agenda[1].arg
<1>1. /\ Refilled(nodes, nodes', n, p)
      /\ \A id \in DOMAIN nodes \ {n, p} : nodes'[id] = nodes[id]
      /\ nodes'[n] = [nodes[n] EXCEPT !.childs = [nodes[n].childs EXCEPT ![2] = p]]
      /\ n \in DOMAIN nodes /\ nodes[n].type = "CALL" /\ Len(nodes[n].childs) >= 2
      /\ n \in DOMAIN boundIn /\ UNCHANGED boundIn
      /\ p \in DOMAIN nodes /\ nodes[p].type = "ARGS" /\ p \in Targets(agenda)
  BY InstantiateNodes
<1>2. \A id \in DOMAIN parsed : id = n => AsWritten(id)'
  BY CallFilled
<1> HIDE DEF n, p
<1>3. p \notin DOMAIN parsed
  BY <1>1 DEF ProgramInv, TargetsApart
<1>4. /\ DOMAIN nodes' = DOMAIN nodes /\ \A id \in DOMAIN nodes : nodes'[id].type = nodes[id].type
      /\ nodes'[n].childs = [nodes[n].childs EXCEPT ![2] = p]
  BY <1>1 DEF Refilled
<1>5. DOMAIN parsed \subseteq DOMAIN nodes
  BY DEF ProgramInv, NodeIds
<1>6. TargetsApart' /\ Tree(parsed)' /\ (DOMAIN parsed \subseteq NodeIds)'
  BY <1>4, TargetsStay DEF ProgramInv, NodeIds
<1>7. ASSUME NEW id \in DOMAIN parsed PROVE AsWritten(id)'
  <2>1. CASE id # n
    <3>1. AsWritten(id) /\ nodes'[id] = nodes[id]
      BY <1>1, <1>3, <1>5, <2>1 DEF ProgramInv, ProgramKept
    <3> QED
      BY <1>1, <1>4, <3>1, WrittenSame
  <2> QED
    BY <1>2, <2>1
<1>8. NamesApart'
  <2> SUFFICES ASSUME NEW id \in DOMAIN nodes', id \notin DOMAIN parsed, nodes'[id].type = "CALL",
                      Len(nodes'[id].childs) >= 1
               PROVE  nodes'[id].childs[1] \notin DOMAIN parsed
    BY DEF NamesApart, NodeIds
  <2>1. id \in DOMAIN nodes /\ nodes[id].type = "CALL" /\ id # p
    BY <1>1, <1>4
  <2>2. Len(nodes[id].childs) >= 1 => nodes[id].childs[1] \notin DOMAIN parsed
    BY <2>1 DEF ProgramInv, NamesApart, NodeIds
  <2>3. CASE id = n
    <3>1. nodes[n].childs \in Seq(Nat)
      BY <1>1, ScopeFacts, LinkedFacts
    <3>2. nodes'[n].childs[1] = nodes[n].childs[1] /\ Len(nodes[n].childs) >= 1
      BY <1>1, <1>4, <3>1
    <3> QED
      BY <2>2, <2>3, <3>2
  <2>4. CASE id # n
    BY <1>1, <2>1, <2>2, <2>4
  <2> QED
    BY <2>3, <2>4
<1>9. ProgramKept'
  BY <1>7 DEF ProgramKept
<1> QED
  BY <1>6, <1>8, <1>9 DEF ProgramInv

\* Every step of the evaluator keeps the program as it was written
LEMMA ProgramStep ==
  ASSUME EvalInv, Resolved, ProgramInv, EvalStep, parsed' = parsed PROVE ProgramInv'
<1>1. FreshTargets
  BY ResolvedKept
<1>2. CASE UNCHANGED <<nodes, boundIn>>
  BY <1>1, <1>2, ProgramSame
<1>3. CASE BindCopy
  <2>1. nodes' = nodes /\ DOMAIN boundIn \subseteq DOMAIN boundIn'
    BY <1>3 DEF BindCopy, Bound
  <2> QED
    BY <1>1, <2>1, ProgramSame
<1>4. CASE BindShare
  BY <1>1, <1>4, ShareBinds, ProgramBinds
<1>5. CASE BindExtern
  BY <1>1, <1>5, ExternBinds, ProgramBinds
<1>6. CASE BindUndefined
  <2>1. At("bind") /\ Bound(agenda[1]) /\ nodes' = SetType(nodes, CallSymbol(agenda[1]), "UNDEFINED")
    BY <1>6 DEF BindUndefined, Head1
  <2>2. BindsTo(nodes, nodes', agenda[1].node, CallSymbol(agenda[1]))
    BY <2>1, MarkedBinds
  <2> QED
    BY <1>1, <2>1, <2>2, ProgramBinds
<1>7. CASE Copy
  BY <1>1, <1>7, ProgramCopy
<1>8. CASE Instantiate
  BY <1>1, <1>8, ProgramInstantiate
<1>9. CASE NoRoomForScope \/ SymbolAssertFails \/ NameAssertFails \/ StaleScope \/ NoRoomForNode
           \/ BadFunction \/ BadSymbol
  <2>1. UNCHANGED <<nodes, boundIn>>
    BY <1>9 DEF NoRoomForScope, SymbolAssertFails, NameAssertFails, StaleScope, NoRoomForNode,
                BadFunction, BadSymbol, Stop
  <2> QED
    BY <1>2, <2>1
<1>10. CASE ResolveAssignment \/ ResolveSymbolsOfCall \/ ResolveSymbolsBelow \/ ResolveCallsBelow
            \/ CallByName \/ CallByComputedName
  <2>1. UNCHANGED <<nodes, boundIn>>
    BY <1>10 DEF ResolveAssignment, ResolveSymbolsOfCall, ResolveSymbolsBelow, ResolveCallsBelow,
                 CallByName, CallByComputedName
  <2> QED
    BY <1>2, <2>1
<1>11. CASE EmitStep
  <2>1. CASE BadFunction \/ BadSymbol
    BY <1>9, <2>1
  <2>2. CASE ~ (BadFunction \/ BadSymbol)
    <3>1. UNCHANGED <<nodes, boundIn>>
      BY <1>11, <2>2 DEF EmitStep, EmitChilds, EmitText, EmitNothing, EmitUndefined, CloseUndefined,
                  EmitCall, EmitArguments, InvokeComment, InvokeReturnArg, InvokeEvalSymbol, PutReturned
    <3> QED
      BY <1>2, <3>1
  <2> QED
    BY <2>1, <2>2
<1> QED
  BY <1>3, <1>4, <1>5, <1>6, <1>7, <1>8, <1>9, <1>10, <1>11 DEF EvalStep, ResolveStep

\* Before the evaluation nothing is remembered of the program
PInv == /\ scopes = <<>> => parsed = <<>>
        /\ scopes # <<>> => ProgramInv

\* The evaluation starts with the program as it was written
LEMMA ProgramStart ==
  ASSUME IInv, Start PROVE ProgramInv'
<1>1. /\ parsed' = nodes /\ nodes' = nodes /\ scopes = <<>> /\ agenda' = EvalNode(1, 1)
  BY DEF Start, StartEval, Started
<1>2. ParseInv
  BY <1>1 DEF IInv, EvalInv, ScopesInv, TypedScopes
<1>3. Tree(nodes)
  BY <1>2 DEF ParseInv, ParserInv
<1>4. Targets(agenda') = {}
  <2>1. \A k \in DOMAIN agenda' : agenda'[k].op \notin {"copy", "instantiate"}
    BY <1>1 DEF EvalNode, Frame
  <2> QED
    BY <2>1 DEF Targets
<1>5. TargetsApart'
  BY <1>4 DEF TargetsApart
<1>6. ProgramKept'
  <2>1. ASSUME NEW id \in DOMAIN nodes PROVE AsWritten(id)'
    BY <1>1 DEF AsWritten
  <2> QED
    BY <1>1, <2>1 DEF ProgramKept
<1>7. NamesApart'
  BY <1>1 DEF NamesApart, NodeIds
<1>8. Tree(parsed)' /\ (DOMAIN parsed \subseteq NodeIds)'
  BY <1>1, <1>3 DEF NodeIds
<1> QED
  BY <1>5, <1>6, <1>7, <1>8 DEF ProgramInv

(* Of the AST of the program, evaluation (resolve_calls_call, eval.c:171, and   *)
(* the instantiation of a body, eval.c:260) changes the calls that were bound  *)
(* and their names and nothing else: a body that is shared, copied or filled   *)
(* keeps its texts, its "$*" and its blocks for the next call of it.           *)
THEOREM ProgramAlwaysKept == Spec => []ProgramKept
<1>1. Init => PInv
  BY DEF Init, PInv
<1>2. IInv /\ RInv /\ PInv /\ [Next]_vars => PInv'
  <2> SUFFICES ASSUME IInv, RInv, PInv, [Next]_vars PROVE PInv'
    OBVIOUS
  <2>1. CASE Parse
    <3>1. ParseStep /\ UNCHANGED <<scopes, parsed>>
      BY <2>1 DEF Parse, evalVars
    <3>2. parsing = "running"
      BY <3>1, ParsingRuns
    <3>3. scopes = <<>>
      BY <3>2 DEF IInv, EvalInv, ParseInv
    <3> QED
      BY <3>1, <3>3 DEF PInv
  <2>2. CASE Start
    <3>1. scopes' # <<>>
      BY <2>2 DEF Start, StartEval
    <3> QED
      BY <2>2, <3>1, ProgramStart DEF PInv
  <2>3. CASE Evaluate
    <3>1. scopes # <<>> /\ EvalStep /\ parsed' = parsed
      BY <2>3 DEF Evaluate, Started
    <3>2. EvalInv /\ Resolved /\ ProgramInv
      BY <3>1 DEF IInv, ParseInv, RInv, PInv
    <3>3. ProgramInv'
      BY <3>1, <3>2, ProgramStep
    <3>4. scopes' # <<>>
      <4>1. UNCHANGED parsing
        BY <2>3 DEF Evaluate, parserVars
      <4>2. EvalInv'
        BY <3>1, <3>2, <4>1, StepResolve, StepEmit DEF EvalStep
      <4> QED
        BY <4>2 DEF EvalInv, ScopesInv, TypedScopes
    <3> QED
      BY <3>3, <3>4 DEF PInv
  <2>4. CASE SecondPass
    BY <2>4 DEF SecondPass, PInv
  <2>5. CASE UNCHANGED vars
    <3>1. UNCHANGED <<nodes, scopes, agenda, boundIn, parsed>>
      BY <2>5 DEF vars, evalVars
    <3> QED
      BY <3>1 DEF PInv, ProgramInv, ProgramKept, NamesApart, TargetsApart, AsWritten, CallAsBound,
                  NameAsBound, NodeIds
  <2> QED
    BY <2>1, <2>2, <2>3, <2>4, <2>5 DEF Next
<1>3. PInv => ProgramKept
  BY DEF PInv, ProgramInv, ProgramKept
<1> QED
  BY <1>1, <1>2, <1>3, CoveredAlways, PTL DEF Spec

-----------------------------------------------------------------------------
(* Calls by name.  Every name has a text, and a name marked FUNCTION is one    *)
(* the base scope gives to an extern function first; texts, the first children *)
(* of calls and the first entries of the base scope stay, so that what a call  *)
(* of a function finds when it runs is what it was bound to.                   *)

\* The base scope has an extern function under that name, before anything else
Extern(name) == FindName(scopes[1].namespace, name).type \in ExternKinds

NamesWritten == \A id \in NodeIds : nodes[id].type \in NameTypes => nodes[id].text # NoText
FunctionsFound == \A id \in NodeIds : nodes[id].type = "FUNCTION" => Extern(nodes[id].text)

\* The libraries are registered in the base scope, and nowhere else
ExternsInBase ==
  \A s \in DOMAIN scopes \ {1} : \A i \in DOMAIN scopes[s].namespace :
    scopes[s].namespace[i].type = "internal"

\* A call that waits to be bound, or whose function waits to run
BindsNamed   == \A k \in DOMAIN agenda : agenda[k].op = "bind" => agenda[k].arg = 0
RunsFunction(n) == /\ n \in NodeIds /\ nodes[n].type = "CALL" /\ Len(nodes[n].childs) >= 1
                   /\ nodes[n].childs[1] \in NodeIds /\ Extern(nodes[nodes[n].childs[1]].text)
RunsFunctions == \A k \in DOMAIN agenda : agenda[k].op = "invoke" => RunsFunction(agenda[k].node)

NameFaults == {"not_a_call", "bad_function", "stale_scope"}

NamedInv == /\ NamesWritten /\ FunctionsFound /\ ExternsInBase
            /\ BindsNamed /\ RunsFunctions /\ fault \notin NameFaults

\* What a step may do to the texts of nodes and to the names of calls
TextsKept(ns, ms) ==
  /\ DOMAIN ns \subseteq DOMAIN ms
  /\ \A id \in DOMAIN ns :
       /\ ms[id].text = ns[id].text
       /\ ns[id].type = "CALL" /\ Len(ns[id].childs) >= 1 =>
            /\ ms[id].type = "CALL" /\ Len(ms[id].childs) >= 1 /\ ms[id].childs[1] = ns[id].childs[1]

\* Every name is one there was, and is marked as a function if it was or if it is one
NamesFrom(ns, ms) ==
  \A id \in DOMAIN ms : ms[id].type \in NameTypes =>
    \E k \in DOMAIN ns :
      /\ ns[k].type \in NameTypes /\ ms[id].text = ns[k].text
      /\ ms[id].type = "FUNCTION" => ns[k].type = "FUNCTION" \/ Extern(ns[k].text)

\* What a step may do to the scopes
ScopesKept == /\ \A name : Extern(name) => Extern(name)'
              /\ ExternsInBase'

\* Frames that neither bind a call nor run a function
WaitOps == {"bind", "invoke"}
Plain(s) == /\ Len(s) \in Nat /\ s = [k \in 1..Len(s) |-> s[k]]
            /\ \A k \in 1..Len(s) : s[k].op \notin WaitOps

\* A step leaves no other such frames than there were, but f
CarriedWith(f) == \A k \in DOMAIN agenda' : agenda'[k].op \in WaitOps =>
                   agenda'[k] = f \/ \E j \in DOMAIN agenda : agenda'[k] = agenda[j]
Carried == \A k \in DOMAIN agenda' : agenda'[k].op \in WaitOps =>
             \E j \in DOMAIN agenda : agenda'[k] = agenda[j]

LEMMA PlainNothing == Plain(<<>>)
<1> DEFINE s == <<>>
<1>1. Len(s) = 0 /\ s = [k \in 1..0 |-> s[k]] /\ 1..0 = {}
  OBVIOUS
<1> HIDE DEF s
<1>2. Plain(s)
  BY <1>1 DEF Plain
<1> QED
  BY <1>2 DEF s

LEMMA PlainLoop ==
  ASSUME NEW n \in Nat, NEW s, s = [k \in 1..n |-> s[k]], \A k \in 1..n : s[k].op \notin WaitOps
  PROVE  Plain(s)
<1>1. Len(s) = n
  <2> DEFINE S == {s[k] : k \in 1..n}
  <2>1. s \in [1..n -> S]
    OBVIOUS
  <2> HIDE DEF S
  <2>2. s \in Seq(S) /\ DOMAIN s = 1..n
    BY <2>1
  <2>3. Len(s) \in Nat /\ DOMAIN s = 1..Len(s)
    BY <2>2
  <2> QED
    BY <2>2, <2>3
<1> QED
  BY <1>1 DEF Plain

LEMMA PlainOne ==
  ASSUME NEW f, f.op \notin WaitOps PROVE Plain(<<f>>)
<1> DEFINE s == <<f>>
<1>1. s = [k \in 1..1 |-> s[k]] /\ s[1] = f
  OBVIOUS
<1> HIDE DEF s
<1>2. \A k \in 1..1 : s[k].op \notin WaitOps
  BY <1>1
<1>3. Plain(s)
  BY <1>1, <1>2, PlainLoop
<1> QED
  BY <1>3 DEF s

LEMMA PlainConcat ==
  ASSUME NEW s, NEW t, Plain(s), Plain(t) PROVE Plain(s \o t)
<1> DEFINE m == Len(s)
           n == Len(t)
           S == {s[k] : k \in 1..m} \union {t[k] : k \in 1..n}
           u == s \o t
<1>1. m \in Nat /\ n \in Nat /\ s \in [1..m -> S] /\ t \in [1..n -> S]
  BY DEF Plain
<1>2. /\ \A k \in 1..m : s[k].op \notin WaitOps
      /\ \A k \in 1..n : t[k].op \notin WaitOps
  BY DEF Plain
<1> HIDE DEF S
<1>3. s \in Seq(S) /\ t \in Seq(S)
  BY <1>1
<1>4. u \in Seq(S) /\ Len(u) = m + n /\ \A i \in 1..(m + n) : u[i] = IF i <= m THEN s[i] ELSE t[i - m]
  BY <1>3, ConcatProperties
<1> HIDE DEF u
<1>5. u = [k \in 1..(m + n) |-> u[k]]
  <2>1. DOMAIN u = 1..Len(u) /\ u = [k \in DOMAIN u |-> u[k]]
    BY <1>4
  <2> QED
    BY <1>4, <2>1
<1> HIDE DEF m, n
<1>6. ASSUME NEW k \in 1..(m + n) PROVE u[k].op \notin WaitOps
  <2>1. CASE k <= m
    <3>1. k \in 1..m /\ u[k] = s[k]
      BY <1>1, <1>4, <2>1
    <3> QED
      BY <1>2, <3>1 DEF m
  <2>2. CASE ~ (k <= m)
    <3>1. k - m \in 1..n /\ u[k] = t[k - m]
      BY <1>1, <1>4, <2>2
    <3> QED
      BY <1>2, <3>1 DEF n
  <2> QED
    BY <2>1, <2>2
<1>7. m + n \in Nat
  BY <1>1
<1>8. Plain(u)
  BY <1>5, <1>6, <1>7, PlainLoop
<1> QED
  BY <1>8 DEF u

LEMMA PlainTwo ==
  ASSUME NEW f, NEW g, f.op \notin WaitOps, g.op \notin WaitOps PROVE Plain(<<f, g>>)
<1> DEFINE s == <<f, g>>
<1>1. s = [k \in 1..2 |-> s[k]] /\ s[1] = f /\ s[2] = g
  OBVIOUS
<1> HIDE DEF s
<1>2. \A k \in 1..2 : s[k].op \notin WaitOps
  BY <1>1
<1>3. Plain(s)
  BY <1>1, <1>2, PlainLoop
<1> QED
  BY <1>3 DEF s

LEMMA PlainThree ==
  ASSUME NEW f, NEW g, NEW h, f.op \notin WaitOps, g.op \notin WaitOps, h.op \notin WaitOps
  PROVE  Plain(<<f, g, h>>)
<1> DEFINE s == <<f, g, h>>
<1>1. s = [k \in 1..3 |-> s[k]] /\ s[1] = f /\ s[2] = g /\ s[3] = h
  OBVIOUS
<1> HIDE DEF s
<1>2. \A k \in 1..3 : s[k].op \notin WaitOps
  BY <1>1
<1>3. Plain(s)
  BY <1>1, <1>2, PlainLoop
<1> QED
  BY <1>3 DEF s

LEMMA PlainStep ==
  ASSUME agenda \in Seq(FrameRecord), agenda # <<>>, NEW s, Plain(s), Continue(s)
  PROVE  Carried
<1> DEFINE S == FrameRecord \union {s[k] : k \in 1..Len(s)}
           new == agenda'
<1>1. s \in [1..Len(s) -> S] /\ Len(s) \in Nat /\ \A k \in 1..Len(s) : s[k].op \notin WaitOps
  BY DEF Plain
<1>2. FrameRecord \subseteq S
  OBVIOUS
<1> HIDE DEF S
<1>3. s \in Seq(S) /\ DOMAIN s = 1..Len(s)
  BY <1>1
<1>4. agenda \in Seq(S)
  BY <1>2
<1>5. new = s \o Tail(agenda)
  BY DEF Continue
<1> HIDE DEF new
<1>6. \A k \in DOMAIN new :
        \/ k \in DOMAIN s /\ new[k] = s[k]
        \/ k > Len(s) /\ \E j \in DOMAIN agenda : new[k] = agenda[j]
  <2>1. s \in Seq(S)
    BY <1>3
  <2> QED
    BY <1>4, <1>5, <2>1, ContinuedFrames
<1>7. ASSUME NEW k \in DOMAIN new, new[k].op \in WaitOps
      PROVE  \E j \in DOMAIN agenda : new[k] = agenda[j]
  BY <1>1, <1>3, <1>6, <1>7
<1> QED
  BY <1>7 DEF Carried, new

\* One frame that waits for a name or for arguments, after one that does not or first
LEMMA WaitStep ==
  ASSUME agenda \in Seq(FrameRecord), agenda # <<>>, NEW s, NEW f, Continue(s),
         s \in Seq(FrameRecord), \A k \in DOMAIN s : s[k] = f \/ s[k].op \notin WaitOps
  PROVE  CarriedWith(f)
<1> DEFINE new == agenda'
<1>1. new = s \o Tail(agenda)
  BY DEF Continue
<1> HIDE DEF new
<1>2. \A k \in DOMAIN new :
        \/ k \in DOMAIN s /\ new[k] = s[k]
        \/ k > Len(s) /\ \E j \in DOMAIN agenda : new[k] = agenda[j]
  BY <1>1, ContinuedFrames
<1>3. ASSUME NEW k \in DOMAIN new, new[k].op \in WaitOps
      PROVE  new[k] = f \/ \E j \in DOMAIN agenda : new[k] = agenda[j]
  BY <1>2, <1>3
<1> QED
  BY <1>3 DEF CarriedWith, new

\* The frames of a loop over the children of a node
LEMMA PlainChilds ==
  ASSUME EvalInv, NEW n \in DOMAIN nodes, NEW op, op \notin WaitOps, NEW scope
  PROVE  Plain(ForEachChild(op, scope, n))
<1> DEFINE s == ForEachChild(op, scope, n)
           l == Len(nodes[n].childs)
<1>1. l \in Nat /\ DOMAIN nodes[n].childs = 1..l
  BY ScopeFacts, LinkedFacts
<1>2. s = [k \in 1..l |-> Frame(op, scope, NthChild(nodes, n, k))]
  BY <1>1 DEF ForEachChild
<1> HIDE DEF l, s
<1>3. s = [k \in 1..l |-> s[k]] /\ \A k \in 1..l : s[k] = Frame(op, scope, NthChild(nodes, n, k))
  BY <1>2
<1>4. \A k \in 1..l : s[k].op \notin WaitOps
  BY <1>3 DEF Frame
<1>5. Plain(s)
  BY <1>1, <1>3, <1>4, PlainLoop
<1> QED
  BY <1>5 DEF s

\* A frame of an operation that is not one of these
LEMMA PlainFrame ==
  ASSUME NEW op, op \notin WaitOps, NEW scope, NEW n PROVE Frame(op, scope, n).op \notin WaitOps
BY DEF Frame

LEMMA OtherOps ==
  /\ "resolve_symbols" \notin WaitOps /\ "resolve_calls" \notin WaitOps /\ "copy" \notin WaitOps
  /\ "instantiate" \notin WaitOps /\ "do_calls" \notin WaitOps /\ "close" \notin WaitOps
  /\ "returned" \notin WaitOps
BY DEF WaitOps

\* The steps of the resolution but the binding of names leave no more of them
LEMMA ResolveCarried ==
  ASSUME EvalInv, ResolveStep
  PROVE  Carried \/ CallByName \/ CallByComputedName
<1> DEFINE f == agenda[1]
<1>0. agenda \in Seq(FrameRecord)
  BY DEF EvalInv, AgendaInv
<1>a. ASSUME agenda # <<>>, NEW s, Plain(s), Continue(s) PROVE Carried
  BY <1>0, <1>a, PlainStep
<1>1. CASE ResolveAssignment
  <2>1. agenda # <<>> /\ Continue(<<>>)
    BY <1>1 DEF ResolveAssignment, At
  <2> QED
    BY <1>a, <2>1, PlainNothing
<1>2. CASE ResolveSymbolsOfCall
  <2>1. At("resolve_symbols") /\ Continue(ForEachChild("resolve_symbols", Len(scopes) + 1, f.node))
    BY <1>2 DEF ResolveSymbolsOfCall, Head1
  <2>2. agenda # <<>> /\ f.node \in DOMAIN nodes
    BY <2>1, AtFacts
  <2>3. Plain(ForEachChild("resolve_symbols", Len(scopes) + 1, f.node))
    BY <2>2, OtherOps, PlainChilds
  <2> QED
    BY <1>a, <2>1, <2>2, <2>3
<1>3. CASE ResolveSymbolsBelow
  <2>1. At("resolve_symbols") /\ Continue(ForEachChild("resolve_symbols", f.scope, f.node))
    BY <1>3 DEF ResolveSymbolsBelow, Head1
  <2>2. agenda # <<>> /\ f.node \in DOMAIN nodes
    BY <2>1, AtFacts
  <2>3. Plain(ForEachChild("resolve_symbols", f.scope, f.node))
    BY <2>2, OtherOps, PlainChilds
  <2> QED
    BY <1>a, <2>1, <2>2, <2>3
<1>4. CASE ResolveCallsBelow
  <2>1. /\ At("resolve_calls")
        /\ Continue(ForEachChild("resolve_calls", f.scope, f.node)) \/ Continue(<<>>)
    BY <1>4 DEF ResolveCallsBelow, Head1
  <2>2. agenda # <<>> /\ f.node \in DOMAIN nodes
    BY <2>1, AtFacts
  <2>3. Plain(ForEachChild("resolve_calls", f.scope, f.node))
    BY <2>2, OtherOps, PlainChilds
  <2> QED
    BY <1>a, <2>1, <2>2, <2>3, PlainNothing
<1>5. CASE BindCopy
  <2> DEFINE c == Frame("copy", 0, Meaning(f).body)
             i == [Frame("instantiate", f.scope, f.node) EXCEPT !.arg = Len(nodes) + 1]
  <2>1. agenda # <<>> /\ Continue(<<c, i>>)
    BY <1>5 DEF BindCopy, Head1, At
  <2>2. c.op \notin WaitOps /\ i.op \notin WaitOps
    BY OtherOps DEF Frame
  <2> HIDE DEF c, i
  <2>3. Plain(<<c, i>>)
    BY <2>2, PlainTwo
  <2> QED
    BY <1>a, <2>1, <2>3
<1>6. CASE BindShare
  <2> DEFINE body == Meaning(f).body
             a == Frame("resolve_symbols", f.scope, body)
             b == Frame("resolve_calls", f.scope, body)
             d == ForEachChild("resolve_calls", f.scope, f.node)
  <2>1. At("bind") /\ Continue(<<a>> \o d \o <<b>>)
    BY <1>6 DEF BindShare, Head1, Descent
  <2>2. agenda # <<>> /\ f.node \in DOMAIN nodes
    BY <2>1, AtFacts
  <2>3. a.op \notin WaitOps /\ b.op \notin WaitOps /\ Plain(d)
    BY <2>2, OtherOps, PlainFrame, PlainChilds
  <2> HIDE DEF a, b, d
  <2>4. Plain(<<a>>) /\ Plain(<<b>>)
    BY <2>3, PlainOne
  <2>5. Plain(<<a>> \o d)
    BY <2>3, <2>4, PlainConcat
  <2>6. Plain(<<a>> \o d \o <<b>>)
    BY <2>4, <2>5, PlainConcat
  <2> QED
    BY <1>a, <2>1, <2>2, <2>6
<1>7. CASE BindExtern \/ BindUndefined
  <2>1. At("bind") /\ Continue(ForEachChild("resolve_calls", f.scope, f.node))
    BY <1>7 DEF BindExtern, BindUndefined, Head1, Descent
  <2>2. agenda # <<>> /\ f.node \in DOMAIN nodes
    BY <2>1, AtFacts
  <2>3. Plain(ForEachChild("resolve_calls", f.scope, f.node))
    BY <2>2, OtherOps, PlainChilds
  <2> QED
    BY <1>a, <2>1, <2>2, <2>3
<1>8. CASE Copy
  <2> DEFINE l == Len(nodes[f.node].childs)
             s == [k \in DOMAIN nodes[f.node].childs |->
                     [Frame("copy", 0, NthChild(nodes, f.node, k)) EXCEPT !.arg = Len(nodes) + 1]]
  <2>1. agenda # <<>> /\ Continue(s)
    BY <1>8 DEF Copy, Head1, At
  <2>2. f.node \in DOMAIN nodes
    BY <1>0, <2>1 DEF EvalInv, AgendaInv, FrameInv
  <2>3. l \in Nat /\ DOMAIN nodes[f.node].childs = 1..l
    BY <2>2, ScopeFacts, LinkedFacts
  <2>4. s = [k \in 1..l |-> s[k]] /\ \A k \in 1..l : s[k].op = "copy"
    BY <2>3 DEF Frame
  <2> HIDE DEF s, l
  <2>5. Plain(s)
    BY <2>3, <2>4, OtherOps, PlainLoop
  <2> QED
    BY <1>a, <2>1, <2>5
<1>9. CASE Instantiate
  <2> DEFINE a == Frame("resolve_symbols", f.scope, f.arg)
             b == Frame("resolve_calls", f.scope, NthChild(nodes, f.node, 1))
             c == Frame("resolve_calls", f.scope, f.arg)
  <2>1. agenda # <<>> /\ Continue(<<a, b, c>>)
    BY <1>9 DEF Instantiate, Head1, At
  <2>2. a.op \notin WaitOps /\ b.op \notin WaitOps /\ c.op \notin WaitOps
    BY OtherOps, PlainFrame
  <2> HIDE DEF a, b, c
  <2>3. Plain(<<a, b, c>>)
    BY <2>2, PlainThree
  <2> QED
    BY <1>a, <2>1, <2>3
<1>10. CASE NoRoomForScope \/ SymbolAssertFails \/ NameAssertFails \/ StaleScope \/ NoRoomForNode
  <2>1. agenda' = agenda
    BY <1>10 DEF NoRoomForScope, SymbolAssertFails, NameAssertFails, StaleScope, NoRoomForNode, Stop
  <2> QED
    BY <2>1 DEF Carried
<1> QED
  BY <1>1, <1>2, <1>3, <1>4, <1>5, <1>6, <1>7, <1>8, <1>9, <1>10 DEF ResolveStep

\* So do those of do_calls, but the call of a function
LEMMA EmitCarried ==
  ASSUME EvalInv, EmitStep
  PROVE  Carried \/ EmitArguments
<1> DEFINE f == agenda[1]
           g(n, flags) == EmitFrame(n, flags)
<1>0. agenda \in Seq(FrameRecord)
  BY DEF EvalInv, AgendaInv
<1>a. ASSUME agenda # <<>>, NEW s, Plain(s), Continue(s) PROVE Carried
  BY <1>0, <1>a, PlainStep
<1>b. \A n, flags : g(n, flags).op = "do_calls"
  BY DEF EmitFrame, Frame
<1> HIDE DEF g
<1>1. CASE EmitChilds
  <2> DEFINE l == Len(nodes[f.node].childs)
             PlaceOf(k) == (IF k = 1 THEN {"FIRST_CHILD"} ELSE {})
                           \union (IF k = l THEN {"LAST_CHILD"} ELSE {})
             s == [k \in 1..l |-> g(NthChild(nodes, f.node, k), PlaceOf(k))]
  <2>1. At("do_calls") /\ Continue(s)
    BY <1>1 DEF EmitChilds, Head1, NumChild, g
  <2>2. agenda # <<>> /\ f.node \in DOMAIN nodes
    BY <2>1, AtFacts
  <2>3. l \in Nat
    BY <2>2, ScopeFacts, LinkedFacts
  <2> HIDE DEF PlaceOf
  <2>4. s = [k \in 1..l |-> s[k]] /\ \A k \in 1..l : s[k].op = "do_calls"
    BY <1>b
  <2> HIDE DEF s, l
  <2>5. Plain(s)
    BY <2>3, <2>4, OtherOps, PlainLoop
  <2> QED
    BY <1>a, <2>1, <2>2, <2>5
<1>2. CASE EmitText \/ EmitNothing \/ CloseUndefined \/ InvokeComment \/ InvokeReturnArg \/ PutReturned
  <2>1. agenda # <<>> /\ Continue(<<>>)
    BY <1>2 DEF EmitText, EmitNothing, CloseUndefined, InvokeComment, InvokeReturnArg, PutReturned,
                AtInvoke, At
  <2> QED
    BY <1>a, <2>1, PlainNothing
<1>3. CASE EmitUndefined
  <2> DEFINE a == NthChild(nodes, f.node, 2)
             args == IF HasArgs(f) THEN nodes[a].childs ELSE <<>>
             s == [k \in DOMAIN args |-> g(args[k], f.flags)]
             h == Frame("close", 0, f.node)
  <2>1. At("do_calls") /\ Continue(s \o <<h>>)
    BY <1>3 DEF EmitUndefined, AtEmitCall, Head1, g
  <2>2. agenda # <<>> /\ f.node \in DOMAIN nodes
    BY <2>1, AtFacts
  <2>3. args \in Seq(Nat)
    <3>1. CASE HasArgs(f)
      <4>1. a \in DOMAIN nodes
        BY <2>2, <3>1, ScopeFacts, ArgsFacts
      <4> HIDE DEF a
      <4>2. nodes[a].childs \in Seq(Nat)
        BY <4>1, ScopeFacts, LinkedFacts
      <4> QED
        BY <3>1, <4>2
    <3>2. CASE ~ HasArgs(f)
      BY <3>2
    <3> QED
      BY <3>1, <3>2
  <2> HIDE DEF args
  <2>4. Len(args) \in Nat /\ DOMAIN args = 1..Len(args)
    BY <2>3
  <2>5. s = [k \in 1..Len(args) |-> s[k]] /\ \A k \in 1..Len(args) : s[k].op = "do_calls"
    BY <1>b, <2>4
  <2>6. h.op \notin WaitOps
    BY OtherOps, PlainFrame
  <2> HIDE DEF s, h
  <2>7. Plain(s)
    BY <2>4, <2>5, OtherOps, PlainLoop
  <2>8. Plain(s \o <<h>>)
    BY <2>6, <2>7, PlainOne, PlainConcat
  <2> QED
    BY <1>a, <2>1, <2>2, <2>8
<1>4. CASE EmitCall
  <2> DEFINE h == g(NthChild(nodes, f.node, 2), f.flags)
  <2>1. agenda # <<>> /\ Continue(<<h>>)
    BY <1>4 DEF EmitCall, AtEmitCall, Head1, At, g
  <2>2. h.op \notin WaitOps
    BY <1>b, OtherOps
  <2> HIDE DEF h
  <2>3. Plain(<<h>>)
    BY <2>2, PlainOne
  <2> QED
    BY <1>a, <2>1, <2>3
<1>5. CASE InvokeEvalSymbol
  <2> DEFINE body == Evaluated(f).body
             a == Frame("resolve_symbols", RunScope(f), body)
             b == Frame("resolve_calls", RunScope(f), body)
             c == Frame("do_calls", 0, body)
             d == Frame("returned", 0, f.node)
  <2>1. agenda # <<>> /\ Continue(<<a, b, c>> \o <<d>>)
    BY <1>5 DEF InvokeEvalSymbol, EvalNode, AtInvoke, Head1, At
  <2>2. a.op \notin WaitOps /\ b.op \notin WaitOps /\ c.op \notin WaitOps /\ d.op \notin WaitOps
    BY OtherOps, PlainFrame
  <2> HIDE DEF a, b, c, d
  <2>3. Plain(<<a, b, c>>) /\ Plain(<<d>>)
    BY <2>2, PlainOne, PlainThree
  <2>4. Plain(<<a, b, c>> \o <<d>>)
    BY <2>3, PlainConcat
  <2> QED
    BY <1>a, <2>1, <2>4
<1>6. CASE BadFunction \/ BadSymbol
  <2>1. agenda' = agenda
    BY <1>6 DEF BadFunction, BadSymbol, Stop
  <2> QED
    BY <2>1 DEF Carried
<1> QED
  BY <1>1, <1>2, <1>3, <1>4, <1>5, <1>6 DEF EmitStep

\* A name that is looked up: what is not internal is in the base scope
LEMMA ExternFound ==
  ASSUME EvalInv, ExternsInBase, NEW from \in DOMAIN scopes, NEW name,
         FindSymbol(from, name).type \in ExternKinds
  PROVE  Extern(name)
<1> DEFINE e == FindSymbol(from, name)
<1>1. /\ scopes \in Seq(ScopeRecord) /\ FathersFirst /\ from \in 0..Len(scopes)
      /\ \A s \in DOMAIN scopes : scopes[s] \in ScopeRecord
  BY ScopeFacts
<1>2. e # NoEntry /\ e.type # "internal"
  BY DEF NoEntry, ExternKinds
<1>3. PICK s \in DOMAIN scopes : e = FindName(scopes[s].namespace, name)
  BY <1>1, <1>2, SymbolScope
<1>4. s = 1
  <2>1. SUFFICES ASSUME s # 1 PROVE FALSE
    OBVIOUS
  <2>2. scopes[s].namespace \in Seq(EntryType)
    BY <1>1 DEF ScopeRecord
  <2>3. \E i \in DOMAIN scopes[s].namespace : e = scopes[s].namespace[i]
    BY <1>2, <1>3, <2>2, FindNameFacts
  <2> QED
    BY <1>2, <2>1, <2>3 DEF ExternsInBase
<1> QED
  BY <1>3, <1>4 DEF Extern

\* A function the base scope has is what is found there
LEMMA ExternIsFound ==
  ASSUME EvalInv, NEW name, Extern(name) PROVE FindSymbol(1, name).type \in ExternKinds
<1>1. scopes \in Seq(ScopeRecord) /\ FathersFirst /\ 1 \in DOMAIN scopes
  BY ScopeFacts
<1> QED
  BY <1>1, SymbolOfBase DEF Extern

\* No scope loses a function, and none but the base scope gets one
LEMMA ScopesKeptSame ==
  ASSUME ExternsInBase, scopes' = scopes PROVE ScopesKept
BY DEF ScopesKept, Extern, ExternsInBase

LEMMA ScopesKeptEntry ==
  ASSUME EvalInv, ExternsInBase, ResolveAssignment PROVE ScopesKept
<1> DEFINE f == agenda[1]
           e == InternalEntry(nodes[NthChild(nodes, f.node, 1)].text, NthChild(nodes, f.node, 2))
<1>1. At("resolve_symbols") /\ scopes' = AddEntry(scopes, f.scope, e)
  BY DEF ResolveAssignment, Head1
<1>2. f.scope \in DOMAIN scopes
  BY <1>1, AtFacts, ScopeOfFrame
<1>3. scopes \in Seq(ScopeRecord) /\ 1 \in DOMAIN scopes
  BY ScopeFacts
<1>4. e.type = "internal"
  BY DEF InternalEntry
<1> HIDE DEF e
<1> DEFINE t == f.scope
<1>5. /\ DOMAIN scopes' = DOMAIN scopes
      /\ \A s \in DOMAIN scopes : s # t => scopes'[s] = scopes[s]
      /\ scopes'[t].namespace = Append(scopes[t].namespace, e)
      /\ \A s \in DOMAIN scopes : scopes[s].namespace \in Seq(EntryType)
  <2>1. \A s \in DOMAIN scopes : scopes[s] \in ScopeRecord
    BY <1>3
  <2> QED
    BY <1>1, <1>2, <2>1 DEF AddEntry, ScopeRecord
<1>6. t \in DOMAIN scopes
  BY <1>2
<1> HIDE DEF t
<1>7. ASSUME NEW name, Extern(name) PROVE Extern(name)'
  <2>1. FindName(scopes[1].namespace, name) # NoEntry
    BY <1>7 DEF Extern, NoEntry, ExternKinds
  <2>2. CASE t = 1
    <3>1. FindName(Append(scopes[1].namespace, e), name) = FindName(scopes[1].namespace, name)
      BY <1>3, <1>5, <2>1, FindNameAppended
    <3> QED
      BY <1>5, <1>7, <2>2, <3>1 DEF Extern
  <2>3. CASE t # 1
    BY <1>3, <1>5, <1>7, <2>3 DEF Extern
  <2> QED
    BY <2>2, <2>3
<1>8. ExternsInBase'
  <2> SUFFICES ASSUME NEW s \in DOMAIN scopes', s # 1, NEW i \in DOMAIN scopes'[s].namespace
               PROVE  scopes'[s].namespace[i].type = "internal"
    BY DEF ExternsInBase
  <2>1. CASE s = t
    <3> DEFINE ns == scopes[s].namespace
    <3>1. ns \in Seq(EntryType) /\ i \in DOMAIN Append(ns, e) /\ scopes'[s].namespace = Append(ns, e)
      BY <1>5, <1>6, <2>1
    <3>2. \A j \in DOMAIN ns : ns[j].type = "internal"
      BY <1>5 DEF ExternsInBase
    <3> HIDE DEF ns
    <3>3. \/ i \in DOMAIN ns /\ Append(ns, e)[i] = ns[i]
          \/ Append(ns, e)[i] = e
      BY <3>1
    <3> QED
      BY <1>4, <3>1, <3>2, <3>3
  <2>2. CASE s # t
    BY <1>5, <2>2 DEF ExternsInBase
  <2> QED
    BY <2>1, <2>2
<1> QED
  BY <1>7, <1>8 DEF ScopesKept

LEMMA ScopesKeptChild ==
  ASSUME EvalInv, ExternsInBase, ResolveSymbolsOfCall PROVE ScopesKept
<1> DEFINE f == agenda[1]
           ms == AddScopeChild(scopes, f.scope, f.node)
           n == Len(scopes)
<1>1. At("resolve_symbols") /\ scopes' = ms
  BY DEF ResolveSymbolsOfCall, Head1
<1>2. f.scope \in DOMAIN scopes /\ f.node \in Nat
  BY <1>1, AtFacts, ScopeOfFrame
<1>3. scopes \in Seq(ScopeRecord) /\ n \in Nat /\ DOMAIN scopes = 1..n /\ 1 \in DOMAIN scopes
  BY ScopeFacts
<1>4. /\ ms \in Seq(ScopeRecord) /\ Len(ms) = n + 1
      /\ ms[n + 1] = NewScope(f.node, f.scope)
      /\ \A t \in 1..n : /\ ms[t].father = scopes[t].father
                         /\ ms[t].node = scopes[t].node
                         /\ ms[t].namespace = scopes[t].namespace
                         /\ ms[t].childs = IF t = f.scope THEN Append(scopes[t].childs, n + 1)
                                                          ELSE scopes[t].childs
  BY <1>2, <1>3, AddedScope
<1> HIDE DEF ms, n
<1>5. ms[n + 1].namespace = <<>> /\ DOMAIN ms[n + 1].namespace = {}
  BY <1>4 DEF NewScope
<1>6. DOMAIN ms = 1..(n + 1) /\ \A t \in 1..n : ms[t].namespace = scopes[t].namespace
  BY <1>4
<1>7. ASSUME NEW s \in DOMAIN ms \ {1}, NEW i \in DOMAIN ms[s].namespace
      PROVE  ms[s].namespace[i].type = "internal"
  <2>1. s # n + 1
    BY <1>5, <1>7
  <2>2. s \in 1..n
    BY <1>3, <1>6, <2>1
  <2> QED
    BY <1>3, <1>6, <1>7, <2>2 DEF ExternsInBase
<1>8. ms[1].namespace = scopes[1].namespace
  BY <1>3, <1>6
<1> QED
  BY <1>1, <1>7, <1>8 DEF ScopesKept, Extern, ExternsInBase

\* No step takes a function away from the base scope, or gives one to another scope
LEMMA ScopesStepKept ==
  ASSUME EvalInv, ExternsInBase, EvalStep PROVE ScopesKept
<1>1. CASE ResolveAssignment
  BY <1>1, ScopesKeptEntry
<1>2. CASE ResolveSymbolsOfCall
  BY <1>2, ScopesKeptChild
<1>3. CASE scopes' = scopes
  BY <1>3, ScopesKeptSame
<1>4. CASE NoRoomForScope \/ SymbolAssertFails \/ NameAssertFails \/ StaleScope \/ NoRoomForNode
           \/ BadFunction \/ BadSymbol
  <2>1. scopes' = scopes
    BY <1>4 DEF NoRoomForScope, SymbolAssertFails, NameAssertFails, StaleScope, NoRoomForNode,
                BadFunction, BadSymbol, Stop
  <2> QED
    BY <1>3, <2>1
<1>5. CASE BindCopy \/ BindShare \/ BindExtern \/ BindUndefined
  <2>1. scopes' = scopes
    BY <1>5 DEF BindCopy, BindShare, BindExtern, BindUndefined, Bound
  <2> QED
    BY <1>3, <2>1
<1>6. CASE ResolveSymbolsBelow \/ ResolveCallsBelow \/ CallByName \/ CallByComputedName \/ Copy
           \/ Instantiate
  <2>1. scopes' = scopes
    BY <1>6 DEF ResolveSymbolsBelow, ResolveCallsBelow, CallByName, CallByComputedName, Copy, Instantiate
  <2> QED
    BY <1>3, <2>1
<1>7. CASE EmitChilds \/ EmitText \/ EmitNothing \/ EmitUndefined \/ CloseUndefined \/ EmitCall
           \/ EmitArguments \/ InvokeComment \/ InvokeReturnArg \/ InvokeEvalSymbol \/ PutReturned
  <2>1. scopes' = scopes
    BY <1>7 DEF EmitChilds, EmitText, EmitNothing, EmitUndefined, CloseUndefined, EmitCall,
                EmitArguments, InvokeComment, InvokeReturnArg, InvokeEvalSymbol, PutReturned
  <2> QED
    BY <1>3, <2>1
<1> QED
  BY <1>1, <1>2, <1>4, <1>5, <1>6, <1>7 DEF EvalStep, ResolveStep, EmitStep

\* Nodes that stay as they are
LEMMA NodesKeptSame ==
  ASSUME nodes' = nodes PROVE TextsKept(nodes, nodes') /\ NamesFrom(nodes, nodes')
BY DEF TextsKept, NamesFrom

\* Binding gives a call no other name, and marks as a function what is one
LEMMA NodesKeptBound ==
  ASSUME EvalInv, Resolved, At("bind"), NEW n, n = agenda[1].node, NEW s, s = CallSymbol(agenda[1]),
         BindsTo(nodes, nodes', n, s),
         nodes'[s].type = "FUNCTION" => nodes[s].type = "FUNCTION" \/ Extern(nodes[s].text)
  PROVE  TextsKept(nodes, nodes') /\ NamesFrom(nodes, nodes')
<1>1. /\ n \in DOMAIN nodes /\ nodes[n].type = "CALL" /\ Len(nodes[n].childs) >= 1
      /\ s \in DOMAIN nodes /\ nodes[s].type \in NameTypes /\ s # n
  BY BoundCall
<1>2. nodes[n] \in NodeRecord /\ nodes[s] \in NodeRecord
  BY <1>1, ScopeFacts, LinkedFacts
<1>3. /\ DOMAIN nodes \subseteq DOMAIN nodes'
      /\ \A id \in DOMAIN nodes : id \notin {n, s} => nodes'[id] = nodes[id]
      /\ \A id \in DOMAIN nodes' \ DOMAIN nodes : nodes'[id].type = "ARGS"
  BY DEF BindsTo
<1>4. nodes'[s].text = nodes[s].text /\ nodes'[s].type # "CALL" /\ nodes[s].type # "CALL"
  <2>1. \/ nodes'[s] = nodes[s]
        \/ \E t \in {"FUNCTION", "UNDEFINED"} : nodes'[s] = [nodes[s] EXCEPT !.type = t]
    BY DEF BindsTo
  <2>2. nodes[s].type # "CALL"
    BY <1>1 DEF NameTypes
  <2> QED
    BY <1>2, <2>1, <2>2 DEF NodeRecord
<1>5. /\ nodes'[n].text = nodes[n].text /\ nodes'[n].type = "CALL"
      /\ Len(nodes'[n].childs) >= 1 /\ nodes'[n].childs[1] = nodes[n].childs[1]
  <2>1. CASE nodes'[n] = nodes[n]
    BY <1>1, <2>1
  <2>2. ASSUME NEW c, nodes'[n] = [nodes[n] EXCEPT !.childs = <<nodes[n].childs[1], c>>]
        PROVE  /\ nodes'[n].text = nodes[n].text /\ nodes'[n].type = "CALL"
               /\ nodes'[n].childs = <<nodes[n].childs[1], c>>
    BY <1>1, <1>2, <2>2 DEF NodeRecord
  <2>3. \/ nodes'[n] = nodes[n]
        \/ \E c \in DOMAIN nodes' : nodes'[n] = [nodes[n] EXCEPT !.childs = <<nodes[n].childs[1], c>>]
    BY DEF BindsTo
  <2>4. CASE \E c \in DOMAIN nodes' : nodes'[n] = [nodes[n] EXCEPT !.childs = <<nodes[n].childs[1], c>>]
    <3>1. PICK c \in DOMAIN nodes' : nodes'[n] = [nodes[n] EXCEPT !.childs = <<nodes[n].childs[1], c>>]
      BY <2>4
    <3> DEFINE t == nodes[n].childs[1]
    <3>2. /\ nodes'[n].text = nodes[n].text /\ nodes'[n].type = "CALL"
          /\ nodes'[n].childs = <<t, c>>
      BY <2>2, <3>1
    <3> HIDE DEF t
    <3>3. Len(<<t, c>>) = 2 /\ <<t, c>>[1] = t
      OBVIOUS
    <3>4. Len(nodes'[n].childs) = 2 /\ nodes'[n].childs[1] = t
      BY <3>2, <3>3
    <3> QED
      BY <3>2, <3>4 DEF t
  <2> QED
    BY <2>1, <2>3, <2>4
<1>6. TextsKept(nodes, nodes')
  <2> SUFFICES ASSUME NEW id \in DOMAIN nodes
               PROVE  /\ nodes'[id].text = nodes[id].text
                      /\ nodes[id].type = "CALL" /\ Len(nodes[id].childs) >= 1 =>
                           /\ nodes'[id].type = "CALL" /\ Len(nodes'[id].childs) >= 1
                           /\ nodes'[id].childs[1] = nodes[id].childs[1]
    BY <1>3 DEF TextsKept
  <2>1. CASE id = n
    BY <1>5, <2>1
  <2>2. CASE id = s
    BY <1>4, <2>2
  <2>3. CASE id \notin {n, s}
    BY <1>3, <2>3
  <2> QED
    BY <2>1, <2>2, <2>3
<1>7. NamesFrom(nodes, nodes')
  <2> SUFFICES ASSUME NEW id \in DOMAIN nodes', nodes'[id].type \in NameTypes
               PROVE  \E k \in DOMAIN nodes :
                        /\ nodes[k].type \in NameTypes /\ nodes'[id].text = nodes[k].text
                        /\ nodes'[id].type = "FUNCTION" => nodes[k].type = "FUNCTION" \/ Extern(nodes[k].text)
    BY DEF NamesFrom
  <2>1. id \in DOMAIN nodes /\ id # n
    BY <1>3, <1>5 DEF NameTypes
  <2>2. CASE id = s
    BY <1>1, <1>4, <2>2
  <2>3. CASE id # s
    BY <1>3, <2>1, <2>3
  <2> QED
    BY <2>2, <2>3
<1> QED
  BY <1>6, <1>7

\* What a call that is bound by name to an extern function is called
LEMMA BoundExtern ==
  ASSUME EvalInv, Resolved, ExternsInBase, BindsNamed, BindExtern
  PROVE  Extern(nodes[CallSymbol(agenda[1])].text)
<1> DEFINE f == agenda[1]
<1>1. At("bind") /\ Meaning(f).type \in ExternKinds
  BY DEF BindExtern, Head1
<1>2. f.op = "bind" /\ 1 \in DOMAIN agenda
  <2>1. agenda \in Seq(FrameRecord)
    BY DEF EvalInv, AgendaInv
  <2> QED
    BY <1>1, <2>1 DEF At
<1>3. f.arg = 0
  BY <1>2 DEF BindsNamed
<1>4. CallName(f) = nodes[CallSymbol(f)].text
  BY <1>3 DEF CallName, Computed
<1>5. f.scope \in DOMAIN scopes
  BY <1>1, BindNode
<1>6. FindSymbol(f.scope, CallName(f)).type \in ExternKinds
  BY <1>1 DEF Meaning
<1>7. Extern(CallName(f))
  BY <1>5, <1>6, ExternFound
<1> QED
  BY <1>4, <1>7

\* A copy has the text of what is copied, and a call that gets a child keeps its first
LEMMA NodesKeptCopy ==
  ASSUME EvalInv, Copy PROVE TextsKept(nodes, nodes') /\ NamesFrom(nodes, nodes')
<1> DEFINE n == agenda[1].node
           p == agenda[1].arg
           c == Len(nodes) + 1
<1>1. agenda # <<>> /\ agenda[1].op = "copy" /\ nodes' = CopyNode(nodes, n, p)
  BY DEF Copy, Head1, At
<1>2. Linked(nodes) /\ NamesClean(nodes)
  BY ScopeFacts
<1>3. n \in DOMAIN nodes /\ (p = 0 \/ p \in DOMAIN nodes)
  <2>1. AgendaInv(nodes, scopes, agenda) /\ agenda \in Seq(FrameRecord)
    BY DEF EvalInv, AgendaInv
  <2>2. 1 \in DOMAIN agenda
    BY <1>1, <2>1
  <2> QED
    BY <1>1, <2>1, <2>2 DEF AgendaInv, FrameInv, CopiesInv
<1> HIDE DEF n, p
<1>4. CopiedNode(nodes, nodes', n, p, c)
  <2>1. CopiedNode(nodes, CopyNode(nodes, n, p), n, p, c)
    BY <1>2, <1>3, CopyNodeFacts
  <2> QED
    BY <1>1, <2>1
<1> HIDE DEF c
<1>5. /\ DOMAIN nodes' = DOMAIN nodes \union {c}
      /\ nodes'[c].type = nodes[n].type /\ nodes'[c].text = nodes[n].text
      /\ \A id \in DOMAIN nodes : nodes'[id].type = nodes[id].type /\ nodes'[id].text = nodes[id].text
      /\ \A id \in DOMAIN nodes : id # p => nodes'[id] = nodes[id]
      /\ p \in DOMAIN nodes => nodes'[p].childs = Append(nodes[p].childs, c)
  BY <1>4 DEF CopiedNode
<1>6. ASSUME NEW id \in DOMAIN nodes, nodes[id].type = "CALL", Len(nodes[id].childs) >= 1
      PROVE  Len(nodes'[id].childs) >= 1 /\ nodes'[id].childs[1] = nodes[id].childs[1]
  <2>1. CASE id # p
    BY <1>5, <1>6, <2>1
  <2>2. CASE id = p
    <3> DEFINE old == nodes[id].childs
               new == nodes'[id].childs
    <3>1. old \in Seq(Nat) /\ new = Append(old, c) /\ Len(old) >= 1
      BY <1>2, <1>5, <1>6, <2>2, LinkedFacts
    <3> HIDE DEF old, new
    <3>2. Len(new) >= 1 /\ new[1] = old[1]
      BY <3>1
    <3> QED
      BY <3>2 DEF old, new
  <2> QED
    BY <2>1, <2>2
<1>7. TextsKept(nodes, nodes')
  BY <1>5, <1>6 DEF TextsKept
<1>8. NamesFrom(nodes, nodes')
  <2> SUFFICES ASSUME NEW id \in DOMAIN nodes', nodes'[id].type \in NameTypes
               PROVE  \E k \in DOMAIN nodes :
                        nodes[k].type \in NameTypes /\ nodes'[id].text = nodes[k].text
                        /\ nodes'[id].type = nodes[k].type
    BY DEF NamesFrom
  <2>1. CASE id = c
    BY <1>3, <1>5, <2>1
  <2>2. CASE id # c
    BY <1>5, <2>2
  <2> QED
    BY <2>1, <2>2
<1> QED
  BY <1>7, <1>8

\* Putting a copy in its place changes no text and no name
LEMMA NodesKeptInstantiate ==
  ASSUME EvalInv, Resolved, Instantiate PROVE TextsKept(nodes, nodes') /\ NamesFrom(nodes, nodes')
<1> DEFINE n == agenda[1].node
           p == agenda[1].arg
<1>1. /\ Refilled(nodes, nodes', n, p)
      /\ \A id \in DOMAIN nodes \ {n, p} : nodes'[id] = nodes[id]
      /\ nodes'[n] = [nodes[n] EXCEPT !.childs = [nodes[n].childs EXCEPT ![2] = p]]
      /\ n \in DOMAIN nodes /\ nodes[n].type = "CALL" /\ Len(nodes[n].childs) >= 2
      /\ p \in DOMAIN nodes /\ nodes[p].type = "ARGS" /\ nodes'[p].text = nodes[p].text
  BY InstantiateNodes
<1> HIDE DEF n, p
<1>2. /\ DOMAIN nodes' = DOMAIN nodes /\ \A id \in DOMAIN nodes : nodes'[id].type = nodes[id].type
      /\ nodes'[n].childs = [nodes[n].childs EXCEPT ![2] = p]
  BY <1>1 DEF Refilled
<1>3. nodes[n] \in NodeRecord /\ nodes[n].childs \in Seq(Nat)
  BY <1>1, ScopeFacts, LinkedFacts
<1>4. nodes'[n].text = nodes[n].text
  BY <1>1, <1>3 DEF NodeRecord
<1>5. \A id \in DOMAIN nodes : nodes'[id].text = nodes[id].text
  BY <1>1, <1>4
<1>6. Len(nodes'[n].childs) >= 1 /\ nodes'[n].childs[1] = nodes[n].childs[1]
  <2> DEFINE old == nodes[n].childs
             new == nodes'[n].childs
  <2>1. old \in Seq(Nat) /\ new = [old EXCEPT ![2] = p] /\ Len(old) >= 2
    BY <1>1, <1>2, <1>3
  <2> HIDE DEF old, new
  <2>2. new[1] = old[1] /\ Len(new) = Len(old)
    BY <2>1
  <2>3. Len(new) >= 1
    BY <2>1, <2>2
  <2> QED
    BY <2>2, <2>3 DEF old, new
<1>7. ASSUME NEW id \in DOMAIN nodes, nodes[id].type = "CALL", Len(nodes[id].childs) >= 1
      PROVE  Len(nodes'[id].childs) >= 1 /\ nodes'[id].childs[1] = nodes[id].childs[1]
  <2>1. id # p
    BY <1>1, <1>7
  <2> QED
    BY <1>1, <1>6, <1>7, <2>1
<1>8. TextsKept(nodes, nodes')
  BY <1>2, <1>5, <1>7 DEF TextsKept
<1>9. NamesFrom(nodes, nodes')
  BY <1>2, <1>5 DEF NamesFrom
<1> QED
  BY <1>8, <1>9

\* What every step does to texts and names
LEMMA NodesStepKept ==
  ASSUME EvalInv, Resolved, NamedInv, EvalStep
  PROVE  TextsKept(nodes, nodes') /\ NamesFrom(nodes, nodes')
<1>1. CASE nodes' = nodes
  BY <1>1, NodesKeptSame
<1>2. CASE BindShare
  <2>1. /\ At("bind") /\ BindsTo(nodes, nodes', agenda[1].node, CallSymbol(agenda[1]))
        /\ nodes'[CallSymbol(agenda[1])] = nodes[CallSymbol(agenda[1])]
    BY <1>2, ShareBinds
  <2> QED
    BY <2>1, NodesKeptBound
<1>3. CASE BindExtern
  <2>1. At("bind") /\ BindsTo(nodes, nodes', agenda[1].node, CallSymbol(agenda[1]))
    BY <1>3, ExternBinds
  <2>2. Extern(nodes[CallSymbol(agenda[1])].text)
    BY <1>3, BoundExtern DEF NamedInv
  <2> QED
    BY <2>1, <2>2, NodesKeptBound
<1>4. CASE BindUndefined
  <2>1. At("bind") /\ nodes' = SetType(nodes, CallSymbol(agenda[1]), "UNDEFINED")
    BY <1>4 DEF BindUndefined, Head1
  <2>2. /\ BindsTo(nodes, nodes', agenda[1].node, CallSymbol(agenda[1]))
        /\ nodes'[CallSymbol(agenda[1])].type = "UNDEFINED"
    BY <2>1, MarkedBinds
  <2> QED
    BY <2>1, <2>2, NodesKeptBound
<1>5. CASE Copy
  BY <1>5, NodesKeptCopy
<1>6. CASE Instantiate
  BY <1>6, NodesKeptInstantiate
<1>7. CASE NoRoomForScope \/ SymbolAssertFails \/ NameAssertFails \/ StaleScope \/ NoRoomForNode
           \/ BadFunction \/ BadSymbol
  <2>1. nodes' = nodes
    BY <1>7 DEF NoRoomForScope, SymbolAssertFails, NameAssertFails, StaleScope, NoRoomForNode,
                BadFunction, BadSymbol, Stop
  <2> QED
    BY <1>1, <2>1
<1>8. CASE ResolveAssignment \/ ResolveSymbolsOfCall \/ ResolveSymbolsBelow \/ ResolveCallsBelow
           \/ CallByName \/ CallByComputedName \/ BindCopy
  <2>1. nodes' = nodes
    BY <1>8 DEF ResolveAssignment, ResolveSymbolsOfCall, ResolveSymbolsBelow, ResolveCallsBelow,
                CallByName, CallByComputedName, BindCopy
  <2> QED
    BY <1>1, <2>1
<1>9. CASE EmitChilds \/ EmitText \/ EmitNothing \/ EmitUndefined \/ CloseUndefined \/ EmitCall
           \/ EmitArguments \/ InvokeComment \/ InvokeReturnArg \/ InvokeEvalSymbol \/ PutReturned
  <2>1. nodes' = nodes
    BY <1>9 DEF EmitChilds, EmitText, EmitNothing, EmitUndefined, CloseUndefined, EmitCall,
                EmitArguments, InvokeComment, InvokeReturnArg, InvokeEvalSymbol, PutReturned
  <2> QED
    BY <1>1, <2>1
<1> QED
  BY <1>2, <1>3, <1>4, <1>5, <1>6, <1>7, <1>8, <1>9 DEF EvalStep, ResolveStep, EmitStep

\* A frame that is to bind a call by name, or to run a function there is
GoodWait(f) == \/ f.op = "bind" /\ f.arg = 0
               \/ f.op = "invoke" /\ RunsFunction(f.node)

\* Frames that wait are left as they were, or were given a call by name or a function
WaitsKept == \A k \in DOMAIN agenda' : agenda'[k].op \in WaitOps =>
               GoodWait(agenda'[k]) \/ \E j \in DOMAIN agenda : agenda'[k] = agenda[j]

\* A call by name waits to be bound
LEMMA WaitsByName ==
  ASSUME EvalInv, CallByName PROVE WaitsKept
<1> DEFINE f == agenda[1]
           g == Frame("bind", CallScope(f), f.node)
<1>1. At("resolve_calls") /\ Continue(<<g>>)
  BY DEF CallByName, AtCall, Head1
<1>2. agenda # <<>> /\ f.node \in Nat /\ f.scope \in DOMAIN scopes
  BY <1>1, AtFacts, ScopeOfFrame
<1>3. agenda \in Seq(FrameRecord)
  BY DEF EvalInv, AgendaInv
<1>4. CallScope(f) \in Nat
  BY <1>2, CallScopeFacts
<1>5. g \in FrameRecord /\ g.op = "bind" /\ g.arg = 0
  BY <1>2, <1>4, FrameType DEF FrameOps
<1> HIDE DEF g
<1>6. CarriedWith(g)
  <2>1. <<g>> \in Seq(FrameRecord) /\ \A k \in DOMAIN <<g>> : <<g>>[k] = g
    BY <1>5
  <2> DEFINE s == <<g>>
  <2>2. s \in Seq(FrameRecord) /\ \A k \in DOMAIN s : s[k] = g \/ s[k].op \notin WaitOps
    BY <2>1
  <2>3. Continue(s)
    BY <1>1
  <2> HIDE DEF s
  <2> QED
    BY <1>2, <1>3, <2>2, <2>3, WaitStep
<1>7. GoodWait(g)
  BY <1>5 DEF GoodWait
<1> QED
  BY <1>6, <1>7 DEF CarriedWith, WaitsKept

\* There are no calls by computed name
LEMMA NoComputedName ==
  ASSUME EvalInv, NamesWritten PROVE ~ AtComputedName
<1> SUFFICES ASSUME AtComputedName PROVE FALSE
  OBVIOUS
<1> DEFINE s == CallSymbol(agenda[1])
<1>1. /\ At("resolve_calls") /\ Type(agenda[1].node) = "CALL"
      /\ nodes[s].type = "SYMBOL" /\ nodes[s].text = NoText
  BY DEF AtComputedName, AtCall, Head1, Type
<1>2. s \in DOMAIN nodes
  BY <1>1, AtFacts, NameFacts
<1> QED
  BY <1>1, <1>2 DEF NamesWritten, NodeIds, NameTypes

\* The function of a call waits for its arguments
LEMMA WaitsFunction ==
  ASSUME EvalInv, FunctionsFound, EmitArguments PROVE WaitsKept
<1> DEFINE f == agenda[1]
           h == EmitFrame(NthChild(nodes, f.node, 2), f.flags)
           g == [f EXCEPT !.op = "invoke"]
           n == f.node
           s == CallSymbol(f)
<1>1. /\ At("do_calls") /\ HasArgs(f) /\ Continue(<<h, g>>)
      /\ nodes[n].type = "CALL" /\ nodes[s].type = "FUNCTION"
  BY DEF EmitArguments, AtEmitCall, Head1, Type
<1>2. /\ agenda # <<>> /\ f.op # "copy" /\ n \in DOMAIN nodes /\ f \in FrameRecord
  BY <1>1, AtFacts
<1>3. agenda \in Seq(FrameRecord) /\ NodesInv(nodes)
  BY ScopeFacts DEF EvalInv, AgendaInv
<1>4. h \in FrameRecord /\ h.op \notin WaitOps
  <2>1. NthChild(nodes, n, 2) \in DOMAIN nodes /\ f.flags \in SUBSET Flags
    BY <1>1, <1>2, <1>3, ArgsFacts DEF FrameRecord
  <2>2. h \in FrameRecord /\ h.op = "do_calls"
    BY <1>3, <2>1, EmitFrameFacts
  <2> QED
    BY <2>2, OtherOps
<1>5. g \in FrameRecord /\ g.op = "invoke" /\ g.node = n
  BY <1>2 DEF FrameRecord, FrameOps
<1>6. RunsFunction(n)
  <2>1. s \in DOMAIN nodes /\ s = nodes[n].childs[1]
    <3>1. Type(n) = "CALL"
      BY <1>1 DEF Type
    <3>2. s \in DOMAIN nodes
      BY <1>2, <3>1, NameFacts
    <3> QED
      BY <3>2 DEF CallSymbol, NthChild
  <2>2. Extern(nodes[s].text)
    BY <1>1, <2>1 DEF FunctionsFound, NodeIds
  <2>3. Len(nodes[n].childs) >= 2 /\ Len(nodes[n].childs) \in Nat
    BY <1>1, <1>2, <1>3, ArgsFacts, LinkedFacts, ScopeFacts
  <2> HIDE DEF n, s
  <2>4. Len(nodes[n].childs) >= 1
    BY <2>3
  <2> QED
    BY <1>1, <1>2, <2>1, <2>2, <2>4 DEF RunsFunction, NodeIds, n
<1> HIDE DEF h, g
<1>7. CarriedWith(g)
  <2> DEFINE t == <<h, g>>
  <2>1. t \in Seq(FrameRecord) /\ DOMAIN t = {1, 2} /\ t[1] = h /\ t[2] = g
    BY <1>4, <1>5
  <2>2. Continue(t)
    BY <1>1
  <2> HIDE DEF t
  <2>3. \A k \in DOMAIN t : t[k] = g \/ t[k].op \notin WaitOps
    BY <1>4, <2>1
  <2> QED
    BY <1>2, <1>3, <2>1, <2>2, <2>3, WaitStep
<1>8. GoodWait(g)
  BY <1>5, <1>6 DEF GoodWait
<1> QED
  BY <1>7, <1>8 DEF CarriedWith, WaitsKept

\* What every step leaves to be bound and to run
LEMMA WaitsStepKept ==
  ASSUME EvalInv, NamesWritten, FunctionsFound, EvalStep PROVE WaitsKept
<1>1. CASE Carried
  BY <1>1 DEF Carried, WaitsKept
<1>2. CASE CallByName
  BY <1>2, WaitsByName
<1>3. CASE CallByComputedName
  BY <1>3, NoComputedName DEF CallByComputedName
<1>4. CASE EmitArguments
  BY <1>4, WaitsFunction
<1> QED
  BY <1>1, <1>2, <1>3, <1>4, ResolveCarried, EmitCarried DEF EvalStep

\* A function that runs is the one the base scope has
LEMMA FunctionRuns ==
  ASSUME EvalInv, RunsFunctions PROVE ~ BadFunction
<1> SUFFICES ASSUME BadFunction PROVE FALSE
  OBVIOUS
<1> DEFINE f == agenda[1]
<1>1. At("invoke") /\ Callee(f).type \notin ExternKinds
  BY DEF BadFunction, AtInvoke, Head1
<1>2. agenda[1].op = "invoke" /\ 1 \in DOMAIN agenda
  <2>1. agenda \in Seq(FrameRecord)
    BY DEF EvalInv, AgendaInv
  <2> QED
    BY <1>1, <2>1 DEF At
<1>3. Extern(nodes[CallSymbol(f)].text)
  BY <1>2 DEF RunsFunctions, RunsFunction, CallSymbol, NthChild
<1> QED
  BY <1>1, <1>3, ExternIsFound DEF Callee

\* No step stops for a name
LEMMA NoNameFault ==
  ASSUME EvalInv, NamedInv, EvalStep PROVE fault' \notin NameFaults
<1>1. ~ NameAssertFails
  BY NoComputedName DEF NameAssertFails, NamedInv
<1>2. ~ StaleScope
  <2> SUFFICES ASSUME StaleScope PROVE FALSE
    OBVIOUS
  <2>1. At("bind") /\ agenda[1].arg # 0
    BY DEF StaleScope, Stale, Computed, Head1
  <2>2. agenda \in Seq(FrameRecord)
    BY DEF EvalInv, AgendaInv
  <2>3. 1 \in DOMAIN agenda /\ agenda[1].op = "bind"
    BY <2>1, <2>2 DEF At
  <2> QED
    BY <2>1, <2>3 DEF NamedInv, BindsNamed
<1>3. ~ BadFunction
  BY FunctionRuns DEF NamedInv
<1>4. fault \notin NameFaults
  BY DEF NamedInv
<1>5. CASE NoRoomForScope \/ SymbolAssertFails \/ NoRoomForNode \/ BadSymbol
  <2>1. fault' \in {"exhausted", "not_a_symbol", "bad_symbol"}
    BY <1>5 DEF NoRoomForScope, SymbolAssertFails, NoRoomForNode, BadSymbol, Stop
  <2> QED
    BY <2>1 DEF NameFaults
<1>6. CASE fault' = fault
  BY <1>4, <1>6
<1>7. CASE BindCopy \/ BindShare \/ BindExtern \/ BindUndefined
  BY <1>6, <1>7 DEF BindCopy, BindShare, BindExtern, BindUndefined, Bound
<1>8. CASE ResolveAssignment \/ ResolveSymbolsOfCall \/ ResolveSymbolsBelow \/ ResolveCallsBelow
           \/ CallByName \/ CallByComputedName \/ Copy \/ Instantiate
  <2>1. fault' = fault
    BY <1>8 DEF ResolveAssignment, ResolveSymbolsOfCall, ResolveSymbolsBelow, ResolveCallsBelow,
                CallByName, CallByComputedName, Copy, Instantiate
  <2> QED
    BY <1>6, <2>1
<1>9. CASE EmitChilds \/ EmitText \/ EmitNothing \/ EmitUndefined \/ CloseUndefined \/ EmitCall
           \/ EmitArguments \/ InvokeComment \/ InvokeReturnArg \/ InvokeEvalSymbol \/ PutReturned
  <2>1. fault' = fault
    BY <1>9 DEF EmitChilds, EmitText, EmitNothing, EmitUndefined, CloseUndefined, EmitCall,
                EmitArguments, InvokeComment, InvokeReturnArg, InvokeEvalSymbol, PutReturned
  <2> QED
    BY <1>6, <2>1
<1> QED
  BY <1>1, <1>2, <1>3, <1>5, <1>7, <1>8, <1>9 DEF EvalStep, ResolveStep, EmitStep

\* What Extern and RunsFunction say, after a step
ExternAfter(name) == FindName(scopes'[1].namespace, name).type \in ExternKinds
RunsAfter(n) == /\ n \in DOMAIN nodes' /\ nodes'[n].type = "CALL" /\ Len(nodes'[n].childs) >= 1
                /\ nodes'[n].childs[1] \in DOMAIN nodes' /\ ExternAfter(nodes'[nodes'[n].childs[1]].text)

\* Every step of the evaluator keeps the calls by name safe
LEMMA NamedStep ==
  ASSUME EvalInv, Resolved, NamedInv, EvalStep PROVE NamedInv'
<1>1. /\ NamesWritten /\ FunctionsFound /\ ExternsInBase /\ BindsNamed /\ RunsFunctions
  BY DEF NamedInv
<1>2. TextsKept(nodes, nodes') /\ NamesFrom(nodes, nodes')
  BY NodesStepKept
<1>3. ScopesKept
  BY <1>1, ScopesStepKept
<1>e. \A name : Extern(name) => ExternAfter(name)
  BY <1>3 DEF ScopesKept, Extern, ExternAfter
<1>4. WaitsKept
  BY <1>1, WaitsStepKept
<1>5. NamesWritten'
  <2> SUFFICES ASSUME NEW id \in DOMAIN nodes', nodes'[id].type \in NameTypes
               PROVE  nodes'[id].text # NoText
    BY DEF NamesWritten, NodeIds
  <2>1. \E k \in DOMAIN nodes : nodes[k].type \in NameTypes /\ nodes'[id].text = nodes[k].text
    BY <1>2 DEF NamesFrom
  <2> QED
    BY <1>1, <2>1 DEF NamesWritten, NodeIds
<1>6. FunctionsFound'
  <2> SUFFICES ASSUME NEW id \in DOMAIN nodes', nodes'[id].type = "FUNCTION"
               PROVE  ExternAfter(nodes'[id].text)
    BY DEF FunctionsFound, NodeIds, Extern, ExternAfter
  <2>1. nodes'[id].type \in NameTypes
    BY DEF NameTypes
  <2>2. PICK k \in DOMAIN nodes :
          nodes'[id].text = nodes[k].text /\ (nodes[k].type = "FUNCTION" \/ Extern(nodes[k].text))
    BY <1>2, <2>1 DEF NamesFrom
  <2>3. Extern(nodes[k].text)
    BY <1>1, <2>2 DEF FunctionsFound, NodeIds
  <2>4. ExternAfter(nodes[k].text)
    BY <1>e, <2>3
  <2> QED
    BY <2>2, <2>4
<1>7. ExternsInBase'
  BY <1>3 DEF ScopesKept
<1>8. ASSUME NEW n, RunsFunction(n) PROVE RunsAfter(n)
  <2> DEFINE s == nodes[n].childs[1]
  <2>1. /\ n \in DOMAIN nodes /\ nodes[n].type = "CALL" /\ Len(nodes[n].childs) >= 1
        /\ s \in DOMAIN nodes /\ Extern(nodes[s].text)
    BY <1>8 DEF RunsFunction, NodeIds
  <2>2. /\ DOMAIN nodes \subseteq DOMAIN nodes' /\ nodes'[s].text = nodes[s].text
        /\ nodes'[n].type = "CALL" /\ Len(nodes'[n].childs) >= 1 /\ nodes'[n].childs[1] = s
    BY <1>2, <2>1 DEF TextsKept
  <2>3. ExternAfter(nodes[s].text)
    BY <1>e, <2>1
  <2> HIDE DEF s
  <2> QED
    BY <2>1, <2>2, <2>3 DEF RunsAfter
<1>9. BindsNamed'
  <2> SUFFICES ASSUME NEW k \in DOMAIN agenda', agenda'[k].op = "bind" PROVE agenda'[k].arg = 0
    BY DEF BindsNamed
  <2>1. GoodWait(agenda'[k]) \/ \E j \in DOMAIN agenda : agenda'[k] = agenda[j]
    BY <1>4 DEF WaitsKept, WaitOps
  <2> QED
    BY <1>1, <2>1 DEF GoodWait, BindsNamed
<1>10. RunsFunctions'
  <2> SUFFICES ASSUME NEW k \in DOMAIN agenda', agenda'[k].op = "invoke"
               PROVE  RunsAfter(agenda'[k].node)
    BY DEF RunsFunctions, RunsFunction, Extern, NodeIds, RunsAfter, ExternAfter
  <2>1. GoodWait(agenda'[k]) \/ \E j \in DOMAIN agenda : agenda'[k] = agenda[j]
    BY <1>4 DEF WaitsKept, WaitOps
  <2>2. PICK n : n = agenda'[k].node
    OBVIOUS
  <2>3. RunsFunction(n)
    BY <1>1, <2>1, <2>2 DEF GoodWait, RunsFunctions
  <2> QED
    BY <1>8, <2>2, <2>3
<1>11. fault' \notin NameFaults
  BY NoNameFault
<1> QED
  BY <1>5, <1>6, <1>7, <1>9, <1>10, <1>11 DEF NamedInv

\* A program without computed names gives every name a text, and marks none
LEMMA NamedStart ==
  ASSUME IInv, Start PROVE ComputedNames' \/ NamedInv'
<1>1. /\ parsed' = nodes /\ nodes' = nodes /\ scopes = <<>> /\ agenda' = EvalNode(1, 1) /\ fault' = fault
      /\ scopes' = <<[NewScope(1, 0) EXCEPT !.namespace = IF pass = 1 THEN Libraries \o VSL ELSE VSL]>>
  BY DEF Start, StartEval, Started
<1>2. ParseInv
  BY <1>1 DEF IInv, EvalInv, ScopesInv, TypedScopes
<1>3. Tree(nodes) /\ fault = "none"
  BY <1>2 DEF ParseInv, ParserInv
<1> SUFFICES ASSUME ~ ComputedNames' PROVE NamedInv'
  OBVIOUS
<1>4. \A id \in DOMAIN nodes : nodes[id].type \in NameTypes =>
        nodes[id].type = "SYMBOL" /\ nodes[id].text # NoText
  <2> SUFFICES ASSUME NEW id \in DOMAIN nodes, nodes[id].type \in NameTypes
               PROVE  nodes[id].type = "SYMBOL" /\ nodes[id].text # NoText
    OBVIOUS
  <2>1. Shape(nodes, id)
    BY <1>3 DEF Tree
  <2>2. nodes[id].type = "SYMBOL"
    <3>1. SUFFICES ASSUME nodes[id].type \in {"FUNCTION", "UNDEFINED"} PROVE FALSE
      BY DEF NameTypes
    <3>2. nodes[id].type \in Leaves
      BY <2>1, <3>1 DEF Shape
    <3> QED
      BY <3>1, <3>2 DEF Leaves
  <2> QED
    BY <1>1, <2>2 DEF ComputedNames
<1>5. NamesWritten' /\ FunctionsFound'
  <2>1. NamesWritten'
    BY <1>1, <1>4 DEF NamesWritten, NodeIds
  <2>2. \A id \in DOMAIN nodes : nodes[id].type # "FUNCTION"
    BY <1>4 DEF NameTypes
  <2>3. FunctionsFound'
    BY <1>1, <2>2 DEF FunctionsFound, NodeIds
  <2> QED
    BY <2>1, <2>3
<1>6. ExternsInBase'
  <2>1. DOMAIN scopes' = {1}
    BY <1>1
  <2> QED
    BY <2>1 DEF ExternsInBase
<1>7. BindsNamed' /\ RunsFunctions'
  <2>1. \A k \in DOMAIN agenda' : agenda'[k].op \notin {"bind", "invoke"}
    BY <1>1 DEF EvalNode, Frame
  <2> QED
    BY <2>1 DEF BindsNamed, RunsFunctions
<1>8. fault' \notin NameFaults
  BY <1>1, <1>3 DEF NameFaults
<1> QED
  BY <1>5, <1>6, <1>7, <1>8 DEF NamedInv

\* Calls by name are safe while a program without computed names is evaluated
NInv == /\ scopes = <<>> => fault = "none"
        /\ scopes # <<>> => ComputedNames \/ NamedInv

(* Only a computed name leads to a NULL function, a scope that moved or a name *)
(* that is no call.  A function is looked up again when it runs (eval.c:370),  *)
(* in the base scope, by the text of the name: it is found, because libraries  *)
(* register functions in the base scope only and before any definition enters  *)
(* it, the first entry of a name wins, and no step changes the text of a name  *)
(* or the first child of a call, in bodies that are copied or shared either.   *)
THEOREM NamedCallsAlwaysSafe == Spec => []NamedCallsSafe
<1>1. Init => NInv
  BY DEF Init, NInv
<1>2. IInv /\ RInv /\ NInv /\ [Next]_vars => NInv'
  <2> SUFFICES ASSUME IInv, RInv, NInv, [Next]_vars PROVE NInv'
    OBVIOUS
  <2>1. CASE Parse
    <3>1. ParseStep /\ UNCHANGED <<scopes, fault>>
      BY <2>1 DEF Parse, evalVars
    <3>2. parsing = "running"
      BY <3>1, ParsingRuns
    <3>3. scopes = <<>>
      BY <3>2 DEF IInv, EvalInv, ParseInv
    <3> QED
      BY <3>1, <3>3 DEF NInv
  <2>2. CASE Start
    <3>1. scopes' # <<>>
      BY <2>2 DEF Start, StartEval
    <3> QED
      BY <2>2, <3>1, NamedStart DEF NInv
  <2>3. CASE Evaluate
    <3>1. scopes # <<>> /\ EvalStep /\ parsed' = parsed
      BY <2>3 DEF Evaluate, Started
    <3>2. EvalInv /\ Resolved
      BY <3>1 DEF IInv, ParseInv, RInv
    <3>3. scopes' # <<>>
      <4>1. UNCHANGED parsing
        BY <2>3 DEF Evaluate, parserVars
      <4>2. EvalInv'
        BY <3>1, <3>2, <4>1, StepResolve, StepEmit DEF EvalStep
      <4> QED
        BY <4>2 DEF EvalInv, ScopesInv, TypedScopes
    <3>4. CASE ComputedNames
      <4>1. ComputedNames'
        BY <3>1, <3>4 DEF ComputedNames
      <4> QED
        BY <3>3, <4>1 DEF NInv
    <3>5. CASE NamedInv
      <4>1. NamedInv'
        BY <3>1, <3>2, <3>5, NamedStep
      <4> QED
        BY <3>3, <4>1 DEF NInv
    <3> QED
      BY <3>1, <3>4, <3>5 DEF NInv
  <2>4. CASE SecondPass
    <3>1. fault' = "none" /\ scopes' = <<>>
      BY <2>4 DEF SecondPass, PassDone
    <3> QED
      BY <3>1 DEF NInv
  <2>5. CASE UNCHANGED vars
    <3>1. UNCHANGED <<nodes, scopes, agenda, fault, parsed>>
      BY <2>5 DEF vars, evalVars
    <3> QED
      BY <3>1 DEF NInv, ComputedNames, NamedInv, NamesWritten, FunctionsFound, ExternsInBase,
                  BindsNamed, RunsFunctions, RunsFunction, Extern, NodeIds
  <2> QED
    BY <2>1, <2>2, <2>3, <2>4, <2>5 DEF Next
<1>3. NInv => NamedCallsSafe
  BY DEF NInv, NamedInv, NameFaults, NamedCallsSafe
<1> QED
  BY <1>1, <1>2, <1>3, CoveredAlways, PTL DEF Spec
=============================================================================
