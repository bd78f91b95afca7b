---------------------------- MODULE ReaderProofs ----------------------------
(* What holds of every source that is read: the types, the shape of the tree,  *)
(* one place for every node, the scanner in step with the parser, texts that   *)
(* are whole, and, of an accepted source, a tree that says the source again.   *)
EXTENDS Reader, ParserProofs, FiniteSetTheorems

(* The inductive invariant of the reader: that of the parser.                  *)
IInv == ParserInv

\* Every step of the reader keeps the invariant
LEMMA NextInv ==
  ASSUME IInv, [Next]_vars
  PROVE  IInv'
<1>1. CASE ParseStep
  BY <1>1, ParseStepInv DEF IInv
<1>2. CASE UNCHANGED vars
  BY <1>2, ParserStutterInv DEF IInv, vars
<1>3. Returned => UNCHANGED vars
  BY DEF Returned
<1> QED
  BY <1>1, <1>2, <1>3 DEF Next

\* The invariant holds at every moment, of every source
THEOREM Invariant == Spec => []IInv
<1>1. Init => IInv
  BY SourcesAssumption, ParserInitInv DEF Init, IInv
<1>2. IInv /\ [Next]_vars => IInv'
  BY NextInv
<1> QED
  BY <1>1, <1>2, PTL DEF Spec

(* The variables of the front end keep their types: the scanner's stack of     *)
(* conditions, the text buffer, the tree, the token and bison's stack.         *)
THEOREM TypeCorrect == Spec => []TypeOK
<1>1. IInv => TypeOK
  BY DEF IInv, ParserInv, Tree, LexTypes, TokenInv, StackInv, TypeOK
<1> QED
  BY <1>1, Invariant, PTL

(* Whatever the source, and wherever a syntax error stops the parser, a call   *)
(* has its name and a definition its name and its body: the children that      *)
(* eval_node and its helpers read without looking.                             *)
THEOREM TreeWellShaped == Spec => []WellShaped
<1>1. IInv => WellShaped
  BY DEF IInv, ParserInv, Tree, WellShaped, NodeIds
<1> QED
  BY <1>1, Invariant, PTL

-----------------------------------------------------------------------------
(* The text buffer.                                                            *)

(* While a text is in the buffer, the scanner is inside a body and what is     *)
(* left of the source goes on with the text: no rule of another token matches. *)
BufferInv ==
  textBuffer # <<>> => token = NoToken /\ Cond = "CONTENT" /\ ~ TextEnds(source)

\* A call of yylex returns no token before the text
LEMMA LexBufferInv ==
  ASSUME BufferInv, Lex
  PROVE  BufferInv'
<1>1. CASE TextChar
  <2> DEFINE n == IF First(source) = "\\" /\ Len(source) > 1 THEN 2 ELSE 1
  <2>1. CASE TextEnds(Drop(n))
    BY <1>1, <2>1 DEF TextChar, BufferInv
  <2>2. CASE ~ TextEnds(Drop(n))
    <3>1. source' = Drop(n) /\ UNCHANGED <<token, conds>>
      BY <1>1, <2>2 DEF TextChar
    <3>2. token = NoToken /\ Cond = "CONTENT"
      BY <1>1 DEF TextChar, InContent, Scanning
    <3>3. token' = NoToken /\ Cond' = "CONTENT"
      BY <3>1, <3>2 DEF Cond, NoToken
    <3>4. ~ TextEnds(source')
      BY <2>2, <3>1
    <3>5. TextEnds(source)' <=> TextEnds(source')
      BY DEF TextEnds
    <3> HIDE DEF n
    <3> QED
      BY <3>3, <3>4, <3>5 DEF BufferInv, NoToken
  <2> QED
    BY <2>1, <2>2
<1>2. CASE textBuffer = <<>> /\ ~ TextChar
  <2>1. textBuffer' = textBuffer
    BY <1>2 DEF Lex, SkipBlanks, InitialText, OpenBlock, CloseBlock, Colon, Symbol,
                NameEnds, ArgRef, Literal, EndOfSource
  <2> QED
    BY <1>2, <2>1 DEF BufferInv
<1>3. CASE textBuffer # <<>> /\ ~ TextChar
  <2>1. Cond = "CONTENT" /\ ~ TextEnds(source)
    BY <1>3 DEF BufferInv
  <2>2. ~ SkipBlanks /\ ~ InitialText /\ ~ Colon /\ ~ Symbol /\ ~ NameEnds
    BY <2>1 DEF SkipBlanks, InitialText, Colon, Symbol, NameEnds
  <2>3. ~ OpenBlock /\ ~ CloseBlock /\ ~ EndOfSource
    BY <2>1 DEF OpenBlock, CloseBlock, EndOfSource, TextEnds, First
  <2>4. ~ ArgRef /\ ~ Literal
    BY <2>1 DEF ArgRef, Literal, TextEnds, StartsWith
  <2> QED
    BY <1>3, <2>2, <2>3, <2>4 DEF Lex
<1> QED
  BY <1>1, <1>2, <1>3

\* What the parser does between two calls of yylex leaves the scanner alone
LEMMA NextBufferInv ==
  ASSUME BufferInv, [Next]_vars
  PROVE  BufferInv'
<1>1. CASE ReadToken
  BY <1>1, LexBufferInv DEF ReadToken
<1>2. CASE Shift
  <2>1. textBuffer = <<>> /\ textBuffer' = textBuffer
    BY <1>2 DEF Shift, HasToken, BufferInv
  <2> QED
    BY <2>1 DEF BufferInv
<1>3. CASE UNCHANGED <<source, conds, textBuffer, token>>
  BY <1>3 DEF BufferInv, Cond, NoToken, TextEnds, First
<1>4. Accept \/ SyntaxError \/ Returned \/ UNCHANGED vars
        => UNCHANGED <<source, conds, textBuffer, token>>
  BY DEF Accept, SyntaxError, Returned, vars, lexVars
<1>5. Reduce => UNCHANGED <<source, conds, textBuffer, token>>
  BY DEF Reduce
<1>6. ASSUME \/ ReduceEmptyProgram \/ ReduceAppendChild \/ ReduceFirstArg \/ ReduceArgsChild
             \/ ReduceName \/ ReduceComputedName
             \/ ReduceAssignment \/ ReduceCallWithArgs \/ ReduceCall
      PROVE  Reduce
  BY <1>6 DEF ReduceEmptyProgram, ReduceAppendChild, ReduceFirstArg, ReduceArgsChild,
         ReduceName, ReduceComputedName, ReduceAssignment, ReduceCallWithArgs, ReduceCall
<1>7. \/ ReadToken \/ Shift \/ Accept \/ SyntaxError \/ Reduce \/ Returned \/ UNCHANGED vars
  BY <1>6, Zenon DEF Next, ParseStep
<1>8. CASE Accept \/ SyntaxError \/ Reduce \/ Returned \/ UNCHANGED vars
  BY <1>3, <1>4, <1>5, <1>8, Zenon
<1> QED
  BY <1>1, <1>2, <1>7, <1>8, Zenon

(* No token of another kind overtakes a text: when yylex returns one, the      *)
(* buffer of its text rules is empty, so no text is lost or read in a later    *)
(* block, however escapes and half-begun marks are spread over the text.       *)
THEOREM TextNeverOvertaken == Spec => []TextFlushed
<1>1. Init => BufferInv
  BY DEF Init, ParserInit, BufferInv
<1>2. BufferInv /\ [Next]_vars => BufferInv'
  BY NextBufferInv
<1>3. BufferInv => TextFlushed
  BY DEF BufferInv, TextFlushed
<1> QED
  BY <1>1, <1>2, <1>3, PTL DEF Spec

-----------------------------------------------------------------------------
(* The scanner's start conditions.                                             *)

SymIn(st, k) == IF k \in DOMAIN st THEN st[k].sym ELSE "bottom"
Top(st)      == SymIn(st, Len(st))

\* How many of the k lowest symbols are brackets that are still open
Opens(st, k) == Cardinality({j \in 1..k : SymIn(st, j) = "["})

\* The condition a block leaves behind, by the symbol it stands on
Under(below) ==
  CASE below = "program" -> "INITIAL"
    [] below = "["       -> "HAS_CALL_NAME"
    [] OTHER             -> "CONTENT"

\* Under each open block is the condition in which its bracket was read
Bases(st, cs) ==
  \A k \in 1..Len(st) : SymIn(st, k) = "[" => cs[Opens(st, k)] = Under(SymIn(st, k - 1))

\* The conditions a symbol on top of the stack allows, over what is below it
Allowed(top, below) ==
  CASE top \in {"bottom", "program"} -> {"INITIAL"}
    [] top = "["                     -> {"DEFINE_CALL_NAME"}
    [] top = "SYMBOL"                -> {"HAS_CALL_NAME"}
    [] top = "symbol"                -> {"HAS_CALL_NAME", "CONTENT"}
    [] top \in {":", "args"}         -> {"CONTENT"}
    [] OTHER                         -> {Under(below)}

Current(st) == Allowed(Top(st), SymIn(st, Len(st) - 1))

\* The stack of conditions is `extra` longer than the open blocks and ends in one of cs
Deep(st, cs, extra, allowed) ==
  /\ Len(cs) = Opens(st, Len(st)) + extra
  /\ cs[Len(cs)] \in allowed

\* No token waits.  Under a bracket that closes, the block's condition is gone
AtRest(st, cs) ==
  /\ Top(st) = "]" => Len(cs) = Opens(st, Len(st))
  /\ Top(st) # "]" => Deep(st, cs, 1, Current(st))

\* The token that waits has already moved the conditions
Ahead(st, cs, kind) ==
  /\ kind = "[" => /\ Deep(st, cs, 2, {"DEFINE_CALL_NAME"})
                   /\ cs[Opens(st, Len(st)) + 1] = Under(Top(st))
  /\ kind = "]" /\ Top(st) # "program" => Len(cs) = Opens(st, Len(st))
  /\ kind = ":" => Deep(st, cs, 1, {"CONTENT"})
  /\ kind = "SYMBOL" => Deep(st, cs, 1, {"HAS_CALL_NAME"})
  /\ kind \in Leaves => Deep(st, cs, 1, {Under(Top(st))})

Receptive == {"program", "[", "symbol", ":", "args"}

\* "{#" was the last of the source: nothing is left but its end
Unfinished == source = <<>> /\ Cond = "IN_LITERAL" /\ token = NoToken

(* While the parser runs: a token waits only where one is asked for, each open *)
(* block stands on the condition it was read in, and the current conditions    *)
(* are those of what is on top of the stack, moved on by the token that waits. *)
ScanInv ==
  parsing = "running" =>
    /\ token # NoToken => Top(stack) \in Receptive
    /\ Bases(stack, conds)
    /\ \/ Unfinished
       \/ IF token = NoToken THEN AtRest(stack, conds) ELSE Ahead(stack, conds, token.kind)

\* Opens counts one bracket more, or none, from one symbol to the next
LEMMA OpensFacts ==
  ASSUME NEW st, NEW k \in Nat
  PROVE  /\ Opens(st, 0) = 0
         /\ Opens(st, k) \in Nat
         /\ Opens(st, k + 1) = IF SymIn(st, k + 1) = "[" THEN Opens(st, k) + 1 ELSE Opens(st, k)
<1> DEFINE S(m) == {j \in 1..m : SymIn(st, j) = "["}
<1>1. ASSUME NEW m \in Nat PROVE IsFiniteSet(S(m)) /\ Cardinality(S(m)) \in Nat
  <2>1. IsFiniteSet(1..m) /\ S(m) \in SUBSET (1..m)
    BY FS_Interval
  <2> QED
    BY <2>1, FS_Subset, FS_CardinalityType
<1>2. S(0) = {}
  OBVIOUS
<1>3. CASE SymIn(st, k + 1) = "["
  <2>1. S(k + 1) = S(k) \cup {k + 1}
    BY <1>3
  <2>2. k + 1 \notin S(k)
    OBVIOUS
  <2> HIDE DEF S
  <2>3. Cardinality(S(k + 1)) = Cardinality(S(k)) + 1
    BY <1>1, <2>1, <2>2, FS_AddElement
  <2> QED
    BY <1>1, <1>2, <1>3, <2>3, FS_EmptySet DEF Opens, S
<1>4. CASE SymIn(st, k + 1) # "["
  <2>1. S(k + 1) = S(k)
    BY <1>4
  <2> HIDE DEF S
  <2> QED
    BY <1>1, <1>2, <1>4, <2>1, FS_EmptySet DEF Opens, S
<1> QED
  BY <1>3, <1>4

\* Opens grows with the height
LEMMA OpensMonotone ==
  ASSUME NEW st, NEW k \in Nat, NEW j \in 0..k
  PROVE  Opens(st, j) <= Opens(st, k)
<1> DEFINE S(m) == {i \in 1..m : SymIn(st, i) = "["}
<1>1. IsFiniteSet(1..k) /\ S(k) \in SUBSET (1..k) /\ S(j) \in SUBSET S(k)
  BY FS_Interval
<1>2. IsFiniteSet(S(k))
  BY <1>1, FS_Subset
<1> HIDE DEF S
<1>3. Cardinality(S(j)) <= Cardinality(S(k))
  BY <1>1, <1>2, FS_Subset
<1> QED
  BY <1>3 DEF S, Opens

\* An open block is counted from its bracket on
LEMMA OpensAt ==
  ASSUME NEW st, NEW h \in Nat, NEW k \in 1..h, SymIn(st, k) = "["
  PROVE  Opens(st, k) \in 1..Opens(st, h)
<1>1. k - 1 \in Nat /\ (k - 1) + 1 = k
  OBVIOUS
<1>2. Opens(st, k) = Opens(st, k - 1) + 1 /\ Opens(st, k - 1) \in Nat /\ Opens(st, h) \in Nat
  BY <1>1, OpensFacts
<1>3. Opens(st, k) <= Opens(st, h)
  BY OpensMonotone
<1> QED
  BY <1>2, <1>3

\* The symbol `sym` and its node are pushed on the h lowest items of the stack
Pushed(st, ts, h, sym, node) ==
  /\ Len(ts) = h + 1
  /\ SymIn(ts, h + 1) = sym
  /\ ts[h + 1] = Item(sym, node)
  /\ \A k \in 0..h : SymIn(ts, k) = SymIn(st, k)
  /\ \A k \in 1..h : ts[k] = st[k]

\* Opens depends on the symbols up to its height
LEMMA OpensKept ==
  ASSUME NEW st, NEW ts, NEW h \in Nat, \A k \in 0..h : SymIn(ts, k) = SymIn(st, k),
         NEW k \in 0..h
  PROVE  Opens(ts, k) = Opens(st, k)
BY DEF Opens

\* A reduction of the n topmost items pushes a symbol on the others
LEMMA ReducedPushes ==
  ASSUME StackInv, NEW n \in 0..Height, NEW sym, NEW node
  PROVE  /\ Height - n \in Nat
         /\ Pushed(stack, Reduced(n, sym, node), Height - n, sym, node)
<1> DEFINE h == Height - n
           s == SubSeq(stack, 1, h)
           i == Item(sym, node)
<1>1. stack \in Seq(StackItem) /\ Height \in Nat /\ h \in 0..Height /\ Height = Len(stack) /\ h \in Nat
  BY DEF StackInv, Height
<1>2. \A k \in 1..h : stack[k] \in StackItem
  BY <1>1
<1>3. s \in Seq(StackItem) /\ Len(s) = h /\ \A k \in 1..h : s[k] = stack[k]
  BY <1>1, <1>2, SubSeqProperties
<1>4. i.sym = sym
  BY DEF Item
<1> HIDE DEF s, i
<1> DEFINE ts == Append(s, i)
<1>5. /\ Len(ts) = h + 1 /\ DOMAIN ts = 1..(h + 1) /\ ts[h + 1] = i
      /\ \A k \in 1..h : ts[k] = stack[k]
  <2>1. s \in Seq(StackItem \cup {i}) /\ i \in StackItem \cup {i}
    BY <1>3
  <2>2. ts \in Seq(StackItem \cup {i}) /\ Len(ts) = Len(s) + 1 /\ ts[Len(s) + 1] = i
    BY <2>1, AppendProperties
  <2>3. \A k \in 1..Len(s) : ts[k] = s[k]
    BY <2>1, AppendProperties
  <2> QED
    BY <1>1, <1>3, <2>2, <2>3
<1>6. ts = Reduced(n, sym, node)
  BY DEF Reduced, s, i
<1> HIDE DEF ts
<1>7. \A k \in 0..h : SymIn(ts, k) = SymIn(stack, k)
  <2>1. DOMAIN stack = 1..Height
    BY <1>1
  <2> HIDE DEF h
  <2>2. \A k \in 0..h : (k \in DOMAIN ts <=> k \in 1..h) /\ (k \in DOMAIN stack <=> k \in 1..h)
    BY <1>1, <1>5, <2>1
  <2> QED
    BY <1>5, <2>2 DEF SymIn
<1>8. SymIn(ts, h + 1) = sym
  BY <1>1, <1>4, <1>5 DEF SymIn
<1>9. Pushed(stack, ts, h, sym, node)
  BY <1>5, <1>7, <1>8 DEF Pushed, i
<1> QED
  BY <1>1, <1>6, <1>9

\* What a push does to the count of open blocks and to the top
LEMMA PushFacts ==
  ASSUME NEW st, NEW ts, NEW h \in Nat, NEW sym, NEW node, Pushed(st, ts, h, sym, node)
  PROVE  /\ Top(ts) = sym
         /\ Len(ts) \in Nat
         /\ SymIn(ts, Len(ts) - 1) = SymIn(st, h)
         /\ sym = "[" => Opens(ts, Len(ts)) = Opens(st, h) + 1
         /\ sym # "[" => Opens(ts, Len(ts)) = Opens(st, h)
         /\ \A k \in 0..h : Opens(ts, k) = Opens(st, k)
<1>1. /\ Len(ts) = h + 1 /\ SymIn(ts, h + 1) = sym
      /\ \A k \in 0..h : SymIn(ts, k) = SymIn(st, k)
  BY DEF Pushed
<1>2. \A k \in 0..h : Opens(ts, k) = Opens(st, k)
  BY <1>1, OpensKept
<1>3. Opens(ts, h + 1) = IF SymIn(ts, h + 1) = "[" THEN Opens(ts, h) + 1 ELSE Opens(ts, h)
  BY OpensFacts
<1>4. h \in 0..h /\ (h + 1) - 1 = h
  OBVIOUS
<1> QED
  BY <1>1, <1>2, <1>3, <1>4 DEF Top

\* A push of no bracket
LEMMA PlainPush ==
  ASSUME NEW st, NEW ts, NEW h \in Nat, NEW sym, NEW node, Pushed(st, ts, h, sym, node), sym # "["
  PROVE  /\ Top(ts) = sym
         /\ Opens(ts, Len(ts)) = Opens(st, h)
         /\ SymIn(ts, Len(ts) - 1) = SymIn(st, h)
<1>1. /\ Top(ts) = sym
      /\ SymIn(ts, Len(ts) - 1) = SymIn(st, h)
  BY PushFacts
<1>2. sym # "[" => Opens(ts, Len(ts)) = Opens(st, h)
  BY PushFacts
<1> QED
  BY <1>1, <1>2

\* No bracket, no change
LEMMA OpensFlat ==
  ASSUME NEW st, NEW n \in Nat, NEW h \in 0..n, \A k \in (h + 1)..n : SymIn(st, k) # "["
  PROVE  Opens(st, n) = Opens(st, h)
<1>1. {j \in 1..n : SymIn(st, j) = "["} = {j \in 1..h : SymIn(st, j) = "["}
  OBVIOUS
<1> QED
  BY <1>1 DEF Opens

\* The open blocks that are left stand where they stood
LEMMA PushBases ==
  ASSUME NEW st, NEW ts, NEW cs, NEW h \in Nat, Len(st) \in Nat, h <= Len(st),
         NEW sym, NEW node, Pushed(st, ts, h, sym, node), sym # "[", Bases(st, cs)
  PROVE  Bases(ts, cs)
<1>1. ASSUME NEW k \in 1..Len(ts), SymIn(ts, k) = "["
      PROVE  cs[Opens(ts, k)] = Under(SymIn(ts, k - 1))
  <2>1. k \in 1..h /\ k \in 0..h /\ k - 1 \in 0..h /\ k \in 1..Len(st)
    BY <1>1 DEF Pushed
  <2>2. SymIn(ts, k) = SymIn(st, k) /\ SymIn(ts, k - 1) = SymIn(st, k - 1)
    BY <2>1 DEF Pushed
  <2>3. \A j \in 0..h : SymIn(ts, j) = SymIn(st, j)
    BY DEF Pushed
  <2>4. Opens(ts, k) = Opens(st, k)
    BY <2>1, <2>3, OpensKept
  <2> QED
    BY <1>1, <2>1, <2>2, <2>4 DEF Bases
<1> QED
  BY <1>1 DEF Bases

\* A reduction of symbols without brackets keeps the conditions if it allows them
LEMMA ReduceAtRest ==
  ASSUME NEW st, NEW ts, NEW cs, Len(st) \in Nat, NEW h \in 0..Len(st),
         NEW sym, NEW node, Pushed(st, ts, h, sym, node),
         sym \notin {"[", "]"}, Top(st) # "]",
         \A k \in (h + 1)..Len(st) : SymIn(st, k) # "[",
         Current(st) \subseteq Current(ts), AtRest(st, cs)
  PROVE  AtRest(ts, cs)
<1>1. Top(ts) = sym /\ Opens(ts, Len(ts)) = Opens(st, h)
  <2>1. h \in Nat /\ sym # "["
    OBVIOUS
  <2>2. Top(ts) = sym
    BY <2>1, PlainPush
  <2>3. Opens(ts, Len(ts)) = Opens(st, h)
    BY <2>1, PlainPush
  <2> QED
    BY <2>2, <2>3
<1>2. Opens(st, Len(st)) = Opens(st, h)
  BY OpensFlat
<1> QED
  BY <1>1, <1>2 DEF AtRest, Deep

\* A block that is complete leaves the condition its bracket was read in
LEMMA BlockAtRest ==
  ASSUME NEW st, NEW ts, NEW cs, Len(st) \in Nat, NEW h \in 0..(Len(st) - 1),
         NEW sym, NEW node, Pushed(st, ts, h, sym, node),
         sym = "block", Top(st) = "]", SymIn(st, h + 1) = "[",
         \A k \in (h + 2)..Len(st) : SymIn(st, k) # "[",
         Bases(st, cs), AtRest(st, cs)
  PROVE  AtRest(ts, cs)
<1>1. Top(ts) = "block" /\ Opens(ts, Len(ts)) = Opens(st, h) /\ SymIn(ts, Len(ts) - 1) = SymIn(st, h)
  <2>1. h \in Nat /\ sym # "["
    OBVIOUS
  <2>2. Top(ts) = sym
    BY <2>1, PlainPush
  <2>3. Opens(ts, Len(ts)) = Opens(st, h)
    BY <2>1, PlainPush
  <2>4. SymIn(ts, Len(ts) - 1) = SymIn(st, h)
    BY <2>1, PlainPush
  <2> QED
    BY <2>2, <2>3, <2>4
<1>2. h + 1 \in 0..Len(st) /\ h + 1 \in 1..Len(st) /\ (h + 1) + 1 = h + 2 /\ (h + 1) - 1 = h
  OBVIOUS
<1>3. Opens(st, Len(st)) = Opens(st, h + 1)
  BY <1>2, OpensFlat
<1>4. Opens(st, h + 1) = Opens(st, h) + 1
  BY OpensFacts
<1>5. Len(cs) = Opens(st, h + 1)
  BY <1>3 DEF AtRest
<1>6. cs[Len(cs)] = Under(SymIn(st, h))
  BY <1>2, <1>5 DEF Bases
<1>7. Current(ts) = {Under(SymIn(st, h))}
  BY <1>1 DEF Current, Allowed
<1> QED
  BY <1>1, <1>4, <1>5, <1>6, <1>7 DEF AtRest, Deep

\* A reduction in a state that needs no token
LEMMA ReductionScan ==
  ASSUME ScanInv, Reduce, StackInv,
         Top(stack) \notin Receptive,
         NEW h \in 0..Height, NEW sym, NEW node, Pushed(stack, stack', h, sym, node),
         sym # "[",
         Bases(stack, conds) /\ AtRest(stack, conds) => AtRest(stack', conds)
  PROVE  ScanInv'
<1>1. parsing = "running" /\ UNCHANGED <<source, conds, textBuffer, token, parsing>>
  BY DEF Reduce
<1>2. token = NoToken /\ Bases(stack, conds)
  BY <1>1 DEF ScanInv
<1>3. Bases(stack', conds)
  <2>1. Len(stack) \in Nat /\ h \in Nat /\ h <= Len(stack)
    BY DEF StackInv, Height
  <2> QED
    BY <1>2, <2>1, PushBases
<1>4. Unfinished \/ AtRest(stack, conds)
  BY <1>1, <1>2 DEF ScanInv
<1>5. Unfinished' \/ AtRest(stack', conds)
  BY <1>1, <1>2, <1>4 DEF Unfinished, Cond, NoToken
<1> QED
  BY <1>1, <1>2, <1>3, <1>5 DEF ScanInv, NoToken

\* The stack, read by Sym
LEMMA SymIsSymIn ==
  /\ \A k : Sym(k) = SymIn(stack, k)
  /\ TopSym = Top(stack)
  /\ Height = Len(stack)
BY DEF Sym, SymIn, TopSym, Top, Height

\* One symbol is reduced to another that allows the same conditions
LEMMA ReduceOneScan ==
  ASSUME ScanInv, Reduce, StackInv,
         TopSym \notin Receptive \union {"]", "bottom"},
         NEW sym, NEW node, sym \notin {"[", "]"}, stack' = Reduced(1, sym, node),
         Allowed(TopSym, Sym(Height - 1)) \subseteq Allowed(sym, Sym(Height - 1))
  PROVE  ScanInv'
<1>1. Height \in Nat /\ Height = Len(stack) /\ stack \in Seq(StackItem)
  BY DEF StackInv, Height
<1>2. 1 \in 0..Height
  BY <1>1 DEF TopSym, Sym
<1> DEFINE h == Height - 1
<1>3. h \in Nat /\ h \in 0..Height /\ h \in 0..Len(stack) /\ (h + 1)..Len(stack) = {Height}
  BY <1>1, <1>2
<1>4. Pushed(stack, stack', h, sym, node)
  BY <1>2, ReducedPushes
<1>5. Top(stack) \notin Receptive /\ Top(stack) # "[" /\ Top(stack) # "]"
  BY SymIsSymIn DEF Receptive
<1>6. \A k \in (h + 1)..Len(stack) : SymIn(stack, k) # "["
  BY <1>1, <1>3, <1>5 DEF Top
<1>7. Current(stack) = Allowed(TopSym, Sym(h))
  BY <1>1, SymIsSymIn DEF Current
<1>8. Top(stack') = sym
  BY <1>3, <1>4, PlainPush
<1>9. SymIn(stack', Len(stack') - 1) = SymIn(stack, h)
  BY <1>3, <1>4, PlainPush
<1>10. Current(stack) \subseteq Current(stack')
  BY <1>7, <1>8, <1>9, SymIsSymIn DEF Current
<1>11. ASSUME AtRest(stack, conds) PROVE AtRest(stack', conds)
  BY <1>1, <1>3, <1>4, <1>5, <1>6, <1>10, <1>11, ReduceAtRest
<1> HIDE DEF h
<1> QED
  BY <1>3, <1>4, <1>5, <1>11, ReductionScan

\* program: %empty
LEMMA EmptyProgramScan ==
  ASSUME ScanInv, StackInv, ReduceEmptyProgram
  PROVE  ScanInv'
<1> DEFINE node == Len(nodes) + 1
<1>1. Reduce /\ stack = <<>> /\ stack' = <<Item("program", node)>>
  BY DEF ReduceEmptyProgram
<1>2. Height = 0 /\ Len(stack) = 0 /\ Top(stack) = "bottom" /\ TopSym = "bottom" /\ Sym(-1) = "bottom"
  BY <1>1 DEF Height, Top, SymIn, TopSym, Sym
<1>3. stack' = Reduced(0, "program", node)
  BY <1>1, <1>2, SubSeqEmpty DEF Reduced
<1> HIDE DEF node
<1> DEFINE sym == "program"
<1>4. sym \notin {"[", "]"} /\ Top(stack) \notin Receptive /\ Top(stack) # "]"
  BY <1>2 DEF Receptive
<1>5. Pushed(stack, stack', 0, sym, node)
  <2>1. 0 \in 0..Height /\ Height - 0 = 0
    BY <1>2
  <2> QED
    BY <1>3, <2>1, ReducedPushes
<1>6. Current(stack) = {"INITIAL"}
  BY <1>2 DEF Current, Allowed
<1>7. 0 \in Nat /\ sym # "["
  OBVIOUS
<1>8. Top(stack') = sym
  <2> HIDE DEF sym
  <2> QED
    BY <1>5, <1>7, PlainPush
<1>9. Current(stack) \subseteq Current(stack')
  BY <1>6, <1>8 DEF Current, Allowed
<1>10. \A k \in (0 + 1)..Len(stack) : SymIn(stack, k) # "["
  BY <1>2
<1>11. Len(stack) \in Nat /\ 0 \in 0..Len(stack) /\ 0 \in 0..Height
  BY <1>2
<1> HIDE DEF sym
<1>12. ASSUME AtRest(stack, conds) PROVE AtRest(stack', conds)
  BY <1>4, <1>5, <1>9, <1>10, <1>11, <1>12, ReduceAtRest
<1> QED
  BY <1>1, <1>4, <1>5, <1>11, <1>12, ReductionScan

\* args: args_child
LEMMA FirstArgScan ==
  ASSUME ScanInv, StackInv, ReduceFirstArg
  PROVE  ScanInv'
<1> DEFINE node == Len(nodes) + 1
<1>1. /\ Reduce /\ TopSym = "args_child" /\ Sym(Height - 1) \in {"symbol", ":"}
      /\ stack' = Reduced(1, "args", node)
  BY DEF ReduceFirstArg
<1>2. Allowed(TopSym, Sym(Height - 1)) \subseteq Allowed("args", Sym(Height - 1))
  BY <1>1 DEF Allowed, Under
<1>3. TopSym \notin Receptive \union {"]", "bottom"} /\ "args" \notin {"[", "]"}
  BY <1>1 DEF Receptive
<1> HIDE DEF node
<1> QED
  BY <1>1, <1>2, <1>3, ReduceOneScan

\* args_child: TEXT | LITERAL | ARG_REF_ALL_ARGS | block
LEMMA ArgsChildScan ==
  ASSUME ScanInv, StackInv, ReduceArgsChild
  PROVE  ScanInv'
<1> DEFINE node == Node(Height)
<1>1. /\ Reduce /\ TopSym \in Leaves \union {"block"}
      /\ stack' = Reduced(1, "args_child", node)
  BY DEF ReduceArgsChild
<1>2. Allowed(TopSym, Sym(Height - 1)) \subseteq Allowed("args_child", Sym(Height - 1))
  BY <1>1 DEF Allowed, Leaves
<1>3. TopSym \notin Receptive \union {"]", "bottom"} /\ "args_child" \notin {"[", "]"}
  BY <1>1 DEF Receptive, Leaves
<1> HIDE DEF node
<1> QED
  BY <1>1, <1>2, <1>3, ReduceOneScan

\* symbol: SYMBOL
LEMMA NameScan ==
  ASSUME ScanInv, StackInv, ReduceName
  PROVE  ScanInv'
<1> DEFINE node == Node(Height)
<1>1. Reduce /\ TopSym = "SYMBOL" /\ stack' = Reduced(1, "symbol", node)
  BY DEF ReduceName
<1>2. Allowed(TopSym, Sym(Height - 1)) \subseteq Allowed("symbol", Sym(Height - 1))
  BY <1>1 DEF Allowed
<1>3. TopSym \notin Receptive \union {"]", "bottom"} /\ "symbol" \notin {"[", "]"}
  BY <1>1 DEF Receptive
<1> HIDE DEF node
<1> QED
  BY <1>1, <1>2, <1>3, ReduceOneScan

\* symbol: block
LEMMA ComputedNameScan ==
  ASSUME ScanInv, StackInv, ReduceComputedName
  PROVE  ScanInv'
<1> DEFINE node == Len(nodes) + 1
<1>1. /\ Reduce /\ TopSym = "block" /\ Sym(Height - 1) = "["
      /\ stack' = Reduced(1, "symbol", node)
  BY DEF ReduceComputedName
<1>2. Allowed(TopSym, Sym(Height - 1)) \subseteq Allowed("symbol", Sym(Height - 1))
  BY <1>1 DEF Allowed, Under
<1>3. TopSym \notin Receptive \union {"]", "bottom"} /\ "symbol" \notin {"[", "]"}
  BY <1>1 DEF Receptive
<1> HIDE DEF node
<1> QED
  BY <1>1, <1>2, <1>3, ReduceOneScan

\* Taking the top off is reducing the two topmost items to the lower of them
LEMMA FrontIsReduced ==
  ASSUME StackInv, Height >= 2
  PROVE  Front(stack) = Reduced(2, Sym(Height - 1), Node(Height - 1))
<1>1. stack \in Seq(StackItem) /\ Height \in Nat /\ Height = Len(stack)
  BY DEF StackInv, Height
<1>2. Height - 1 \in 1..Len(stack) /\ (Height - 1) - 1 = Height - 2
  BY <1>1
<1>3. stack[Height - 1] \in StackItem
  BY <1>1, <1>2
<1>4. stack[Height - 1] = Item(Sym(Height - 1), Node(Height - 1))
  BY <1>1, <1>2, <1>3 DEF StackItem, Item, Sym, Node
<1>5. SubSeq(stack, 1, Height - 1) = Append(SubSeq(stack, 1, Height - 2), stack[Height - 1])
  <2>1. Len(stack) >= 1 /\ 1 \in 1..Len(stack) /\ Height - 1 \in 1..Len(stack)
    BY <1>1, <1>2
  <2> QED
    BY <1>1, <1>2, <2>1, SubSeqRecursiveSecond
<1> QED
  BY <1>1, <1>4, <1>5 DEF Front, Reduced

\* program: program args_child, and args: args args_child
LEMMA AppendChildScan ==
  ASSUME ScanInv, StackInv, ReduceAppendChild
  PROVE  ScanInv'
<1>1. /\ Reduce /\ TopSym = "args_child" /\ Sym(Height - 1) \in {"program", "args"}
      /\ stack' = Front(stack)
  BY DEF ReduceAppendChild
<1>2. Height \in Nat /\ Height = Len(stack) /\ Height >= 2
  BY <1>1 DEF StackInv, Height, Sym
<1> DEFINE h == Height - 2
           sym == Sym(Height - 1)
           node == Node(Height - 1)
<1>3. h \in Nat /\ h \in 0..Height /\ h \in 0..Len(stack) /\ (h + 1)..Len(stack) = {Height - 1, Height}
  BY <1>2
<1>4. Pushed(stack, stack', h, sym, node)
  <2>1. stack' = Reduced(2, sym, node) /\ 2 \in 0..Height
    BY <1>1, <1>2, FrontIsReduced
  <2> QED
    BY <2>1, ReducedPushes
<1>5. Top(stack) = "args_child" /\ sym \in {"program", "args"} /\ Sym(Height) = "args_child"
  BY <1>1, SymIsSymIn DEF TopSym
<1>6. \A k \in (h + 1)..Len(stack) : SymIn(stack, k) # "["
  BY <1>3, <1>5, SymIsSymIn
<1>7. Current(stack) = {Under(sym)}
  BY <1>2, <1>5, SymIsSymIn DEF Current, Allowed
<1>8. sym \notin {"[", "]"} /\ Top(stack) \notin Receptive /\ Top(stack) # "]"
  BY <1>5 DEF Receptive
<1> HIDE DEF h, sym, node
<1>9. Top(stack') = sym
  BY <1>3, <1>4, <1>8, PlainPush
<1>10. Current(stack) \subseteq Current(stack')
  BY <1>5, <1>7, <1>9 DEF Current, Allowed, Under
<1>11. ASSUME AtRest(stack, conds) PROVE AtRest(stack', conds)
  BY <1>2, <1>3, <1>4, <1>6, <1>8, <1>10, <1>11, ReduceAtRest
<1> QED
  BY <1>1, <1>3, <1>4, <1>8, <1>11, ReductionScan

\* A block: its bracket is m symbols from the top and no other is above it
LEMMA BlockScan ==
  ASSUME ScanInv, StackInv, Reduce, TopSym = "]",
         NEW m \in 1..Height, Sym(Height - m + 1) = "[",
         \A k \in (Height - m + 2)..Height : Sym(k) # "[",
         NEW sym, sym = "block", NEW node, stack' = Reduced(m, sym, node)
  PROVE  ScanInv'
<1>1. Height \in Nat /\ Height = Len(stack)
  BY DEF StackInv, Height
<1> DEFINE h == Height - m
<1>2. h \in Nat /\ h \in 0..Height /\ h \in 0..(Len(stack) - 1) /\ m \in 0..Height
  BY <1>1
<1>3. Pushed(stack, stack', h, sym, node)
  BY <1>2, ReducedPushes
<1>4. SymIn(stack, h + 1) = "[" /\ Top(stack) = "]" /\ Top(stack) \notin Receptive
  BY SymIsSymIn DEF Receptive
<1>5. \A k \in (h + 2)..Len(stack) : SymIn(stack, k) # "["
  BY <1>1, SymIsSymIn
<1>6. Len(stack) \in Nat /\ sym # "["
  BY <1>1
<1> HIDE DEF h
<1>7. ASSUME Bases(stack, conds), AtRest(stack, conds) PROVE AtRest(stack', conds)
  BY <1>2, <1>3, <1>4, <1>5, <1>6, <1>7, BlockAtRest
<1> QED
  BY <1>2, <1>3, <1>4, <1>6, <1>7, ReductionScan

\* block: '[' symbol ':' args ']'
LEMMA AssignmentScan ==
  ASSUME ParserInv, ScanInv, ReduceAssignment
  PROVE  ScanInv'
<1>1. StackInv /\ Height \in Nat
  BY DEF ParserInv, StackInv, Height
<1> DEFINE node == Len(nodes) + 1
<1>2. /\ Reduce /\ TopSym = "]" /\ Sym(Height) = "]" /\ Sym(Height - 2) = ":"
      /\ stack' = Reduced(5, "block", node)
  BY DEF ReduceAssignment, TopSym
<1>3. Sym(Height - 3) = "symbol"
  <2>1. Height - 2 \in Int /\ (Height - 2) - 1 = Height - 3
    BY <1>1
  <2> QED
    BY <1>2, <2>1, NamesAndLists
<1>4. Sym(Height - 1) # "["
  BY <1>1, <1>2, NamesAndLists
<1>5. Sym(Height - 4) = "[" /\ Height - 4 \in 1..Height
  <2>1. Height - 3 \in Int /\ Height - 4 \in Int /\ (Height - 3) - 1 = Height - 4
    BY <1>1
  <2>2. Sym(Height - 4) = "["
    BY <1>3, <2>1, NamesAndLists
  <2> QED
    BY <2>1, <2>2, NamesAndLists
<1>6. 5 \in 1..Height /\ Height - 5 + 1 = Height - 4
      /\ (Height - 5 + 2)..Height = {Height - 3, Height - 2, Height - 1, Height}
  BY <1>1, <1>5
<1>7. \A k \in (Height - 5 + 2)..Height : Sym(k) # "["
  BY <1>2, <1>3, <1>4, <1>6
<1> HIDE DEF node
<1> QED
  BY <1>1, <1>2, <1>5, <1>6, <1>7, BlockScan

\* block: '[' symbol args ']'
LEMMA CallWithArgsScan ==
  ASSUME ParserInv, ScanInv, ReduceCallWithArgs
  PROVE  ScanInv'
<1>1. StackInv /\ Height \in Nat
  BY DEF ParserInv, StackInv, Height
<1> DEFINE node == Len(nodes) + 1
<1>2. /\ Reduce /\ TopSym = "]" /\ Sym(Height) = "]"
      /\ Sym(Height - 1) = "args" /\ Sym(Height - 2) = "symbol"
      /\ stack' = Reduced(4, "block", node)
  BY DEF ReduceCallWithArgs, TopSym
<1>3. Sym(Height - 3) = "[" /\ Height - 3 \in 1..Height
  <2>1. Height - 2 \in Int /\ Height - 3 \in Int /\ (Height - 2) - 1 = Height - 3
    BY <1>1
  <2>2. Sym(Height - 3) = "["
    BY <1>2, <2>1, NamesAndLists
  <2> QED
    BY <2>1, <2>2, NamesAndLists
<1>4. 4 \in 1..Height /\ Height - 4 + 1 = Height - 3
      /\ (Height - 4 + 2)..Height = {Height - 2, Height - 1, Height}
  BY <1>1, <1>3
<1>5. \A k \in (Height - 4 + 2)..Height : Sym(k) # "["
  BY <1>2, <1>4
<1> HIDE DEF node
<1> QED
  BY <1>1, <1>2, <1>3, <1>4, <1>5, BlockScan

\* block: '[' symbol ']'
LEMMA CallScan ==
  ASSUME ParserInv, ScanInv, ReduceCall
  PROVE  ScanInv'
<1>1. StackInv /\ Height \in Nat
  BY DEF ParserInv, StackInv, Height
<1> DEFINE node == Len(nodes) + 1
<1>2. /\ Reduce /\ TopSym = "]" /\ Sym(Height) = "]" /\ Sym(Height - 1) = "symbol"
      /\ stack' = Reduced(3, "block", node)
  BY DEF ReduceCall, TopSym
<1>3. Sym(Height - 2) = "[" /\ Height - 2 \in 1..Height
  <2>1. Height - 1 \in Int /\ Height - 2 \in Int /\ (Height - 1) - 1 = Height - 2
    BY <1>1
  <2>2. Sym(Height - 2) = "["
    BY <1>2, <2>1, NamesAndLists
  <2> QED
    BY <2>1, <2>2, NamesAndLists
<1>4. 3 \in 1..Height /\ Height - 3 + 1 = Height - 2
      /\ (Height - 3 + 2)..Height = {Height - 1, Height}
  BY <1>1, <1>3
<1>5. \A k \in (Height - 3 + 2)..Height : Sym(k) # "["
  BY <1>2, <1>4
<1> HIDE DEF node
<1> QED
  BY <1>1, <1>2, <1>3, <1>4, <1>5, BlockScan

\* A shift brings the stack to where the token has moved the conditions
LEMMA ShiftScan ==
  ASSUME StackInv, ScanInv, Shift
  PROVE  ScanInv'
<1> DEFINE kind == token.kind
           node == token.node
           h == Height
<1>1. Height \in Nat /\ Height = Len(stack) /\ stack \in Seq(StackItem)
  BY DEF StackInv, Height
<1>2. /\ parsing = "running" /\ token # NoToken /\ kind \in Acceptable \ {"EOF"}
      /\ stack' = Append(stack, Item(kind, node))
      /\ token' = NoToken /\ UNCHANGED <<source, conds, nodes, parsing>>
  BY DEF Shift, HasToken, NeedsToken
<1>3. /\ Bases(stack, conds) /\ Ahead(stack, conds, kind)
  BY <1>2 DEF ScanInv, Unfinished
<1>4. Pushed(stack, stack', h, kind, node)
  <2>1. SubSeq(stack, 1, Len(stack)) = stack
    BY <1>1, SubSeqFull
  <2>2. stack' = Reduced(0, kind, node) /\ 0 \in 0..Height /\ Height - 0 = Height
    BY <1>1, <1>2, <2>1 DEF Reduced
  <2> QED
    BY <2>2, ReducedPushes
<1>5. Top(stack') = kind /\ SymIn(stack', Len(stack') - 1) = Top(stack)
  <2>1. Top(stack') = kind
    BY <1>1, <1>4, PushFacts
  <2>2. SymIn(stack', Len(stack') - 1) = SymIn(stack, h)
    BY <1>1, <1>4, PushFacts
  <2> QED
    BY <1>1, <2>1, <2>2 DEF Top
<1>6. kind # "[" => Opens(stack', Len(stack')) = Opens(stack, Len(stack))
  BY <1>1, <1>4, PushFacts
<1>7. kind = "[" => Opens(stack', Len(stack')) = Opens(stack, Len(stack)) + 1
  BY <1>1, <1>4, PushFacts
<1>8. Bases(stack', conds)
  <2>1. CASE kind # "["
    <3>1. Len(stack) \in Nat /\ h \in Nat /\ h <= Len(stack)
      BY <1>1
    <3> HIDE DEF h, kind, node
    <3> QED
      BY <1>3, <1>4, <2>1, <3>1, PushBases
  <2>2. CASE kind = "["
    <3>1. conds[Opens(stack, Len(stack)) + 1] = Under(Top(stack))
      BY <1>3, <2>2 DEF Ahead
    <3>2. ASSUME NEW k \in 1..Len(stack'), SymIn(stack', k) = "["
          PROVE  conds[Opens(stack', k)] = Under(SymIn(stack', k - 1))
      <4>1. Len(stack') = h + 1
        BY <1>4 DEF Pushed
      <4>2. CASE k = h + 1
        <5>1. Opens(stack', k) = Opens(stack, Len(stack)) + 1 /\ SymIn(stack', k - 1) = Top(stack)
          BY <1>5, <1>7, <2>2, <4>1, <4>2
        <5> QED
          BY <3>1, <5>1
      <4>3. CASE k # h + 1
        <5>1. k \in 1..h /\ k \in 0..h /\ k - 1 \in 0..h
          BY <1>1, <4>1, <4>3
        <5>2. \A j \in 0..h : SymIn(stack', j) = SymIn(stack, j)
          BY <1>4 DEF Pushed
        <5>3. Opens(stack', k) = Opens(stack, k)
          BY <1>1, <5>1, <5>2, OpensKept
        <5> QED
          BY <1>1, <1>3, <3>2, <5>1, <5>2, <5>3 DEF Bases
      <4> QED
        BY <4>2, <4>3
    <3> QED
      BY <3>2 DEF Bases
  <2> QED
    BY <2>1, <2>2
<1>9. Opens(stack, Len(stack)) \in Nat
  BY <1>1, OpensFacts
<1>10. AtRest(stack', conds)
  <2>1. kind \in {"[", "]", ":", "SYMBOL"} \union Leaves
    BY <1>2 DEF Acceptable, Leaves
  <2>2. CASE kind = "]"
    <3>1. Top(stack) # "program"
      BY <1>2, <2>2, SymIsSymIn DEF Acceptable, Leaves
    <3> QED
      BY <1>3, <1>5, <1>6, <2>2, <3>1 DEF AtRest, Ahead
  <2>3. CASE kind = "["
    BY <1>3, <1>5, <1>7, <1>9, <2>3 DEF AtRest, Ahead, Deep, Current, Allowed
  <2>4. CASE kind \in {":", "SYMBOL"}
    BY <1>3, <1>5, <1>6, <2>4 DEF AtRest, Ahead, Deep, Current, Allowed
  <2>5. CASE kind \in Leaves
    <3>1. Current(stack') = {Under(Top(stack))}
      BY <1>5, <2>5 DEF Current, Allowed, Leaves
    <3>2. Deep(stack, conds, 1, {Under(Top(stack))}) /\ kind # "[" /\ kind # "]"
      BY <1>3, <2>5 DEF Ahead, Leaves
    <3> QED
      BY <1>5, <1>6, <3>1, <3>2 DEF AtRest, Deep
  <2> QED
    BY <2>1, <2>2, <2>3, <2>4, <2>5
<1> QED
  BY <1>2, <1>8, <1>10 DEF ScanInv, NoToken

\* What the scanner does above the conditions of the open blocks leaves these alone
LEMMA BasesKept ==
  ASSUME NEW st, Len(st) \in Nat, NEW cs, NEW ds, Bases(st, cs),
         \A i \in 1..Opens(st, Len(st)) : ds[i] = cs[i]
  PROVE  Bases(st, ds)
<1>1. ASSUME NEW k \in 1..Len(st), SymIn(st, k) = "["
      PROVE  ds[Opens(st, k)] = Under(SymIn(st, k - 1))
  <2>1. Opens(st, k) \in 1..Opens(st, Len(st))
    BY <1>1, OpensAt
  <2> QED
    BY <1>1, <2>1 DEF Bases
<1> QED
  BY <1>1 DEF Bases

\* yy_pop_state and replace_state touch the last condition only
LEMMA CondsMoved ==
  ASSUME LexTypes, NEW n \in Nat, Len(conds) = n + 1, NEW c
  PROVE  /\ Len(Front(conds)) = n
         /\ \A i \in 1..n : Front(conds)[i] = conds[i]
         /\ Len(Replaced(c)) = n + 1
         /\ \A i \in 1..n : Replaced(c)[i] = conds[i]
         /\ Replaced(c)[n + 1] = c
<1> DEFINE S == StartConds \union {"IN_LITERAL", c}
           f == Front(conds)
<1>1. \A i \in 1..n : conds[i] \in S
  BY DEF LexTypes
<1>2. f \in Seq(S) /\ Len(f) = n /\ \A i \in 1..n : f[i] = conds[i]
  BY <1>1, SubSeqProperties DEF Front
<1> HIDE DEF f
<1> DEFINE r == Append(f, c)
<1>3. c \in S
  OBVIOUS
<1> HIDE DEF S
<1>4. Len(r) = n + 1 /\ r[n + 1] = c /\ \A i \in 1..n : r[i] = f[i]
  BY <1>2, <1>3, AppendProperties
<1>5. Replaced(c) = r
  BY DEF Replaced, f
<1> HIDE DEF r
<1> QED
  BY <1>2, <1>4, <1>5 DEF f

\* A condition is pushed
LEMMA CondsPushed ==
  ASSUME NEW cs, NEW S, cs \in Seq(S), NEW n \in Nat, Len(cs) = n, NEW c
  PROVE  /\ Len(Append(cs, c)) = n + 1
         /\ Append(cs, c)[n + 1] = c
         /\ \A i \in 1..n : Append(cs, c)[i] = cs[i]
<1>1. cs \in Seq(S \union {c}) /\ c \in S \union {c}
  OBVIOUS
<1> QED
  BY <1>1, AppendProperties

\* The conditions when the parser waits for a token and none has come
LEMMA WaitingConds ==
  ASSUME ParserInv, ScanInv, NeedsToken, Scanning, ~ Unfinished
  PROVE  /\ TopSym \in Receptive /\ TopSym = Top(stack)
         /\ Opens(stack, Len(stack)) \in Nat /\ Len(stack) \in Nat
         /\ Bases(stack, conds)
         /\ Len(conds) = Opens(stack, Len(stack)) + 1
         /\ Cond \in Allowed(TopSym, Sym(Height - 1))
         /\ LexTypes
<1>1. TopSym \in Receptive /\ TopSym = Top(stack)
  BY SymIsSymIn DEF NeedsToken, Acceptable, Receptive
<1>2. Len(stack) \in Nat /\ LexTypes
  BY DEF ParserInv, StackInv
<1>3. Opens(stack, Len(stack)) \in Nat
  BY <1>2, OpensFacts
<1>4. parsing = "running" /\ token = NoToken
  BY DEF NeedsToken, Scanning
<1>5. Bases(stack, conds) /\ AtRest(stack, conds)
  BY <1>4 DEF ScanInv
<1>6. Deep(stack, conds, 1, Current(stack))
  BY <1>1, <1>5 DEF AtRest, Receptive
<1>7. Current(stack) = Allowed(TopSym, Sym(Height - 1))
  BY SymIsSymIn DEF Current
<1> QED
  BY <1>1, <1>2, <1>3, <1>5, <1>6, <1>7 DEF Deep, Cond

\* The rules that make no token: the top of the stack allows where they go
LEMMA NoTokenScan ==
  ASSUME ParserInv, ScanInv, NeedsToken, Scanning, ~ Unfinished, SkipBlanks \/ NameEnds,
         UNCHANGED <<stack, parsing>>
  PROVE  ScanInv'
<1>1. /\ TopSym \in Receptive /\ TopSym = Top(stack)
      /\ Opens(stack, Len(stack)) \in Nat /\ Len(stack) \in Nat
      /\ Bases(stack, conds) /\ Len(conds) = Opens(stack, Len(stack)) + 1
      /\ Cond \in Allowed(TopSym, Sym(Height - 1)) /\ LexTypes
  BY WaitingConds
<1>2. CASE SkipBlanks
  <2>1. UNCHANGED <<conds, token>>
    BY <1>2 DEF SkipBlanks
  <2>2. AtRest(stack, conds) /\ token = NoToken /\ parsing = "running"
    BY DEF ScanInv, NeedsToken, Scanning
  <2> QED
    BY <1>1, <2>1, <2>2 DEF ScanInv, NoToken
<1>3. CASE NameEnds
  <2> DEFINE n == Opens(stack, Len(stack))
  <2>1. conds' = Replaced("CONTENT") /\ token' = token /\ Cond = "HAS_CALL_NAME"
    BY <1>3 DEF NameEnds
  <2>2. TopSym = "symbol"
    BY <1>1, <2>1 DEF Allowed, Receptive
  <2>3. Len(conds') = n + 1 /\ conds'[n + 1] = "CONTENT" /\ \A i \in 1..n : conds'[i] = conds[i]
    BY <1>1, <2>1, CondsMoved
  <2> HIDE DEF n
  <2>4. Bases(stack, conds')
    BY <1>1, <2>3, BasesKept DEF n
  <2>5. "CONTENT" \in Current(stack)
    BY <1>1, <2>2 DEF Current, Allowed
  <2>6. AtRest(stack, conds')
    BY <1>1, <2>2, <2>3, <2>5 DEF AtRest, Deep, n
  <2>7. token = NoToken /\ parsing = "running"
    BY DEF NeedsToken, Scanning
  <2> QED
    BY <2>1, <2>4, <2>6, <2>7 DEF ScanInv, NoToken
<1> QED
  BY <1>2, <1>3

\* A token for which the scanner has moved the conditions as it should
LEMMA TokenScan ==
  ASSUME NeedsToken, UNCHANGED <<stack, parsing>>, TopSym \in Receptive,
         Bases(stack, conds'), token' # NoToken, Ahead(stack, conds', token'.kind)
  PROVE  ScanInv'
<1>1. Top(stack) \in Receptive
  BY SymIsSymIn
<1> QED
  BY <1>1 DEF ScanInv, NoToken

\* The rules of a text, a literal or a reference leave the conditions alone
LEMMA LeafScan ==
  ASSUME ParserInv, ScanInv, NeedsToken, Scanning, ~ Unfinished,
         UNCHANGED <<stack, parsing, conds>>,
         NEW type \in Leaves, NEW text, NEW n, ReturnNode(type, text, n),
         Cond = "INITIAL" \/ Cond = "CONTENT"
  PROVE  ScanInv'
<1>1. /\ TopSym \in Receptive /\ TopSym = Top(stack)
      /\ Bases(stack, conds) /\ Len(conds) = Opens(stack, Len(stack)) + 1
      /\ Cond \in Allowed(TopSym, Sym(Height - 1))
  BY WaitingConds
<1>2. Cond = Under(TopSym)
  BY <1>1 DEF Allowed, Under, Receptive
<1>3. Deep(stack, conds, 1, {Under(Top(stack))})
  BY <1>1, <1>2 DEF Deep, Cond
<1>4. token'.kind = type /\ token' # NoToken
  BY DEF ReturnNode, NoToken, Leaves
<1>5. Ahead(stack, conds', token'.kind)
  BY <1>3, <1>4 DEF Ahead, Leaves
<1> QED
  BY <1>1, <1>4, <1>5, TokenScan

\* "[" pushes the condition of a name, in a name over that of a name that has ended
LEMMA OpenBlockScan ==
  ASSUME ParserInv, ScanInv, NeedsToken, Scanning, ~ Unfinished, OpenBlock,
         UNCHANGED <<stack, parsing>>
  PROVE  ScanInv'
<1> DEFINE n == Opens(stack, Len(stack))
<1>1. /\ TopSym \in Receptive /\ TopSym = Top(stack)
      /\ n \in Nat /\ Len(stack) \in Nat
      /\ Bases(stack, conds) /\ Len(conds) = n + 1
      /\ Cond \in Allowed(TopSym, Sym(Height - 1)) /\ LexTypes
  BY WaitingConds
<1>2. token'.kind = "[" /\ token' # NoToken
  BY DEF OpenBlock, Punctuation, NoToken
<1> SUFFICES /\ Len(conds') = n + 2
             /\ conds'[n + 2] = "DEFINE_CALL_NAME"
             /\ conds'[n + 1] = Under(Top(stack))
             /\ \A i \in 1..n : conds'[i] = conds[i]
  <2>1. Bases(stack, conds')
    BY <1>1, BasesKept
  <2>2. Ahead(stack, conds', token'.kind)
    BY <1>2 DEF Ahead, Deep, Leaves
  <2> QED
    BY <1>1, <1>2, <2>1, <2>2, TokenScan
<1>3. CASE Cond \in {"INITIAL", "CONTENT"}
  <2>1. conds' = Append(conds, "DEFINE_CALL_NAME")
    BY <1>3 DEF OpenBlock
  <2>2. Cond = Under(TopSym)
    BY <1>1, <1>3 DEF Allowed, Under, Receptive
  <2> HIDE DEF n
  <2>3. /\ Len(conds') = (n + 1) + 1 /\ conds'[(n + 1) + 1] = "DEFINE_CALL_NAME"
        /\ \A i \in 1..(n + 1) : conds'[i] = conds[i]
    <3>1. conds \in Seq(StartConds \union {"IN_LITERAL"}) /\ n + 1 \in Nat
      BY <1>1 DEF LexTypes
    <3> QED
      BY <1>1, <2>1, <3>1, CondsPushed
  <2>4. conds'[n + 1] = conds[n + 1]
    BY <1>1, <2>3
  <2> QED
    BY <1>1, <2>2, <2>3, <2>4 DEF Cond
<1>4. CASE Cond = "DEFINE_CALL_NAME"
  <2> DEFINE r == Replaced("HAS_CALL_NAME")
  <2>1. conds' = Append(r, "DEFINE_CALL_NAME")
    BY <1>4 DEF OpenBlock
  <2>2. TopSym = "["
    BY <1>1, <1>4 DEF Allowed, Receptive
  <2> HIDE DEF n
  <2>3. /\ Len(r) = n + 1 /\ r[n + 1] = "HAS_CALL_NAME" /\ \A i \in 1..n : r[i] = conds[i]
    BY <1>1, CondsMoved
  <2>4. r \in Seq(StartConds \union {"IN_LITERAL"})
    BY <1>1, CondsType DEF StartConds
  <2> HIDE DEF r
  <2>5. /\ Len(conds') = (n + 1) + 1 /\ conds'[(n + 1) + 1] = "DEFINE_CALL_NAME"
        /\ \A i \in 1..(n + 1) : conds'[i] = r[i]
    <3>1. n + 1 \in Nat
      BY <1>1
    <3> QED
      BY <2>1, <2>3, <2>4, <3>1, CondsPushed
  <2>6. conds'[n + 1] = "HAS_CALL_NAME"
    BY <1>1, <2>3, <2>5
  <2>7. Under(Top(stack)) = "HAS_CALL_NAME"
    BY <1>1, <2>2 DEF Under
  <2> QED
    BY <1>1, <2>3, <2>5, <2>6, <2>7
<1> QED
  BY <1>3, <1>4 DEF OpenBlock

\* "]" pops the condition of the block; outside every block there is none
LEMMA CloseBlockScan ==
  ASSUME ParserInv, ScanInv, NeedsToken, Scanning, ~ Unfinished, CloseBlock,
         UNCHANGED <<stack, parsing>>
  PROVE  ScanInv'
<1> DEFINE n == Opens(stack, Len(stack))
<1>1. /\ TopSym \in Receptive /\ TopSym = Top(stack)
      /\ n \in Nat /\ Len(stack) \in Nat
      /\ Bases(stack, conds) /\ Len(conds) = n + 1
      /\ Cond \in Allowed(TopSym, Sym(Height - 1)) /\ LexTypes
  BY WaitingConds
<1>2. token'.kind = "]" /\ token' # NoToken
  BY DEF CloseBlock, Punctuation, NoToken
<1>3. CASE Cond = "INITIAL"
  <2>1. conds' = conds
    BY <1>3 DEF CloseBlock
  <2>2. Top(stack) = "program"
    BY <1>1, <1>3 DEF Allowed, Receptive
  <2>3. Ahead(stack, conds', token'.kind)
    BY <1>2, <2>2 DEF Ahead, Leaves
  <2> QED
    BY <1>1, <1>2, <2>1, <2>3, TokenScan
<1>4. CASE Cond # "INITIAL"
  <2>1. conds' = Front(conds)
    BY <1>4 DEF CloseBlock
  <2> HIDE DEF n
  <2>2. Len(conds') = n /\ \A i \in 1..n : conds'[i] = conds[i]
    BY <1>1, <2>1, CondsMoved
  <2>3. Bases(stack, conds')
    BY <1>1, <2>2, BasesKept DEF n
  <2>4. Ahead(stack, conds', token'.kind)
    BY <1>2, <2>2 DEF Ahead, Leaves, n
  <2> QED
    BY <1>1, <1>2, <2>3, <2>4, TokenScan
<1> QED
  BY <1>3, <1>4

\* ":" and a name replace the condition
LEMMA ReplaceScan ==
  ASSUME ParserInv, ScanInv, NeedsToken, Scanning, ~ Unfinished,
         UNCHANGED <<stack, parsing>>, token' # NoToken,
         NEW c, conds' = Replaced(c),
         \/ c = "CONTENT" /\ token'.kind = ":"
         \/ c = "HAS_CALL_NAME" /\ token'.kind = "SYMBOL"
  PROVE  ScanInv'
<1> DEFINE n == Opens(stack, Len(stack))
<1>1. /\ TopSym \in Receptive
      /\ n \in Nat /\ Len(stack) \in Nat
      /\ Bases(stack, conds) /\ Len(conds) = n + 1 /\ LexTypes
  BY WaitingConds
<1> HIDE DEF n
<1>2. Len(conds') = n + 1 /\ conds'[n + 1] = c /\ \A i \in 1..n : conds'[i] = conds[i]
  BY <1>1, CondsMoved
<1>3. Bases(stack, conds')
  BY <1>1, <1>2, BasesKept DEF n
<1>4. Deep(stack, conds', 1, {c})
  BY <1>2 DEF Deep, n
<1>5. Ahead(stack, conds', token'.kind)
  BY <1>4 DEF Ahead, Leaves
<1> QED
  BY <1>1, <1>3, <1>5, TokenScan

\* "{#": a literal is returned, or the end of the source is reached
LEMMA LiteralScan ==
  ASSUME ParserInv, ScanInv, NeedsToken, Scanning, ~ Unfinished, Literal,
         UNCHANGED <<stack, parsing>>
  PROVE  ScanInv'
<1>1. Cond = "CONTENT" /\ "LITERAL" \in Leaves
  BY DEF Literal, InContent, Leaves
<1>2. CASE Len(source) = 2
  <2> DEFINE n == Opens(stack, Len(stack))
  <2>1. /\ TopSym \in Receptive /\ TopSym = Top(stack)
        /\ n \in Nat /\ Len(stack) \in Nat
        /\ Bases(stack, conds) /\ Len(conds) = n + 1 /\ LexTypes
    BY WaitingConds
  <2>2. source' = <<>> /\ conds' = Append(conds, "IN_LITERAL") /\ token' = token
    BY <1>2 DEF Literal
  <2>3. /\ Len(conds') = (n + 1) + 1 /\ conds'[(n + 1) + 1] = "IN_LITERAL"
        /\ \A i \in 1..(n + 1) : conds'[i] = conds[i]
    <3>1. conds \in Seq(StartConds \union {"IN_LITERAL"}) /\ n + 1 \in Nat
      BY <2>1 DEF LexTypes
    <3> HIDE DEF n
    <3> QED
      BY <2>1, <2>2, <3>1, CondsPushed
  <2> HIDE DEF n
  <2>4. \A i \in 1..n : conds'[i] = conds[i]
    BY <2>1, <2>3
  <2>5. Bases(stack, conds')
    BY <2>1, <2>4, BasesKept DEF n
  <2>6. Unfinished'
    BY <2>2, <2>3 DEF Unfinished, Cond, NoToken, Scanning
  <2>7. token' = NoToken
    BY <2>2 DEF Scanning
  <2> QED
    BY <2>5, <2>6, <2>7 DEF ScanInv, NoToken
<1>3. CASE Len(source) # 2 /\ LiteralEnds # {}
  <2> DEFINE e == Min(LiteralEnds)
             text == SubSeq(source, 3, e - 1)
             n == e + 1
  <2>1. ReturnNode("LITERAL", text, n) /\ UNCHANGED conds
    BY <1>3 DEF Literal
  <2> HIDE DEF text, n
  <2> QED
    BY <1>1, <2>1, LeafScan
<1>4. CASE Len(source) # 2 /\ LiteralEnds = {}
  <2> DEFINE text == Drop(2)
             n == Len(source)
  <2>1. ReturnNode("LITERAL", text, n) /\ UNCHANGED conds
    BY <1>4 DEF Literal
  <2> HIDE DEF text, n
  <2> QED
    BY <1>1, <2>1, LeafScan
<1> QED
  BY <1>2, <1>3, <1>4

\* A character of a text, and the text when it ends
LEMMA TextCharScan ==
  ASSUME ParserInv, ScanInv, NeedsToken, Scanning, ~ Unfinished, TextChar,
         UNCHANGED <<stack, parsing>>
  PROVE  ScanInv'
<1> DEFINE n == IF First(source) = "\\" /\ Len(source) > 1 THEN 2 ELSE 1
           buffer == Append(textBuffer, source[n])
<1>1. CASE TextEnds(Drop(n))
  <2>1. ReturnNode("TEXT", buffer, n) /\ UNCHANGED conds /\ Cond = "CONTENT"
    BY <1>1 DEF TextChar, InContent
  <2>2. "TEXT" \in Leaves
    BY DEF Leaves
  <2> HIDE DEF n, buffer
  <2> QED
    BY <2>1, <2>2, LeafScan
<1>2. CASE ~ TextEnds(Drop(n))
  <2>1. UNCHANGED <<conds, token>>
    BY <1>2 DEF TextChar
  <2>2. /\ parsing = "running" /\ token = NoToken /\ AtRest(stack, conds) /\ Bases(stack, conds)
    BY DEF ScanInv, NeedsToken, Scanning
  <2> QED
    BY <2>1, <2>2 DEF ScanInv, NoToken
<1> QED
  BY <1>1, <1>2

\* Where nothing is left but the end, only the end is returned
LEMMA EndOfSourceScan ==
  ASSUME ParserInv, ScanInv, NeedsToken, Lex, Unfinished \/ EndOfSource,
         UNCHANGED <<stack, parsing>>
  PROVE  ScanInv'
<1>1. EndOfSource
  <2>1. CASE Unfinished
    <3>1. source = <<>> /\ Cond = "IN_LITERAL"
      BY <2>1 DEF Unfinished
    <3>2. ~ SkipBlanks /\ ~ InitialText /\ ~ Colon /\ ~ Symbol /\ ~ NameEnds
      BY <3>1 DEF SkipBlanks, InitialText, Colon, Symbol, NameEnds
    <3>3. ~ OpenBlock /\ ~ CloseBlock
      BY <3>1 DEF OpenBlock, CloseBlock, First
    <3>4. ~ ArgRef /\ ~ Literal /\ ~ TextChar
      BY <3>1 DEF ArgRef, Literal, TextChar, InContent
    <3> QED
      BY <3>2, <3>3, <3>4 DEF Lex
  <2> QED
    BY <2>1
<1>2. token' = Punctuation("EOF") /\ UNCHANGED conds
  BY <1>1 DEF EndOfSource
<1>3. token'.kind = "EOF" /\ token' # NoToken
  BY <1>2 DEF Punctuation, NoToken
<1>4. Ahead(stack, conds', token'.kind)
  BY <1>3 DEF Ahead, Leaves
<1>5. Bases(stack, conds')
  BY <1>2 DEF ScanInv, NeedsToken
<1>6. TopSym \in Receptive
  BY DEF NeedsToken, Acceptable, Receptive
<1> QED
  BY <1>3, <1>4, <1>5, <1>6, TokenScan

\* Every rule of the scanner moves the conditions with the token it returns
LEMMA ReadTokenScan ==
  ASSUME ParserInv, ScanInv, ReadToken
  PROVE  ScanInv'
<1>1. NeedsToken /\ Lex /\ UNCHANGED <<stack, parsing>>
  BY DEF ReadToken, parserVars
<1>2. CASE Unfinished \/ EndOfSource
  BY <1>1, <1>2, EndOfSourceScan
<1>3. CASE ~ Unfinished /\ ~ EndOfSource
  <2>1. Scanning
    BY <1>1 DEF Lex, SkipBlanks, InitialText, OpenBlock, CloseBlock, Colon, Symbol, NameEnds,
                ArgRef, Literal, TextChar, InContent, EndOfSource
  <2>2. CASE SkipBlanks \/ NameEnds
    BY <1>1, <1>3, <2>1, <2>2, NoTokenScan
  <2>3. CASE InitialText
    <3> DEFINE n == RunLength(source, NotBracket(source))
               text == Take(n)
    <3>1. ReturnNode("TEXT", text, n) /\ Cond = "INITIAL" /\ UNCHANGED conds
      BY <2>3 DEF InitialText
    <3>2. "TEXT" \in Leaves
      BY DEF Leaves
    <3> HIDE DEF n, text
    <3> QED
      BY <1>1, <1>3, <2>1, <3>1, <3>2, LeafScan
  <2>4. CASE OpenBlock
    BY <1>1, <1>3, <2>1, <2>4, OpenBlockScan
  <2>5. CASE CloseBlock
    BY <1>1, <1>3, <2>1, <2>5, CloseBlockScan
  <2>6. CASE Colon
    <3>1. conds' = Replaced("CONTENT") /\ token'.kind = ":" /\ token' # NoToken
      BY <2>6 DEF Colon, Punctuation, NoToken
    <3> QED
      BY <1>1, <1>3, <2>1, <3>1, ReplaceScan
  <2>7. CASE Symbol
    <3>1. conds' = Replaced("HAS_CALL_NAME") /\ token'.kind = "SYMBOL" /\ token' # NoToken
      BY <2>7 DEF Symbol, ReturnNode, NoToken
    <3> QED
      BY <1>1, <1>3, <2>1, <3>1, ReplaceScan
  <2>8. CASE ArgRef
    <3>1. /\ ReturnNode("ARG_REF_ALL_ARGS", NoText, 2) /\ Cond = "CONTENT" /\ UNCHANGED conds
          /\ "ARG_REF_ALL_ARGS" \in Leaves
      BY <2>8 DEF ArgRef, InContent, Leaves
    <3> QED
      BY <1>1, <1>3, <2>1, <3>1, LeafScan
  <2>9. CASE Literal
    BY <1>1, <1>3, <2>1, <2>9, LiteralScan
  <2>10. CASE TextChar
    BY <1>1, <1>3, <2>1, <2>10, TextCharScan
  <2> QED
    BY <1>1, <1>3, <2>2, <2>3, <2>4, <2>5, <2>6, <2>7, <2>8, <2>9, <2>10 DEF Lex
<1> QED
  BY <1>2, <1>3

\* Every step of the reader keeps the scanner and the parser in step
LEMMA NextScan ==
  ASSUME IInv, ScanInv, [Next]_vars
  PROVE  ScanInv'
<1>1. ParserInv /\ StackInv
  BY DEF IInv, ParserInv
<1>2. CASE ReadToken
  BY <1>1, <1>2, ReadTokenScan
<1>3. CASE Shift
  BY <1>1, <1>3, ShiftScan
<1>4. CASE Accept \/ SyntaxError
  BY <1>4 DEF Accept, SyntaxError, ScanInv
<1>5. CASE ReduceEmptyProgram
  BY <1>1, <1>5, EmptyProgramScan
<1>6. CASE ReduceAppendChild
  BY <1>1, <1>6, AppendChildScan
<1>7. CASE ReduceFirstArg
  BY <1>1, <1>7, FirstArgScan
<1>8. CASE ReduceArgsChild
  BY <1>1, <1>8, ArgsChildScan
<1>9. CASE ReduceName
  BY <1>1, <1>9, NameScan
<1>10. CASE ReduceComputedName
  BY <1>1, <1>10, ComputedNameScan
<1>11. CASE ReduceAssignment
  BY <1>1, <1>11, AssignmentScan
<1>12. CASE ReduceCallWithArgs
  BY <1>1, <1>12, CallWithArgsScan
<1>13. CASE ReduceCall
  BY <1>1, <1>13, CallScan
<1>14. CASE UNCHANGED vars
  BY <1>14 DEF vars, lexVars, parserVars, ScanInv, Unfinished, Cond, NoToken
<1>15. Returned => UNCHANGED vars
  BY DEF Returned
<1> QED
  BY <1>2, <1>3, <1>4, <1>5, <1>6, <1>7, <1>8, <1>9, <1>10, <1>11, <1>12, <1>13, <1>14, <1>15
     DEF Next, ParseStep

\* The brackets on the stack are the open blocks up to its height
LEMMA CountIsOpens ==
  ASSUME StackInv
  PROVE  Count("[") = Opens(stack, Len(stack))
<1>1. DOMAIN stack = 1..Len(stack)
  BY DEF StackInv
<1>2. {k \in DOMAIN stack : stack[k].sym = "["} = {j \in 1..Len(stack) : SymIn(stack, j) = "["}
  BY <1>1 DEF SymIn
<1> QED
  BY <1>2 DEF Count, Opens

\* The conditions and the stack agree at every moment
LEMMA ScanAlways == Spec => []ScanInv
<1>1. Init => ScanInv
  <2> SUFFICES ASSUME Init PROVE ScanInv
    OBVIOUS
  <2>1. stack = <<>> /\ conds = <<"INITIAL">> /\ token = NoToken
    BY DEF Init, ParserInit
  <2>2. Len(stack) = 0 /\ Top(stack) = "bottom" /\ Opens(stack, 0) = 0
    BY <2>1, OpensFacts DEF Top, SymIn
  <2>3. Bases(stack, conds)
    BY <2>2 DEF Bases
  <2>4. Len(conds) = 1 /\ conds[1] = "INITIAL"
    BY <2>1
  <2>5. AtRest(stack, conds)
    BY <2>2, <2>4 DEF AtRest, Deep, Current, Allowed
  <2> QED
    BY <2>1, <2>3, <2>5 DEF ScanInv
<1>2. IInv /\ ScanInv /\ [Next]_vars => ScanInv'
  BY NextScan
<1> QED
  BY <1>1, <1>2, Invariant, PTL DEF Spec

(* Whatever the source, escapes, computed names and unfinished literals        *)
(* included: when the parser asks for a token, the scanner is in the condition *)
(* the grammar is in, and has pushed one for every block that is open.         *)
THEOREM ScannerInStep == Spec => []ScannerAgrees
<1>1. IInv /\ ScanInv => ScannerAgrees
  <2> SUFFICES ASSUME IInv, ScanInv, NeedsToken, token = NoToken, Cond # "IN_LITERAL"
               PROVE  /\ Len(conds) = 1 + Count("[")
                      /\ TopSym = "program" => Cond = "INITIAL"
                      /\ TopSym = "["       => Cond = "DEFINE_CALL_NAME"
                      /\ TopSym = "symbol"  => Cond \in {"HAS_CALL_NAME", "CONTENT"}
                      /\ TopSym \in {":", "args"} => Cond = "CONTENT"
    BY DEF ScannerAgrees
  <2>1. ParserInv /\ StackInv /\ ~ Unfinished /\ Scanning
    BY DEF IInv, ParserInv, Unfinished, Scanning
  <2>2. /\ Opens(stack, Len(stack)) \in Nat
        /\ Len(conds) = Opens(stack, Len(stack)) + 1
        /\ Cond \in Allowed(TopSym, Sym(Height - 1))
    BY <2>1, WaitingConds
  <2>3. Len(conds) = 1 + Count("[")
    BY <2>1, <2>2, CountIsOpens
  <2> QED
    BY <2>2, <2>3 DEF Allowed
<1> QED
  BY <1>1, Invariant, ScanAlways, PTL

-----------------------------------------------------------------------------
(* The places of a node: among the children of another, on the parser's stack, *)
(* or in the token that waits.                                                 *)

(* id is at the place <<q, l>>: child l of node q, or, where q is 0, item l of *)
(* the stack, or, where both are 0, the token.                                 *)
Holds(ns, st, tk, q, l, id) ==
  \/ q \in DOMAIN ns /\ l \in DOMAIN ns[q].childs /\ ns[q].childs[l] = id
  \/ q = 0 /\ l \in DOMAIN st /\ st[l].node = id
  \/ q = 0 /\ l = 0 /\ tk = id

OnlyAt(ns, st, tk, id, p, k) ==
  \A q, l \in Nat : Holds(ns, st, tk, q, l, id) <=> q = p /\ l = k

Placed(ns, st, tk, id) == \E p, k \in Nat : OnlyAt(ns, st, tk, id, p, k)

\* Every node has one place
Once(ns, st, tk) == \A id \in DOMAIN ns : Placed(ns, st, tk, id)

\* What is at the places are nodes; the token and an item without a node hold 0
Linked(ns, st, tk) ==
  /\ DOMAIN ns \subseteq Nat \ {0}
  /\ \A p \in DOMAIN ns : /\ DOMAIN ns[p].childs \subseteq Nat \ {0}
                          /\ \A k \in DOMAIN ns[p].childs : ns[p].childs[k] \in DOMAIN ns
  /\ DOMAIN st \subseteq Nat \ {0}
  /\ \A k \in DOMAIN st : st[k].node \in DOMAIN ns \union {0}
  /\ tk \in DOMAIN ns \union {0}

\* What stands for no node holds none
Vacant(st) == \A k \in DOMAIN st : st[k].sym \notin HasNode => st[k].node = 0

\* Every node has one place
OnceInv ==
  /\ Once(nodes, stack, token.node)
  /\ Vacant(stack)
  /\ token.kind \notin HasNode => token.node = 0

\* The node `new` is made with the children cs
Adds(ns, ms, new, cs) ==
  /\ new \in Nat \ {0} /\ new \notin DOMAIN ns
  /\ DOMAIN ms = DOMAIN ns \union {new}
  /\ \A id \in DOMAIN ns : ms[id].childs = ns[id].childs
  /\ ms[new].childs = cs

(* The items above the h lowest of the n on the stack are the children cs,     *)
(* pos[j] being the j-th, and brackets and colons.                             *)
Takes(ns, st, h, n, cs, pos) ==
  /\ DOMAIN cs \subseteq Nat \ {0}
  /\ \A j \in DOMAIN cs : /\ pos[j] \in (h + 1)..n
                           /\ st[pos[j]].node = cs[j]
                           /\ cs[j] \in DOMAIN ns
  /\ \A i, j \in DOMAIN cs : pos[i] = pos[j] => i = j
  /\ \A k \in (h + 1)..n : SymIn(st, k) \notin HasNode \/ \E j \in DOMAIN cs : pos[j] = k

\* c is made the child n + 1 of node p
Extends(ns, ms, p, n, c) ==
  /\ DOMAIN ns[p].childs = 1..n
  /\ DOMAIN ms = DOMAIN ns
  /\ \A id \in DOMAIN ns \ {p} : ms[id].childs = ns[id].childs
  /\ DOMAIN ms[p].childs = 1..(n + 1)
  /\ \A k \in 1..n : ms[p].childs[k] = ns[p].childs[k]
  /\ ms[p].childs[n + 1] = c

\* A node whose places do not change keeps its one
LEMMA SamePlaces ==
  ASSUME NEW ns, NEW ms, NEW st, NEW ts, NEW tk, NEW uk, NEW id,
         Placed(ns, st, tk, id),
         \A q, l \in Nat : Holds(ms, ts, uk, q, l, id) <=> Holds(ns, st, tk, q, l, id)
  PROVE  Placed(ms, ts, uk, id)
<1>1. PICK p \in Nat, k \in Nat : OnlyAt(ns, st, tk, id, p, k)
  BY DEF Placed
<1>2. OnlyAt(ms, ts, uk, id, p, k)
  BY <1>1 DEF OnlyAt
<1> QED
  BY <1>2 DEF Placed

\* A node with one place is nowhere else
LEMMA NowhereElse ==
  ASSUME NEW ns, NEW st, NEW tk, NEW id, Placed(ns, st, tk, id),
         NEW p \in Nat, NEW k \in Nat, Holds(ns, st, tk, p, k, id)
  PROVE  OnlyAt(ns, st, tk, id, p, k)
<1>1. PICK q \in Nat, l \in Nat : OnlyAt(ns, st, tk, id, q, l)
  BY DEF Placed
<1>2. p = q /\ k = l
  BY <1>1 DEF OnlyAt
<1> QED
  BY <1>1, <1>2

\* A node that is moved to another place has that one
LEMMA Moved ==
  ASSUME NEW ns, NEW st, NEW tk, NEW id, NEW p \in Nat, NEW k \in Nat,
         \A q, l \in Nat : Holds(ns, st, tk, q, l, id) => q = p /\ l = k,
         Holds(ns, st, tk, p, k, id)
  PROVE  Placed(ns, st, tk, id)
<1>1. OnlyAt(ns, st, tk, id, p, k)
  BY DEF OnlyAt
<1> QED
  BY <1>1 DEF Placed

\* The scanner's rule puts the node it makes in the token
LEMMA LeafOnce ==
  ASSUME NEW ns, NEW ms, NEW st, NEW new, Linked(ns, st, 0), Adds(ns, ms, new, <<>>),
         Once(ns, st, 0)
  PROVE  Once(ms, st, new)
<1>1. ASSUME NEW id \in DOMAIN ns PROVE Placed(ms, st, new, id)
  <2>1. Placed(ns, st, 0, id)
    BY DEF Once
  <2>2. id # 0 /\ id # new
    BY DEF Linked, Adds
  <2>3. \A q, l \in Nat : Holds(ms, st, new, q, l, id) <=> Holds(ns, st, 0, q, l, id)
    BY <2>2 DEF Holds, Adds
  <2> QED
    BY <2>1, <2>3, SamePlaces
<1>2. Placed(ms, st, new, new)
  <2>1. Holds(ms, st, new, 0, 0, new)
    BY DEF Holds
  <2>2. ASSUME NEW q \in Nat, NEW l \in Nat, Holds(ms, st, new, q, l, new)
        PROVE  q = 0 /\ l = 0
    <3>1. ~ (l \in DOMAIN st /\ st[l].node = new)
      BY DEF Linked, Adds
    <3>2. ASSUME q \in DOMAIN ms, l \in DOMAIN ms[q].childs, ms[q].childs[l] = new
          PROVE  FALSE
      <4>1. CASE q \in DOMAIN ns
        BY <3>2, <4>1 DEF Linked, Adds
      <4>2. CASE q = new
        BY <3>2, <4>2 DEF Adds
      <4> QED
        BY <3>2, <4>1, <4>2 DEF Adds
    <3> QED
      BY <2>2, <3>1, <3>2 DEF Holds
  <2> QED
    BY <2>1, <2>2, Moved
<1> QED
  BY <1>1, <1>2 DEF Once, Adds

\* A shift takes the node from the token to the top of the stack
LEMMA ShiftOnce ==
  ASSUME NEW ns, NEW st, NEW ts, NEW h \in Nat, NEW sym, NEW tk,
         Linked(ns, st, tk), DOMAIN st = 1..h, DOMAIN ts = 1..(h + 1),
         Pushed(st, ts, h, sym, tk), Once(ns, st, tk)
  PROVE  Once(ns, ts, 0)
<1>0. /\ ts[h + 1].node = tk /\ \A k \in 1..h : ts[k] = st[k]
  BY DEF Pushed, Item
<1>1. ASSUME NEW id \in DOMAIN ns PROVE Placed(ns, ts, 0, id)
  <2>1. Placed(ns, st, tk, id) /\ id # 0
    BY DEF Once, Linked
  <2>2. CASE id # tk
    <3>1. \A q, l \in Nat : Holds(ns, ts, 0, q, l, id) <=> Holds(ns, st, tk, q, l, id)
      BY <1>0, <2>1, <2>2 DEF Holds
    <3> QED
      BY <2>1, <3>1, SamePlaces
  <2>3. CASE id = tk
    <3>1. Holds(ns, st, tk, 0, 0, id)
      BY <2>3 DEF Holds
    <3>2. OnlyAt(ns, st, tk, id, 0, 0)
      BY <2>1, <3>1, NowhereElse
    <3>3. Holds(ns, ts, 0, 0, h + 1, id)
      BY <1>0, <2>3 DEF Holds
    <3>4. ASSUME NEW q \in Nat, NEW l \in Nat, Holds(ns, ts, 0, q, l, id)
          PROVE  q = 0 /\ l = h + 1
      <4>1. ~ (q \in DOMAIN ns /\ l \in DOMAIN ns[q].childs /\ ns[q].childs[l] = id)
        BY <3>2 DEF OnlyAt, Holds, Linked
      <4>2. q = 0 /\ l \in 1..(h + 1) /\ ts[l].node = id
        BY <2>1, <3>4, <4>1 DEF Holds
      <4>3. l \notin 1..h
        BY <1>0, <3>2, <4>2 DEF OnlyAt, Holds
      <4> QED
        BY <4>2, <4>3
    <3>5. h + 1 \in Nat
      OBVIOUS
    <3> QED
      BY <3>3, <3>4, <3>5, Moved
  <2> QED
    BY <2>2, <2>3
<1> QED
  BY <1>1 DEF Once

\* A reduction makes a node of what it takes off the stack
LEMMA NewNodeOnce ==
  ASSUME NEW ns, NEW ms, NEW st, NEW ts, NEW h \in Nat, NEW n \in Nat, h <= n,
         NEW sym, NEW new, NEW cs, NEW tk,
         Linked(ns, st, tk), Adds(ns, ms, new, cs),
         DOMAIN st = 1..n, DOMAIN ts = 1..(h + 1), Pushed(st, ts, h, sym, new),
         NEW pos, Takes(ns, st, h, n, cs, pos), Vacant(st), Once(ns, st, tk)
  PROVE  Once(ms, ts, tk)
<1>3. /\ DOMAIN cs \subseteq Nat \ {0}
      /\ \A j \in DOMAIN cs : pos[j] \in (h + 1)..n /\ st[pos[j]].node = cs[j] /\ cs[j] \in DOMAIN ns
      /\ \A i, j \in DOMAIN cs : pos[i] = pos[j] => i = j
  BY DEF Takes
<1>4. \A k \in (h + 1)..n : st[k].node = 0 \/ \E j \in DOMAIN cs : pos[j] = k
  BY DEF Takes, Vacant, SymIn
<1>0. /\ ts[h + 1].node = new /\ \A k \in 1..h : ts[k] = st[k]
  BY DEF Pushed, Item
<1>1. ASSUME NEW id \in DOMAIN ns PROVE Placed(ms, ts, tk, id)
  <2>1. Placed(ns, st, tk, id) /\ id # 0 /\ id # new
    BY DEF Once, Linked, Adds
  <2>2. CASE \A j \in DOMAIN cs : cs[j] # id
    <3>1. \A k \in (h + 1)..n : st[k].node # id
      BY <1>3, <1>4, <2>1, <2>2
    <3>2. ASSUME NEW q \in Nat, NEW l \in Nat
          PROVE  Holds(ms, ts, tk, q, l, id) <=> Holds(ns, st, tk, q, l, id)
      <4>1. (l \in DOMAIN ts /\ ts[l].node = id) <=> (l \in DOMAIN st /\ st[l].node = id)
        BY <1>0, <2>1, <3>1
      <4>2. (q \in DOMAIN ms /\ l \in DOMAIN ms[q].childs /\ ms[q].childs[l] = id)
              <=> (q \in DOMAIN ns /\ l \in DOMAIN ns[q].childs /\ ns[q].childs[l] = id)
        BY <2>2 DEF Adds
      <4> QED
        BY <4>1, <4>2 DEF Holds
    <3> QED
      BY <2>1, <3>2, SamePlaces
  <2>3. CASE \E j \in DOMAIN cs : cs[j] = id
    <3>1. PICK j \in DOMAIN cs : cs[j] = id
      BY <2>3
    <3>2. pos[j] \in (h + 1)..n /\ pos[j] \in Nat /\ st[pos[j]].node = id /\ j \in Nat /\ new \in Nat
      BY <1>3, <3>1 DEF Adds
    <3>3. Holds(ns, st, tk, 0, pos[j], id)
      BY <3>2 DEF Holds
    <3>4. OnlyAt(ns, st, tk, id, 0, pos[j])
      BY <2>1, <3>2, <3>3, NowhereElse
    <3>5. Holds(ms, ts, tk, new, j, id)
      BY <3>1 DEF Holds, Adds
    <3>6. ASSUME NEW q \in Nat, NEW l \in Nat, Holds(ms, ts, tk, q, l, id)
          PROVE  q = new /\ l = j
      <4>1. ASSUME q \in DOMAIN ns, l \in DOMAIN ns[q].childs, ns[q].childs[l] = id PROVE FALSE
        <5>1. q = 0
          BY <3>4, <4>1 DEF OnlyAt, Holds
        <5> QED
          BY <4>1, <5>1 DEF Linked
      <4>2. ~ (l \in DOMAIN ts /\ ts[l].node = id)
        <5>1. CASE l = h + 1
          BY <1>0, <2>1, <5>1
        <5>2. CASE l \in 1..h
          <6>1. st[l].node = id => l = pos[j]
            BY <3>4, <5>2 DEF OnlyAt, Holds
          <6> QED
            BY <1>0, <3>2, <5>2, <6>1
        <5> QED
          BY <5>1, <5>2
      <4>3. ~ (q = 0 /\ l = 0 /\ tk = id)
        BY <3>2, <3>4 DEF OnlyAt, Holds
      <4>4. q \in DOMAIN ms /\ l \in DOMAIN ms[q].childs /\ ms[q].childs[l] = id
        BY <3>6, <4>2, <4>3 DEF Holds
      <4>5. q = new
        BY <4>1, <4>4 DEF Adds
      <4>6. l \in DOMAIN cs /\ cs[l] = id
        BY <4>4, <4>5 DEF Adds
      <4>7. pos[l] \in Nat /\ Holds(ns, st, tk, 0, pos[l], id)
        BY <1>3, <4>6 DEF Holds
      <4>8. pos[l] = pos[j]
        BY <3>4, <4>7 DEF OnlyAt
      <4> QED
        BY <1>3, <4>5, <4>6, <4>8
    <3>7. \A q, l \in Nat : Holds(ms, ts, tk, q, l, id) => q = new /\ l = j
      BY <3>6
    <3>8. new \in Nat /\ j \in Nat
      BY <3>2
    <3>9. OnlyAt(ms, ts, tk, id, new, j)
      BY <3>5, <3>7, Zenon DEF OnlyAt
    <3> QED
      BY <3>8, <3>9 DEF Placed
  <2> QED
    BY <2>2, <2>3
<1>2. Placed(ms, ts, tk, new)
  <2>1. Holds(ms, ts, tk, 0, h + 1, new) /\ h + 1 \in Nat
    BY <1>0 DEF Holds
  <2>2. ASSUME NEW q \in Nat, NEW l \in Nat, Holds(ms, ts, tk, q, l, new)
        PROVE  q = 0 /\ l = h + 1
    <3>1. ASSUME q \in DOMAIN ms, l \in DOMAIN ms[q].childs, ms[q].childs[l] = new
          PROVE  FALSE
      <4>1. CASE q \in DOMAIN ns
        BY <3>1, <4>1 DEF Linked, Adds
      <4>2. CASE q = new
        BY <1>3, <3>1, <4>2 DEF Adds
      <4> QED
        BY <3>1, <4>1, <4>2 DEF Adds
    <3>2. tk # new
      BY DEF Linked, Adds
    <3>3. q = 0 /\ l \in DOMAIN ts /\ ts[l].node = new
      BY <2>2, <3>1, <3>2 DEF Holds
    <3>4. l \notin 1..h
      <4>1. \A k \in 1..h : st[k].node # new
        BY DEF Linked, Adds
      <4> QED
        BY <1>0, <3>3, <4>1
    <3> QED
      BY <3>3, <3>4
  <2> QED
    BY <2>1, <2>2, Moved
<1> QED
  BY <1>1, <1>2 DEF Once, Adds

\* A child is added: its node goes from the top of the stack to the end of a list
LEMMA AppendOnce ==
  ASSUME NEW ns, NEW ms, NEW st, NEW ts, NEW h \in Nat, NEW tk,
         Linked(ns, st, tk), Once(ns, st, tk),
         DOMAIN st = 1..(h + 1), DOMAIN ts = 1..h, \A k \in 1..h : ts[k].node = st[k].node,
         NEW p \in DOMAIN ns, NEW n \in Nat, Extends(ns, ms, p, n, st[h + 1].node)
  PROVE  Once(ms, ts, tk)
<1>3. /\ DOMAIN ns[p].childs = 1..n
      /\ DOMAIN ms = DOMAIN ns
      /\ \A id \in DOMAIN ns \ {p} : ms[id].childs = ns[id].childs
      /\ DOMAIN ms[p].childs = 1..(n + 1)
      /\ \A k \in 1..n : ms[p].childs[k] = ns[p].childs[k]
      /\ ms[p].childs[n + 1] = st[h + 1].node
  BY DEF Extends
<1>1. ASSUME NEW id \in DOMAIN ns, id # st[h + 1].node PROVE Placed(ms, ts, tk, id)
  <2>1. Placed(ns, st, tk, id)
    BY DEF Once
  <2>2. ASSUME NEW q \in Nat, NEW l \in Nat
        PROVE  Holds(ms, ts, tk, q, l, id) <=> Holds(ns, st, tk, q, l, id)
    <3>1. (l \in DOMAIN ts /\ ts[l].node = id) <=> (l \in DOMAIN st /\ st[l].node = id)
      BY <1>1
    <3>2. (q \in DOMAIN ms /\ l \in DOMAIN ms[q].childs /\ ms[q].childs[l] = id)
            <=> (q \in DOMAIN ns /\ l \in DOMAIN ns[q].childs /\ ns[q].childs[l] = id)
      <4>1. CASE q # p
        BY <1>3, <4>1
      <4>2. CASE q = p
        BY <1>1, <1>3, <4>2
      <4> QED
        BY <4>1, <4>2
    <3> QED
      BY <3>1, <3>2 DEF Holds
  <2> QED
    BY <2>1, <2>2, SamePlaces
<1>2. ASSUME NEW id \in DOMAIN ns, id = st[h + 1].node PROVE Placed(ms, ts, tk, id)
  <2>1. Placed(ns, st, tk, id)
    BY DEF Once
  <2>2. Holds(ns, st, tk, 0, h + 1, id) /\ h + 1 \in Nat
    BY <1>2 DEF Holds
  <2>3. OnlyAt(ns, st, tk, id, 0, h + 1)
    BY <2>1, <2>2, NowhereElse
  <2>4. Holds(ms, ts, tk, p, n + 1, id) /\ p \in Nat /\ n + 1 \in Nat
    BY <1>2, <1>3 DEF Holds, Linked
  <2>5. ASSUME NEW q \in Nat, NEW l \in Nat, Holds(ms, ts, tk, q, l, id)
        PROVE  q = p /\ l = n + 1
    <3>1. ~ (l \in DOMAIN ts /\ ts[l].node = id)
      <4>1. ASSUME l \in 1..h, st[l].node = id PROVE FALSE
        <5>1. Holds(ns, st, tk, 0, l, id)
          BY <4>1 DEF Holds
        <5>2. l = h + 1
          BY <2>3, <5>1 DEF OnlyAt
        <5> QED
          BY <4>1, <5>2
      <4> QED
        BY <4>1
    <3>2. ~ (q = 0 /\ l = 0 /\ tk = id)
      <4>1. ASSUME q = 0, l = 0, tk = id PROVE FALSE
        <5>1. Holds(ns, st, tk, 0, 0, id)
          BY <4>1 DEF Holds
        <5>2. 0 = h + 1
          BY <2>3, <5>1 DEF OnlyAt
        <5> QED
          BY <5>2
      <4> QED
        BY <4>1
    <3>3. q \in DOMAIN ms /\ l \in DOMAIN ms[q].childs /\ ms[q].childs[l] = id
      BY <2>5, <3>1, <3>2 DEF Holds
    <3>4. ASSUME l \in DOMAIN ns[q].childs, ns[q].childs[l] = id PROVE FALSE
      <4>1. Holds(ns, st, tk, q, l, id)
        BY <1>3, <3>3, <3>4 DEF Holds
      <4>2. q = 0
        BY <2>3, <4>1 DEF OnlyAt
      <4> QED
        BY <1>3, <3>3, <4>2 DEF Linked
    <3>5. q = p
      BY <1>3, <3>3, <3>4
    <3>6. l \in 1..(n + 1) /\ l \notin 1..n
      BY <1>3, <3>3, <3>4, <3>5
    <3> QED
      BY <3>5, <3>6
  <2>6. OnlyAt(ms, ts, tk, id, p, n + 1)
    BY <2>4, <2>5, Zenon DEF OnlyAt
  <2> QED
    BY <2>4, <2>6 DEF Placed
<1> QED
  BY <1>1, <1>2, <1>3 DEF Once

\* The tree, the stack and the token hold nodes
LEMMA LinkedNow ==
  ASSUME ParserInv
  PROVE  Linked(nodes, stack, token.node)
<1>1. nodes \in Seq(NodeRecord) /\ DOMAIN nodes = 1..Len(nodes) /\ Len(nodes) \in Nat
  BY DEF ParserInv, Tree
<1>2. ASSUME NEW p \in DOMAIN nodes
      PROVE  /\ DOMAIN nodes[p].childs \subseteq Nat \ {0}
             /\ \A k \in DOMAIN nodes[p].childs : nodes[p].childs[k] \in DOMAIN nodes
  <2>1. nodes[p] \in NodeRecord
    BY <1>1
  <2>2. nodes[p].childs \in Seq(Nat)
    BY <2>1 DEF NodeRecord
  <2>3. DOMAIN nodes[p].childs \subseteq Nat \ {0}
    BY <2>2
  <2> QED
    BY <2>3 DEF ParserInv, Tree
<1>3. stack \in Seq(StackItem)
  BY DEF ParserInv, StackInv
<1>4. DOMAIN stack \subseteq Nat \ {0}
  BY <1>3
<1>5. \A k \in DOMAIN stack : stack[k].node \in DOMAIN nodes \union {0}
  <2> TAKE k \in DOMAIN stack
  <2>1. stack[k] \in StackItem
    BY <1>3
  <2> QED
    BY <2>1 DEF StackItem, NodeIds
<1>6. token.node \in DOMAIN nodes \union {0}
  BY DEF ParserInv, TokenInv, TokenRecord, NodeIds
<1>7. DOMAIN nodes \subseteq Nat \ {0}
  BY <1>1
<1> QED
  BY <1>2, <1>4, <1>5, <1>6, <1>7 DEF Linked

\* ast_add_node
LEMMA AppendAdds ==
  ASSUME NEW ns, Tree(ns), NEW n
  PROVE  Adds(ns, Append(ns, n), Len(ns) + 1, n.childs)
<1> DEFINE ms == Append(ns, n)
<1>1. ns \in Seq(NodeRecord \union {n}) /\ n \in NodeRecord \union {n} /\ Len(ns) \in Nat
  BY DEF Tree
<1>2. /\ ms \in Seq(NodeRecord \union {n}) /\ Len(ms) = Len(ns) + 1
      /\ \A i \in 1..Len(ns) : ms[i] = ns[i]
      /\ ms[Len(ns) + 1] = n
  BY <1>1, AppendProperties
<1>3. DOMAIN ns = 1..Len(ns) /\ DOMAIN ms = 1..(Len(ns) + 1)
  BY <1>1, <1>2
<1>4. DOMAIN ms = DOMAIN ns \union {Len(ns) + 1} /\ Len(ns) + 1 \notin DOMAIN ns
  BY <1>1, <1>3
<1> HIDE DEF ms
<1>5. Adds(ns, ms, Len(ns) + 1, n.childs)
  BY <1>1, <1>2, <1>3, <1>4 DEF Adds
<1> QED
  BY <1>5 DEF ms

\* The rest of a rule that makes a node
LEMMA ReturnNodeOnce ==
  ASSUME ParserInv, OnceInv, Scanning, stack' = stack,
         NEW type, NEW text, NEW n, ReturnNode(type, text, n), type \in HasNode
  PROVE  OnceInv'
<1> DEFINE rec == [type |-> type, text |-> text, childs |-> <<>>]
           new == Len(nodes) + 1
<1>1. token.node = 0 /\ Tree(nodes)
  BY DEF Scanning, NoToken, ParserInv
<1>2. nodes' = Append(nodes, rec) /\ token' = [kind |-> type, node |-> new] /\ rec.childs = <<>>
  BY DEF ReturnNode, NewNode
<1> HIDE DEF rec
<1>3. Adds(nodes, nodes', new, <<>>)
  BY <1>1, <1>2, AppendAdds
<1>4. Linked(nodes, stack, 0) /\ Once(nodes, stack, 0)
  BY <1>1, LinkedNow DEF OnceInv
<1> HIDE DEF new
<1>5. Once(nodes', stack, new)
  BY <1>3, <1>4, LeafOnce
<1>6. token'.node = new /\ token'.kind = type
  BY <1>2
<1> QED
  BY <1>5, <1>6 DEF OnceInv

\* A token without a node, or none
LEMMA PunctuationOnce ==
  ASSUME OnceInv, Scanning, stack' = stack, nodes' = nodes, token'.node = 0
  PROVE  OnceInv'
<1>1. token.node = 0
  BY DEF Scanning, NoToken
<1> QED
  BY <1>1 DEF OnceInv

\* Every rule of the scanner puts the node it makes in its token
LEMMA LexOnce ==
  ASSUME ParserInv, OnceInv, Lex, stack' = stack
  PROVE  OnceInv'
<1>1. Scanning
  BY DEF Lex, SkipBlanks, InitialText, OpenBlock, CloseBlock, Colon, Symbol, NameEnds,
         ArgRef, Literal, TextChar, InContent, EndOfSource
<1>2. token.node = 0
  BY <1>1 DEF Scanning, NoToken
<1>3. {"TEXT", "LITERAL", "SYMBOL", "ARG_REF_ALL_ARGS"} \subseteq HasNode
  BY DEF HasNode, Leaves
<1>4. CASE SkipBlanks \/ OpenBlock \/ CloseBlock \/ Colon \/ NameEnds \/ EndOfSource
  <2>1. nodes' = nodes /\ token'.node = 0
    BY <1>2, <1>4 DEF SkipBlanks, OpenBlock, CloseBlock, Colon, NameEnds, EndOfSource, Punctuation
  <2> QED
    BY <1>1, <2>1, PunctuationOnce
<1>5. CASE InitialText
  <2> DEFINE n == RunLength(source, NotBracket(source))
             text == Take(n)
  <2>1. ReturnNode("TEXT", text, n)
    BY <1>5 DEF InitialText
  <2> HIDE DEF n, text
  <2> QED
    BY <1>1, <1>3, <2>1, ReturnNodeOnce
<1>6. CASE Symbol
  <2> DEFINE n == RunLength(source, NotBracket(source) \ (Blanks \union {":"}))
             text == Take(n)
  <2>1. ReturnNode("SYMBOL", text, n)
    BY <1>6 DEF Symbol
  <2> HIDE DEF n, text
  <2> QED
    BY <1>1, <1>3, <2>1, ReturnNodeOnce
<1>7. CASE ArgRef
  <2>1. ReturnNode("ARG_REF_ALL_ARGS", NoText, 2)
    BY <1>7 DEF ArgRef
  <2> QED
    BY <1>1, <1>3, <2>1, ReturnNodeOnce
<1>8. CASE Literal
  <2>1. CASE Len(source) = 2
    <3>1. nodes' = nodes /\ token' = token
      BY <1>8, <2>1 DEF Literal
    <3> QED
      BY <1>1, <1>2, <3>1, PunctuationOnce
  <2>2. CASE Len(source) # 2 /\ LiteralEnds # {}
    <3> DEFINE e == Min(LiteralEnds)
               text == SubSeq(source, 3, e - 1)
               n == e + 1
    <3>1. ReturnNode("LITERAL", text, n)
      BY <1>8, <2>2 DEF Literal
    <3> HIDE DEF text, n
    <3> QED
      BY <1>1, <1>3, <3>1, ReturnNodeOnce
  <2>3. CASE Len(source) # 2 /\ LiteralEnds = {}
    <3> DEFINE text == Drop(2)
               n == Len(source)
    <3>1. ReturnNode("LITERAL", text, n)
      BY <1>8, <2>3 DEF Literal
    <3> HIDE DEF text, n
    <3> QED
      BY <1>1, <1>3, <3>1, ReturnNodeOnce
  <2> QED
    BY <2>1, <2>2, <2>3
<1>9. CASE TextChar
  <2> DEFINE n == IF First(source) = "\\" /\ Len(source) > 1 THEN 2 ELSE 1
             text == Append(textBuffer, source[n])
  <2>1. CASE TextEnds(Drop(n))
    <3>1. ReturnNode("TEXT", text, n)
      BY <1>9, <2>1 DEF TextChar
    <3> HIDE DEF n, text
    <3> QED
      BY <1>1, <1>3, <3>1, ReturnNodeOnce
  <2>2. CASE ~ TextEnds(Drop(n))
    <3>1. nodes' = nodes /\ token' = token
      BY <1>9, <2>2 DEF TextChar
    <3> QED
      BY <1>1, <1>2, <3>1, PunctuationOnce
  <2> QED
    BY <2>1, <2>2
<1> QED
  BY <1>4, <1>5, <1>6, <1>7, <1>8, <1>9 DEF Lex

\* What stands for no node holds none, above a push too
LEMMA PushEmpty ==
  ASSUME NEW st, NEW ts, NEW h \in Nat, NEW sym, NEW node, Pushed(st, ts, h, sym, node),
         DOMAIN ts = 1..(h + 1), 1..h \subseteq DOMAIN st,
         sym \notin HasNode => node = 0, Vacant(st)
  PROVE  Vacant(ts)
<1> SUFFICES ASSUME NEW k \in DOMAIN ts, ts[k].sym \notin HasNode PROVE ts[k].node = 0
  BY DEF Vacant
<1>1. CASE k = h + 1
  BY <1>1 DEF Pushed, Item
<1>2. CASE k \in 1..h
  BY <1>2 DEF Pushed, Vacant
<1> QED
  BY <1>1, <1>2

\* A shift
LEMMA StepShiftOnce ==
  ASSUME ParserInv, OnceInv, Shift
  PROVE  OnceInv'
<1> DEFINE kind == token.kind
           node == token.node
           h == Height
<1>1. Height \in Nat /\ Height = Len(stack) /\ stack \in Seq(StackItem) /\ StackInv
  BY DEF ParserInv, StackInv, Height
<1>2. stack' = Append(stack, Item(kind, node)) /\ token' = NoToken /\ nodes' = nodes
  BY DEF Shift
<1>3. Pushed(stack, stack', h, kind, node)
  <2>1. SubSeq(stack, 1, Len(stack)) = stack
    BY <1>1, SubSeqFull
  <2>2. stack' = Reduced(0, kind, node) /\ 0 \in 0..Height /\ Height - 0 = Height
    BY <1>1, <1>2, <2>1 DEF Reduced
  <2> QED
    BY <1>1, <2>2, ReducedPushes
<1>4. DOMAIN stack = 1..h /\ DOMAIN stack' = 1..(h + 1)
  <2>1. DOMAIN stack = 1..h
    BY <1>1
  <2>2. StackInv'
    BY ShiftInv DEF ParserInv
  <2>3. DOMAIN stack' = 1..Len(stack')
    BY <2>2 DEF StackInv
  <2> QED
    BY <1>3, <2>1, <2>3 DEF Pushed
<1>5. Linked(nodes, stack, node) /\ Once(nodes, stack, node)
  BY LinkedNow DEF OnceInv
<1>6. kind \notin HasNode => node = 0
  BY DEF OnceInv
<1>7. h \in Nat /\ 1..h \subseteq DOMAIN stack
  BY <1>1, <1>4
<1>8. Vacant(stack)
  BY DEF OnceInv
<1> HIDE DEF kind, node, h
<1>9. Once(nodes, stack', 0)
  BY <1>3, <1>4, <1>5, <1>7, ShiftOnce
<1>10. Vacant(stack')
  BY <1>3, <1>4, <1>6, <1>7, <1>8, PushEmpty
<1>11. token'.node = 0
  BY <1>2 DEF NoToken
<1> QED
  BY <1>2, <1>9, <1>10, <1>11 DEF OnceInv

\* A reduction to a new node over the nodes it takes off the stack
LEMMA ReductionOnce ==
  ASSUME ParserInv, OnceInv, Reduce, ParserInv',
         NEW n, nodes' = Append(nodes, n),
         NEW m \in 0..Height, NEW sym \in Nonterminals, stack' = Reduced(m, sym, Len(nodes) + 1),
         NEW pos, Takes(nodes, stack, Height - m, Height, n.childs, pos)
  PROVE  OnceInv'
<1> DEFINE h == Height - m
           top == Height
           new == Len(nodes) + 1
           tk == token.node
           cs == n.childs
<1>1. Height \in Nat /\ Height = Len(stack) /\ StackInv /\ stack \in Seq(StackItem) /\ Tree(nodes)
  BY DEF ParserInv, StackInv, Height
<1>2. /\ h \in Nat /\ top \in Nat /\ h <= top
      /\ DOMAIN stack = 1..top /\ 1..h \subseteq DOMAIN stack
  BY <1>1
<1>3. Pushed(stack, stack', h, sym, new)
  BY <1>1, ReducedPushes
<1>4. DOMAIN stack' = 1..(h + 1)
  <2>1. DOMAIN stack' = 1..Len(stack')
    BY DEF ParserInv, StackInv
  <2> QED
    BY <1>3, <2>1 DEF Pushed
<1>5. Linked(nodes, stack, tk) /\ Once(nodes, stack, tk) /\ Vacant(stack)
  BY LinkedNow DEF OnceInv
<1>6. Adds(nodes, nodes', new, cs)
  BY <1>1, AppendAdds
<1>7. Takes(nodes, stack, h, top, cs, pos)
  OBVIOUS
<1>8. sym \in HasNode /\ token' = token
  BY DEF HasNode, Reduce
<1> HIDE DEF h, tk, cs, top, new
<1>9. Once(nodes', stack', tk)
  BY <1>2, <1>3, <1>4, <1>5, <1>6, <1>7, NewNodeOnce
<1>10. Vacant(stack')
  <2>1. sym \notin HasNode => new = 0
    BY <1>8
  <2> QED
    BY <1>2, <1>3, <1>4, <1>5, <2>1, PushEmpty
<1> QED
  BY <1>8, <1>9, <1>10 DEF OnceInv, tk

\* program: %empty
LEMMA EmptyProgramOnce ==
  ASSUME ParserInv, OnceInv, ReduceEmptyProgram
  PROVE  OnceInv'
<1> DEFINE n == [type |-> "PROGRAM", text |-> NoText, childs |-> <<>>]
           new == Len(nodes) + 1
<1>1. Reduce /\ stack = <<>> /\ stack' = <<Item("program", new)>> /\ nodes' = Append(nodes, n)
  BY DEF ReduceEmptyProgram, NewNode
<1>2. Height = 0
  BY <1>1 DEF Height
<1>3. stack' = Reduced(0, "program", new)
  BY <1>1, <1>2, SubSeqEmpty DEF Reduced
<1>4. n.childs = <<>>
  OBVIOUS
<1>5. ParserInv'
  BY EmptyProgramInv
<1>6. "program" \in Nonterminals /\ 0 \in 0..Height /\ Height - 0 = 0
  BY <1>2 DEF Nonterminals
<1> DEFINE pos == <<>>
<1>7. DOMAIN n.childs = {} /\ (0 + 1)..Height = {}
  BY <1>2, <1>4
<1> HIDE DEF pos
<1>8. Takes(nodes, stack, Height - 0, Height, n.childs, pos)
  BY <1>2, <1>7 DEF Takes
<1> HIDE DEF n
<1> QED
  BY <1>1, <1>3, <1>5, <1>6, <1>8, ReductionOnce

\* A reduction of the top to a new node over it
LEMMA WrapOnce ==
  ASSUME ParserInv, OnceInv, Reduce, ParserInv', TopSym \in Nonterminals,
         NEW type \in NodeTypes, NEW sym \in Nonterminals,
         nodes' = AddChild(NewNode(nodes, type, NoText), Len(nodes) + 1, Node(Height)),
         stack' = Reduced(1, sym, Len(nodes) + 1)
  PROVE  OnceInv'
<1>1. Height \in Nat /\ Height = Len(stack) /\ StackInv /\ Tree(nodes)
  BY DEF ParserInv, StackInv, Height
<1>2. Stands(nodes, TopSym, Node(Height)) /\ Height \in 1..Height
  BY <1>1, SymFacts DEF TopSym, Nonterminals
<1> DEFINE c == Node(Height)
           n == [type |-> type, text |-> NoText, childs |-> <<c>>]
           new == Len(nodes) + 1
           pos == <<Height>>
<1>3. c \in DOMAIN nodes /\ c \in Nat
  BY <1>1, <1>2 DEF Stands, HasNode, Tree
<1>4. nodes' = Append(nodes, n)
  BY <1>1, <1>3, NewWithChild
<1>5. DOMAIN n.childs = {1} /\ n.childs[1] = c /\ pos[1] = Height
  OBVIOUS
<1>6. 1 \in 0..Height /\ (Height - 1 + 1)..Height = {Height}
  BY <1>1, <1>2
<1> HIDE DEF n, pos
<1>7. Takes(nodes, stack, Height - 1, Height, n.childs, pos)
  BY <1>3, <1>5, <1>6 DEF Takes, Node, c
<1> QED
  BY <1>4, <1>6, <1>7, ReductionOnce

\* A block is made of its name and its list
LEMMA BlockOfTwoOnce ==
  ASSUME ParserInv, OnceInv, Reduce, ParserInv',
         NEW type, NEW m \in 3..Height, NEW i \in (Height - m + 1)..Height, Sym(Height - 1) = "args",
         i < Height - 1, Sym(i) = "symbol",
         \A k \in (Height - m + 1)..Height : k \in {i, Height - 1} \/ Sym(k) \notin HasNode,
         nodes' = NewBlock(type, <<Node(i), Node(Height - 1)>>),
         stack' = Reduced(m, "block", Len(nodes) + 1)
  PROVE  OnceInv'
<1>1. Height \in Nat
  BY DEF ParserInv, StackInv, Height
<1> DEFINE l == Height - 1
           n == [type |-> type, text |-> NoText, childs |-> <<Node(i), Node(l)>>]
           pos == <<i, l>>
<1>2. nodes' = Append(nodes, n)
  BY DEF NewBlock
<1>3. i \in Int /\ l \in Int /\ l \in (Height - m + 1)..Height /\ m \in 0..Height /\ i # l
  BY <1>1
<1>4. Node(i) \in DOMAIN nodes /\ Node(l) \in DOMAIN nodes
  BY <1>3, NamesAndLists
<1>5. DOMAIN n.childs = {1, 2} /\ n.childs[1] = Node(i) /\ n.childs[2] = Node(l) /\ pos[1] = i /\ pos[2] = l
  OBVIOUS
<1>6. \A k \in (Height - m + 1)..Height : k \in {i, l} \/ Sym(k) \notin HasNode
  OBVIOUS
<1> HIDE DEF n, pos, l
<1>7. Takes(nodes, stack, Height - m, Height, n.childs, pos)
  BY <1>3, <1>4, <1>5, <1>6, SymIsSymIn DEF Takes, Node
<1>11. "block" \in Nonterminals
  BY DEF Nonterminals
<1> QED
  BY <1>2, <1>3, <1>7, <1>11, ReductionOnce

\* block: '[' symbol ':' args ']'
LEMMA AssignmentOnce ==
  ASSUME ParserInv, OnceInv, ReduceAssignment
  PROVE  OnceInv'
<1>1. Height \in Nat /\ ParserInv'
  BY AssignmentInv DEF ParserInv, StackInv, Height
<1>2. /\ Reduce /\ Sym(Height) = "]" /\ Sym(Height - 2) = ":"
      /\ nodes' = NewBlock("ASSIGNMENT", <<Node(Height - 3), Node(Height - 1)>>)
      /\ stack' = Reduced(5, "block", Len(nodes) + 1)
  BY DEF ReduceAssignment, TopSym
<1>3. Sym(Height - 3) = "symbol"
  <2>1. Height - 2 \in Int /\ (Height - 2) - 1 = Height - 3
    BY <1>1
  <2> QED
    BY <1>2, <2>1, NamesAndLists
<1>4. Sym(Height - 1) = "args"
  <2>1. Sym(Height - 1) \in {"symbol", "args"}
    <3>1. Height \in Int /\ Sym(Height) = "]"
      BY <1>1, <1>2
    <3> QED
      BY <3>1, NamesAndLists
  <2>2. Height - 1 \in Int /\ (Height - 1) - 1 = Height - 2
    BY <1>1
  <2> QED
    BY <1>2, <2>1, <2>2, NamesAndLists
<1>5. Sym(Height - 4) = "[" /\ Height - 4 \in 1..Height
  <2>1. Height - 3 \in Int /\ Height - 4 \in Int /\ (Height - 3) - 1 = Height - 4
    BY <1>1
  <2>2. Sym(Height - 4) = "["
    BY <1>3, <2>1, NamesAndLists
  <2> QED
    BY <2>1, <2>2, NamesAndLists
<1>6. /\ 5 \in 3..Height /\ Height - 3 \in (Height - 5 + 1)..Height /\ Height - 3 < Height - 1
      /\ (Height - 5 + 1)..Height = {Height - 4, Height - 3, Height - 2, Height - 1, Height}
  BY <1>1, <1>5
<1>7. \A k \in (Height - 5 + 1)..Height : k \in {Height - 3, Height - 1} \/ Sym(k) \notin HasNode
  BY <1>2, <1>5, <1>6 DEF HasNode, Nonterminals, Leaves
<1> QED
  BY <1>1, <1>2, <1>3, <1>4, <1>6, <1>7, BlockOfTwoOnce

\* block: '[' symbol args ']'
LEMMA CallWithArgsOnce ==
  ASSUME ParserInv, OnceInv, ReduceCallWithArgs
  PROVE  OnceInv'
<1>1. Height \in Nat /\ ParserInv'
  BY CallWithArgsInv DEF ParserInv, StackInv, Height
<1>2. /\ Reduce /\ Sym(Height) = "]" /\ Sym(Height - 1) = "args" /\ Sym(Height - 2) = "symbol"
      /\ nodes' = NewBlock("CALL", <<Node(Height - 2), Node(Height - 1)>>)
      /\ stack' = Reduced(4, "block", Len(nodes) + 1)
  BY DEF ReduceCallWithArgs, TopSym
<1>3. Sym(Height - 3) = "[" /\ Height - 3 \in 1..Height
  <2>1. Height - 2 \in Int /\ Height - 3 \in Int /\ (Height - 2) - 1 = Height - 3
    BY <1>1
  <2>2. Sym(Height - 3) = "["
    BY <1>2, <2>1, NamesAndLists
  <2> QED
    BY <2>1, <2>2, NamesAndLists
<1>4. /\ 4 \in 3..Height /\ Height - 2 \in (Height - 4 + 1)..Height /\ Height - 2 < Height - 1
      /\ (Height - 4 + 1)..Height = {Height - 3, Height - 2, Height - 1, Height}
  BY <1>1, <1>3
<1>5. \A k \in (Height - 4 + 1)..Height : k \in {Height - 2, Height - 1} \/ Sym(k) \notin HasNode
  BY <1>2, <1>3, <1>4 DEF HasNode, Nonterminals, Leaves
<1> QED
  BY <1>1, <1>2, <1>4, <1>5, BlockOfTwoOnce

\* block: '[' symbol ']'
LEMMA CallOnce ==
  ASSUME ParserInv, OnceInv, ReduceCall
  PROVE  OnceInv'
<1>1. Height \in Nat /\ ParserInv'
  BY CallInv DEF ParserInv, StackInv, Height
<1>2. /\ Reduce /\ Sym(Height) = "]" /\ Sym(Height - 1) = "symbol"
      /\ nodes' = NewBlock("CALL", <<Node(Height - 1)>>)
      /\ stack' = Reduced(3, "block", Len(nodes) + 1)
  BY DEF ReduceCall, TopSym
<1> DEFINE l == Height - 1
           n == [type |-> "CALL", text |-> NoText, childs |-> <<Node(l)>>]
           pos == <<l>>
<1>3. Sym(Height - 2) = "[" /\ Height - 2 \in 1..Height /\ Node(l) \in DOMAIN nodes
  <2>1. l \in Int /\ Height - 2 \in Int /\ l - 1 = Height - 2
    BY <1>1
  <2>2. Sym(Height - 2) = "[" /\ Node(l) \in DOMAIN nodes
    BY <1>2, <2>1, NamesAndLists
  <2> QED
    BY <2>1, <2>2, NamesAndLists
<1>4. nodes' = Append(nodes, n)
  BY <1>2 DEF NewBlock
<1>5. /\ 3 \in 0..Height /\ l \in (Height - 3 + 1)..Height
      /\ (Height - 3 + 1)..Height = {Height - 2, l, Height}
  BY <1>1, <1>3
<1>6. \A k \in (Height - 3 + 1)..Height : k = l \/ Sym(k) \notin HasNode
  BY <1>2, <1>3, <1>5 DEF HasNode, Nonterminals, Leaves
<1>7. DOMAIN n.childs = {1} /\ n.childs[1] = Node(l) /\ pos[1] = l
  OBVIOUS
<1> HIDE DEF n, pos, l
<1>8. Takes(nodes, stack, Height - 3, Height, n.childs, pos)
  BY <1>3, <1>5, <1>6, <1>7, SymIsSymIn DEF Takes, Node
<1>10. "block" \in Nonterminals
  BY DEF Nonterminals
<1> QED
  BY <1>1, <1>2, <1>4, <1>5, <1>8, <1>10, ReductionOnce

\* args: args_child, and symbol: block
LEMMA WrapStepsOnce ==
  ASSUME ParserInv, OnceInv, ReduceFirstArg \/ ReduceComputedName
  PROVE  OnceInv'
<1>1. CASE ReduceFirstArg
  <2>1. /\ TopSym = "args_child" /\ Reduce
        /\ nodes' = AddChild(NewNode(nodes, "ARGS", NoText), Len(nodes) + 1, Node(Height))
        /\ stack' = Reduced(1, "args", Len(nodes) + 1)
    BY <1>1 DEF ReduceFirstArg
  <2>2. {"args_child", "args"} \subseteq Nonterminals /\ "ARGS" \in NodeTypes /\ ParserInv'
    BY <1>1, FirstArgInv DEF Nonterminals, NodeTypes
  <2> QED
    BY <2>1, <2>2, WrapOnce
<1>2. CASE ReduceComputedName
  <2>1. /\ TopSym = "block" /\ Reduce
        /\ nodes' = AddChild(NewNode(nodes, "SYMBOL", NoText), Len(nodes) + 1, Node(Height))
        /\ stack' = Reduced(1, "symbol", Len(nodes) + 1)
    BY <1>2 DEF ReduceComputedName
  <2>2. {"block", "symbol"} \subseteq Nonterminals /\ "SYMBOL" \in NodeTypes /\ ParserInv'
    BY <1>2, ComputedNameInv DEF Nonterminals, NodeTypes
  <2> QED
    BY <2>1, <2>2, WrapOnce
<1> QED
  BY <1>1, <1>2

\* The places of a node in a tree whose texts change and whose lists do not
LEMMA SameLists ==
  ASSUME NEW ns, NEW ms, NEW st, NEW ts, NEW tk, Once(ns, st, tk),
         DOMAIN ms = DOMAIN ns, \A id \in DOMAIN ns : ms[id].childs = ns[id].childs,
         DOMAIN ts = DOMAIN st, \A k \in DOMAIN st : ts[k].node = st[k].node
  PROVE  Once(ms, ts, tk)
<1>1. ASSUME NEW id \in DOMAIN ns PROVE Placed(ms, ts, tk, id)
  <2>1. \A q, l \in Nat : Holds(ms, ts, tk, q, l, id) <=> Holds(ns, st, tk, q, l, id)
    BY DEF Holds
  <2>2. Placed(ns, st, tk, id)
    BY DEF Once
  <2> QED
    BY <2>1, <2>2, SamePlaces
<1> QED
  BY <1>1 DEF Once

\* A reduction that keeps the node
LEMMA RenameOnce ==
  ASSUME ParserInv, OnceInv, ParserInv', Reduce, TopSym \in HasNode,
         NEW sym \in Nonterminals, stack' = Reduced(1, sym, Node(Height)),
         DOMAIN nodes' = DOMAIN nodes, \A id \in DOMAIN nodes : nodes'[id].childs = nodes[id].childs
  PROVE  OnceInv'
<1> DEFINE h == Height - 1
           node == Node(Height)
           tk == token.node
<1>1. Height \in Nat /\ StackInv /\ Height = Len(stack) /\ stack \in Seq(StackItem)
  BY DEF ParserInv, StackInv, Height
<1>2. 1 \in 0..Height /\ h \in Nat /\ h + 1 = Height /\ DOMAIN stack = 1..(h + 1)
  <2>1. Height # 0
    BY <1>1 DEF TopSym, Sym, HasNode, Nonterminals, Leaves
  <2> QED
    BY <1>1, <2>1
<1>3. Pushed(stack, stack', h, sym, node)
  BY <1>1, <1>2, ReducedPushes
<1>4. DOMAIN stack' = 1..(h + 1)
  <2>1. DOMAIN stack' = 1..Len(stack')
    BY DEF ParserInv, StackInv
  <2> QED
    BY <1>3, <2>1 DEF Pushed
<1>5. stack[h + 1].node = node /\ sym \in HasNode
  BY <1>2 DEF Node, HasNode
<1> HIDE DEF h, node
<1>6. \A k \in DOMAIN stack : stack'[k].node = stack[k].node
  <2> TAKE k \in DOMAIN stack
  <2>1. CASE k = h + 1
    BY <1>3, <1>5, <2>1 DEF Pushed, Item
  <2>2. CASE k \in 1..h
    BY <1>3, <2>2 DEF Pushed
  <2> QED
    BY <1>2, <2>1, <2>2
<1>7. Once(nodes, stack, tk) /\ Vacant(stack) /\ token' = token
  BY DEF OnceInv, Reduce
<1> HIDE DEF tk
<1>8. Once(nodes', stack', tk)
  BY <1>2, <1>4, <1>6, <1>7, SameLists
<1>9. Vacant(stack')
  <2>1. 1..h \subseteq DOMAIN stack /\ (sym \notin HasNode => node = 0)
    BY <1>2, <1>5
  <2> QED
    BY <1>2, <1>3, <1>4, <1>7, <2>1, PushEmpty
<1> QED
  BY <1>7, <1>8, <1>9 DEF OnceInv, tk

\* args_child: TEXT | LITERAL | ARG_REF_ALL_ARGS | block, and symbol: SYMBOL
LEMMA RenameStepsOnce ==
  ASSUME ParserInv, OnceInv, ReduceArgsChild \/ ReduceName
  PROVE  OnceInv'
<1>1. CASE ReduceArgsChild
  <2>1. /\ TopSym \in HasNode /\ Reduce /\ nodes' = nodes
        /\ stack' = Reduced(1, "args_child", Node(Height)) /\ ParserInv'
    BY <1>1, ArgsChildInv DEF ReduceArgsChild, HasNode, Nonterminals
  <2>2. "args_child" \in Nonterminals
    BY DEF Nonterminals
  <2> QED
    BY <2>1, <2>2, RenameOnce
<1>2. CASE ReduceName
  <2> DEFINE top == Node(Height)
             text == Lower(nodes[top].text)
  <2>1. /\ TopSym \in HasNode /\ Reduce /\ nodes' = SetText(nodes, top, text)
        /\ stack' = Reduced(1, "symbol", top) /\ ParserInv'
    BY <1>2, NameInv DEF ReduceName, HasNode
  <2>2. "symbol" \in Nonterminals
    BY DEF Nonterminals
  <2>3. nodes \in Seq(NodeRecord)
    BY DEF ParserInv, Tree
  <2> HIDE DEF text
  <2>4. nodes' = [nodes EXCEPT ![top].text = text]
    BY <2>1 DEF SetText
  <2>5. DOMAIN nodes' = DOMAIN nodes
    BY <2>3, <2>4
  <2>6. ASSUME NEW id \in DOMAIN nodes PROVE nodes'[id].childs = nodes[id].childs
    <3>1. nodes[id] \in NodeRecord
      BY <2>3
    <3>2. CASE id = top
      <4>1. nodes'[id] = [nodes[id] EXCEPT !.text = text]
        BY <2>4, <3>2
      <4> QED
        BY <3>1, <4>1 DEF NodeRecord
    <3>3. CASE id # top
      BY <2>4, <3>3
    <3> QED
      BY <3>2, <3>3
  <2> QED
    BY <2>1, <2>2, <2>5, <2>6, RenameOnce
<1> QED
  BY <1>1, <1>2

\* program: program args_child, and args: args args_child make a list one longer
LEMMA AppendedChild ==
  ASSUME ParserInv, ReduceAppendChild, NEW p, p = Node(Height - 1), NEW n, n = Len(nodes[p].childs)
  PROVE  /\ p \in DOMAIN nodes
         /\ n \in Nat
         /\ Extends(nodes, nodes', p, n, Node(Height))
<1>1. Tree(nodes) /\ StackInv /\ nodes \in Seq(NodeRecord)
  BY DEF ParserInv, Tree
<1>2. /\ Sym(Height - 1) \in {"program", "args"}
      /\ nodes' = AddChild(nodes, Node(Height - 1), Node(Height))
  BY DEF ReduceAppendChild
<1>3. Height \in Nat /\ Height - 1 \in Int
  BY <1>1 DEF StackInv, Height
<1>4. Stands(nodes, Sym(Height - 1), Node(Height - 1))
  BY <1>1, <1>2, <1>3, SymFacts
<1> DEFINE c == Node(Height)
<1>5. p \in DOMAIN nodes
  BY <1>2, <1>4 DEF Stands, HasNode, Nonterminals
<1>8. nodes[p] \in NodeRecord /\ nodes[p].childs \in Seq(Nat) /\ n \in Nat /\ DOMAIN nodes[p].childs = 1..n
  <2>1. nodes[p] \in NodeRecord
    BY <1>1, <1>5
  <2>2. nodes[p].childs \in Seq(Nat)
    BY <2>1 DEF NodeRecord
  <2> QED
    BY <2>1, <2>2
<1>9. /\ DOMAIN nodes' = DOMAIN nodes
      /\ \A id \in DOMAIN nodes \ {p} : nodes'[id].childs = nodes[id].childs
      /\ nodes'[p].childs = Append(nodes[p].childs, c)
  <2>1. nodes' = [nodes EXCEPT ![p].childs = Append(@, c)]
    BY <1>2 DEF AddChild
  <2> HIDE DEF c
  <2>2. DOMAIN nodes' = DOMAIN nodes /\ \A id \in DOMAIN nodes \ {p} : nodes'[id] = nodes[id]
    BY <1>1, <2>1
  <2>3. nodes'[p] = [nodes[p] EXCEPT !.childs = Append(@, c)]
    BY <1>1, <1>5, <2>1
  <2>4. nodes'[p].childs = Append(nodes[p].childs, c)
    BY <1>8, <2>3 DEF NodeRecord
  <2> QED
    BY <2>2, <2>4
<1>10. /\ DOMAIN nodes'[p].childs = 1..(n + 1)
       /\ \A k \in 1..n : nodes'[p].childs[k] = nodes[p].childs[k]
       /\ nodes'[p].childs[n + 1] = c
  <2> DEFINE f == nodes[p].childs
             g == Append(f, c)
  <2>1. f \in Seq(Nat \union {c}) /\ c \in Nat \union {c} /\ n = Len(f)
    BY <1>8
  <2> HIDE DEF c, f
  <2>2. g \in Seq(Nat \union {c}) /\ Len(g) = n + 1 /\ g[n + 1] = c /\ \A k \in 1..n : g[k] = f[k]
    BY <2>1, AppendProperties
  <2>3. DOMAIN g = 1..(n + 1) /\ nodes'[p].childs = g
    BY <1>9, <2>2 DEF f
  <2> HIDE DEF g
  <2> QED
    BY <2>2, <2>3 DEF f
<1> HIDE DEF c
<1>11. Extends(nodes, nodes', p, n, c)
  BY <1>8, <1>9, <1>10 DEF Extends
<1> QED
  BY <1>5, <1>8, <1>11 DEF c

\* The child that is added leaves the stack
LEMMA AppendChildOnce ==
  ASSUME ParserInv, OnceInv, ReduceAppendChild
  PROVE  OnceInv'
<1>1. StackInv
  BY DEF ParserInv
<1>2. Sym(Height - 1) \in {"program", "args"} /\ stack' = Front(stack) /\ Reduce
  BY DEF ReduceAppendChild
<1>3. Height \in Nat /\ Height - 1 \in Int /\ Height = Len(stack) /\ stack \in Seq(StackItem)
  BY <1>1 DEF StackInv, Height
<1>4. Height - 1 \in 1..Height
  BY <1>1, <1>2, <1>3, SymFacts
<1> DEFINE h == Height - 1
           p == Node(Height - 1)
           n == Len(nodes[p].childs)
           tk == token.node
<1>6. h \in Nat /\ DOMAIN stack = 1..(h + 1)
  BY <1>3, <1>4
<1>7. DOMAIN stack' = 1..h /\ \A k \in 1..h : stack'[k] = stack[k]
  <2>1. stack' = SubSeq(stack, 1, h)
    BY <1>2, <1>3 DEF Front
  <2>2. \A k \in 1..h : stack[k] \in StackItem
    BY <1>3, <1>6
  <2>3. stack' \in Seq(StackItem) /\ Len(stack') = h /\ \A k \in 1..h : stack'[k] = stack[k]
    BY <1>6, <2>1, <2>2, SubSeqProperties
  <2> QED
    BY <2>3
<1> HIDE DEF p, n
<1>8. p \in DOMAIN nodes
  BY AppendedChild DEF p, n
<1>9. n \in Nat
  BY AppendedChild DEF p, n
<1>12. Extends(nodes, nodes', p, n, stack[h + 1].node)
  <2>1. Extends(nodes, nodes', p, n, Node(Height))
    BY AppendedChild DEF p, n
  <2>2. Node(Height) = stack[h + 1].node
    BY <1>3 DEF Node
  <2> QED
    BY <2>1, <2>2
<1>11. Linked(nodes, stack, tk) /\ Once(nodes, stack, tk) /\ Vacant(stack) /\ token' = token
  BY <1>2, LinkedNow DEF OnceInv, Reduce
<1> HIDE DEF tk, h
<1>13. Once(nodes', stack', tk)
  BY <1>6, <1>7, <1>8, <1>9, <1>11, <1>12, AppendOnce
<1>14. Vacant(stack')
  BY <1>6, <1>7, <1>11 DEF Vacant
<1> QED
  BY <1>11, <1>13, <1>14 DEF OnceInv, tk

\* Every step of the reader keeps every node in one place
LEMMA NextOnce ==
  ASSUME IInv, OnceInv, [Next]_vars
  PROVE  OnceInv'
<1>1. ParserInv
  BY DEF IInv
<1>2. CASE ReadToken
  <2>1. Lex /\ stack' = stack
    BY <1>2 DEF ReadToken, parserVars
  <2> QED
    BY <1>1, <2>1, LexOnce
<1>3. CASE Shift
  BY <1>1, <1>3, StepShiftOnce
<1>4. CASE Accept \/ SyntaxError
  BY <1>4 DEF Accept, SyntaxError, OnceInv
<1>5. CASE ReduceEmptyProgram
  BY <1>1, <1>5, EmptyProgramOnce
<1>6. CASE ReduceAppendChild
  BY <1>1, <1>6, AppendChildOnce
<1>7. CASE ReduceFirstArg \/ ReduceComputedName
  BY <1>1, <1>7, WrapStepsOnce
<1>8. CASE ReduceArgsChild \/ ReduceName
  BY <1>1, <1>8, RenameStepsOnce
<1>9. CASE ReduceAssignment
  BY <1>1, <1>9, AssignmentOnce
<1>10. CASE ReduceCallWithArgs
  BY <1>1, <1>10, CallWithArgsOnce
<1>11. CASE ReduceCall
  BY <1>1, <1>11, CallOnce
<1>12. CASE UNCHANGED vars
  BY <1>12 DEF vars, lexVars, parserVars, OnceInv
<1>13. Returned => UNCHANGED vars
  BY DEF Returned
<1> QED
  BY <1>2, <1>3, <1>4, <1>5, <1>6, <1>7, <1>8, <1>9, <1>10, <1>11, <1>12, <1>13 DEF Next, ParseStep

\* A list of nodes that have one place each is not longer than the tree
LEMMA ListsFit ==
  ASSUME ParserInv, OnceInv, NEW p \in NodeIds, NEW k \in DOMAIN nodes[p].childs
  PROVE  k \in 1..Len(nodes)
<1> DEFINE f == nodes[p].childs
           n == Len(f)
<1>1. nodes \in Seq(NodeRecord) /\ DOMAIN nodes = 1..Len(nodes) /\ Len(nodes) \in Nat /\ p \in DOMAIN nodes
  BY DEF ParserInv, Tree, NodeIds
<1>2. nodes[p] \in NodeRecord
  BY <1>1
<1>3. f \in Seq(Nat) /\ n \in Nat /\ DOMAIN f = 1..n
  BY <1>2 DEF NodeRecord
<1>4. \A i \in 1..n : f[i] \in DOMAIN nodes
  BY <1>1, <1>3 DEF ParserInv, Tree
<1>5. f \in [1..n -> DOMAIN nodes]
  BY <1>3, <1>4
<1>6. ASSUME NEW i \in 1..n, NEW j \in 1..n, f[i] = f[j] PROVE i = j
  <2>1. Placed(nodes, stack, token.node, f[i])
    BY <1>4 DEF OnceInv, Once
  <2>2. /\ Holds(nodes, stack, token.node, p, i, f[i])
        /\ Holds(nodes, stack, token.node, p, j, f[i])
    BY <1>1, <1>3, <1>6 DEF Holds
  <2> QED
    BY <1>1, <2>1, <2>2 DEF Placed, OnlyAt
<1>7. IsFiniteSet(1..n) /\ Cardinality(1..n) = n /\ IsFiniteSet(DOMAIN nodes) /\ Cardinality(DOMAIN nodes) = Len(nodes)
  <2>1. 1 \in Int /\ n \in Int /\ Len(nodes) \in Int
    BY <1>1, <1>3
  <2>2. IsFiniteSet(1..n) /\ Cardinality(1..n) = IF 1 > n THEN 0 ELSE n - 1 + 1
    BY <2>1, FS_Interval
  <2>3. IsFiniteSet(1..Len(nodes)) /\ Cardinality(1..Len(nodes)) = IF 1 > Len(nodes) THEN 0 ELSE Len(nodes) - 1 + 1
    BY <2>1, FS_Interval
  <2> QED
    BY <1>1, <1>3, <2>2, <2>3
<1> HIDE DEF f, n
<1>8. ~ (Len(nodes) < n)
  <2> SUFFICES ASSUME Len(nodes) < n PROVE FALSE
    OBVIOUS
  <2>1. \E x, y \in 1..n : x # y /\ f[x] = f[y]
    BY <1>5, <1>7, FS_PigeonHole
  <2> QED
    BY <1>6, <2>1
<1>9. k \in 1..n
  BY <1>3 DEF f
<1> QED
  BY <1>1, <1>3, <1>8, <1>9

\* A node that is at one place is counted once
LEMMA CountedOnce ==
  ASSUME ParserInv, OnceInv, NEW id \in NodeIds
  PROVE  Cardinality(Parents(id)) + Cardinality(Holders(id)) + (IF token.node = id THEN 1 ELSE 0) = 1
<1> DEFINE tk == token.node
<1>1. id # 0 /\ DOMAIN nodes \subseteq Nat \ {0} /\ DOMAIN stack \subseteq Nat \ {0}
  BY LinkedNow DEF Linked, NodeIds
<1>2. PICK p \in Nat, k \in Nat : OnlyAt(nodes, stack, tk, id, p, k)
  BY DEF OnceInv, Once, Placed, NodeIds
<1>3. Holds(nodes, stack, tk, p, k, id)
  BY <1>2 DEF OnlyAt
<1>4. ASSUME NEW place \in Parents(id) PROVE place = <<p, k>> /\ p # 0
  <2>1. /\ place = <<place[1], place[2]>> /\ place[1] \in DOMAIN nodes /\ place[2] \in Nat
        /\ place[2] \in DOMAIN nodes[place[1]].childs /\ nodes[place[1]].childs[place[2]] = id
    BY DEF Parents, NodeIds
  <2>2. Holds(nodes, stack, tk, place[1], place[2], id) /\ place[1] \in Nat /\ place[1] # 0
    BY <1>1, <2>1 DEF Holds
  <2>3. place[1] = p /\ place[2] = k
    BY <1>2, <2>1, <2>2 DEF OnlyAt
  <2> QED
    BY <2>1, <2>2, <2>3
<1>5. ASSUME NEW l \in Holders(id) PROVE l = k /\ p = 0 /\ k # 0
  <2>1. l \in DOMAIN stack /\ stack[l].node = id
    BY DEF Holders
  <2>2. l \in Nat /\ l # 0 /\ Holds(nodes, stack, tk, 0, l, id)
    BY <1>1, <2>1 DEF Holds
  <2> QED
    BY <1>2, <2>2 DEF OnlyAt
<1>6. ASSUME tk = id PROVE p = 0 /\ k = 0
  <2>1. Holds(nodes, stack, tk, 0, 0, id)
    BY <1>6 DEF Holds
  <2> QED
    BY <1>2, <2>1 DEF OnlyAt
<1>7. Cardinality({}) = 0 /\ \A x : Cardinality({x}) = 1
  BY FS_EmptySet, FS_Singleton
<1>8. CASE p # 0
  <2>1. p \in NodeIds /\ k \in DOMAIN nodes[p].childs /\ nodes[p].childs[k] = id
    BY <1>3, <1>8 DEF Holds, NodeIds
  <2>2. k \in 1..Len(nodes)
    BY <2>1, ListsFit
  <2>3. <<p, k>> \in Parents(id)
    BY <2>1, <2>2 DEF Parents
  <2>4. Parents(id) = {<<p, k>>}
    BY <1>4, <2>3
  <2>5. Holders(id) = {} /\ tk # id
    BY <1>5, <1>6, <1>8
  <2>6. Cardinality(Parents(id)) = 1 /\ Cardinality(Holders(id)) = 0 /\ token.node # id
    BY <1>7, <2>4, <2>5
  <2> QED
    BY <2>6
<1>9. CASE p = 0 /\ k # 0
  <2>1. k \in Holders(id)
    BY <1>1, <1>3, <1>9 DEF Holds, Holders
  <2>2. Holders(id) = {k}
    BY <1>5, <2>1
  <2>3. Parents(id) = {} /\ tk # id
    BY <1>4, <1>6, <1>9
  <2>4. Cardinality(Parents(id)) = 0 /\ Cardinality(Holders(id)) = 1 /\ token.node # id
    BY <1>7, <2>2, <2>3
  <2> QED
    BY <2>4
<1>10. CASE p = 0 /\ k = 0
  <2>1. tk = id
    BY <1>1, <1>3, <1>10 DEF Holds
  <2>2. Parents(id) = {} /\ Holders(id) = {}
    BY <1>4, <1>5, <1>10
  <2> QED
    BY <1>7, <2>1, <2>2
<1> QED
  BY <1>8, <1>9, <1>10

(* Whatever the source, every node the scanner or the parser has made is a     *)
(* child of one node, or waits on the stack or in the token: none is lost when *)
(* productions are reduced, and no subtree is shared by two parents.           *)
THEOREM NodesPlacedOnce == Spec => []EachNodeOnce
<1>1. Init => OnceInv
  <2> SUFFICES ASSUME Init PROVE OnceInv
    OBVIOUS
  <2>1. nodes = <<>> /\ stack = <<>> /\ token = NoToken
    BY DEF Init, ParserInit
  <2> QED
    BY <2>1 DEF OnceInv, Once, Vacant, NoToken
<1>2. IInv /\ OnceInv /\ [Next]_vars => OnceInv'
  BY NextOnce
<1>3. IInv /\ OnceInv => EachNodeOnce
  BY CountedOnce DEF IInv, EachNodeOnce
<1> QED
  BY <1>1, <1>2, <1>3, Invariant, PTL DEF Spec

-----------------------------------------------------------------------------
(* The texts in the lists.                                                     *)

\* The last child of a node is a text
EndsInText(ns, id) ==
  LET cs == ns[id].childs
  IN  cs # <<>> /\ ns[cs[Len(cs)]].type = "TEXT"

\* Item k of the stack is a list, and its last child is a text
ListEndsInText(ns, st, k) == SymIn(st, k) \in {"program", "args"} /\ EndsInText(ns, st[k].node)

\* Two children of a node, one after the other, are not both texts
NodeApart(ns, id) ==
  \A k \in 2..Len(ns[id].childs) :
    ~ (ns[ns[id].childs[k]].type = "TEXT" /\ ns[ns[id].childs[k - 1]].type = "TEXT")

TreeApart(ns) == \A id \in DOMAIN ns : NodeApart(ns, id)

\* No node changes its type
KeepsTypes(ns, ms) == \A id \in DOMAIN ns : ms[id].type = ns[id].type

\* The children of a node that is made: none, one, or the two of a block
FewChilds(ns, cs) ==
  \/ Len(cs) \in {0, 1}
  \/ Len(cs) = 2 /\ ns[cs[1]].type = "SYMBOL"

\* A bracket is the first of s, if there is a first
AtBracket(s) == s = <<>> \/ First(s) \in {"[", "]"}

\* No rule of the scanner takes a text from here on, before it takes something else
Ended ==
  \/ Cond = "INITIAL" /\ AtBracket(source)
  \/ Cond = "CONTENT" /\ TextEnds(source)
  \/ Cond = "IN_LITERAL" /\ source = <<>>

(* A text in the token, or on top of the stack, has ended and follows no other *)
(* text; nor can another text follow the last of the list that grows.          *)
TextInv ==
  /\ token.kind = "TEXT" => Ended /\ ~ ListEndsInText(nodes, stack, Len(stack))
  /\ Top(stack) \in {"TEXT", "args_child"} /\ nodes[stack[Len(stack)].node].type = "TEXT"
       => Ended /\ ~ ListEndsInText(nodes, stack, Len(stack) - 1)
  /\ token = NoToken /\ ListEndsInText(nodes, stack, Len(stack)) => Ended
  /\ TreeApart(nodes)

\* A node that keeps its children keeps what its list ends in, in a tree that grows
LEMMA SameEnd ==
  ASSUME NEW ns, Tree(ns), NEW ms, KeepsTypes(ns, ms), NEW id \in DOMAIN ns, ms[id].childs = ns[id].childs
  PROVE  /\ EndsInText(ms, id) <=> EndsInText(ns, id)
         /\ NodeApart(ns, id) => NodeApart(ms, id)
<1> DEFINE cs == ns[id].childs
<1>1. ns[id] \in NodeRecord
  BY DEF Tree
<1>2. cs \in Seq(Nat) /\ Len(cs) \in Nat /\ DOMAIN cs = 1..Len(cs)
  BY <1>1 DEF NodeRecord
<1>3. \A k \in 1..Len(cs) : cs[k] \in DOMAIN ns /\ ms[cs[k]].type = ns[cs[k]].type
  BY <1>2 DEF Tree, KeepsTypes
<1>4. EndsInText(ms, id) <=> EndsInText(ns, id)
  <2>1. CASE cs = <<>>
    BY <2>1 DEF EndsInText
  <2>2. CASE cs # <<>>
    <3>1. Len(cs) \in 1..Len(cs)
      BY <1>2, <2>2
    <3>2. ms[cs[Len(cs)]].type = ns[cs[Len(cs)]].type
      BY <1>3, <3>1
    <3> QED
      BY <3>2 DEF EndsInText
  <2> QED
    BY <2>1, <2>2
<1>5. ASSUME NodeApart(ns, id) PROVE NodeApart(ms, id)
  <2>1. ASSUME NEW k \in 2..Len(cs)
        PROVE  ~ (ms[cs[k]].type = "TEXT" /\ ms[cs[k - 1]].type = "TEXT")
    <3>1. k \in 1..Len(cs) /\ k - 1 \in 1..Len(cs)
      BY <1>2
    <3>2. ms[cs[k]].type = ns[cs[k]].type /\ ms[cs[k - 1]].type = ns[cs[k - 1]].type
      BY <1>3, <3>1
    <3>3. ~ (ns[cs[k]].type = "TEXT" /\ ns[cs[k - 1]].type = "TEXT")
      BY <1>5 DEF NodeApart
    <3> QED
      BY <3>2, <3>3
  <2> HIDE DEF cs
  <2> QED
    BY <2>1 DEF NodeApart, cs
<1> QED
  BY <1>4, <1>5

\* A node that is added, with one child at most or the two of a block
LEMMA AppendApart ==
  ASSUME NEW ns, Tree(ns), TreeApart(ns), NEW n, NEW ms, ms = Append(ns, n),
         FewChilds(ms, n.childs)
  PROVE  TreeApart(ms)
<1> DEFINE new == Len(ns) + 1
<1>1. /\ DOMAIN ms = DOMAIN ns \union {new}
      /\ \A id \in DOMAIN ns : ms[id].childs = ns[id].childs
      /\ ms[new].childs = n.childs
  BY AppendAdds DEF Adds
<1>2. KeepsTypes(ns, ms)
  BY DEF KeepsTypes, Tree
<1> HIDE DEF new
<1>4. ASSUME NEW id \in DOMAIN ns PROVE NodeApart(ms, id)
  <2>1. NodeApart(ns, id) /\ ms[id].childs = ns[id].childs
    BY <1>1 DEF TreeApart
  <2> QED
    BY <1>2, <2>1, SameEnd
<1>5. NodeApart(ms, new)
  <2> DEFINE l == Len(n.childs)
  <2>1. ASSUME NEW k \in 2..l
        PROVE  ~ (ms[n.childs[k]].type = "TEXT" /\ ms[n.childs[k - 1]].type = "TEXT")
    <3>1. CASE l \in {0, 1}
      <4> HIDE DEF l
      <4> QED
        BY <3>1
    <3>2. CASE l = 2 /\ ms[n.childs[1]].type = "SYMBOL"
      <4> HIDE DEF l
      <4>1. k - 1 = 1
        BY <3>2
      <4> QED
        BY <3>2, <4>1
    <3> QED
      BY <3>1, <3>2 DEF FewChilds
  <2> QED
    BY <1>1, <2>1 DEF NodeApart
<1> QED
  BY <1>1, <1>4, <1>5 DEF TreeApart

\* A child that is added to a list, where it and the last are not both texts
LEMMA ExtendApart ==
  ASSUME NEW ns, Tree(ns), NEW ms, Tree(ms), KeepsTypes(ns, ms), TreeApart(ns),
         NEW p \in DOMAIN ns, NEW n \in Nat, NEW c \in DOMAIN ns, Extends(ns, ms, p, n, c),
         ~ (ns[c].type = "TEXT" /\ EndsInText(ns, p))
  PROVE  /\ TreeApart(ms)
         /\ EndsInText(ms, p) => ns[c].type = "TEXT"
<1> DEFINE cs == ns[p].childs
           ds == ms[p].childs
<1>1. /\ DOMAIN cs = 1..n /\ DOMAIN ms = DOMAIN ns
      /\ \A id \in DOMAIN ns \ {p} : ms[id].childs = ns[id].childs
      /\ DOMAIN ds = 1..(n + 1)
      /\ \A k \in 1..n : ds[k] = cs[k]
      /\ ds[n + 1] = c
  BY DEF Extends
<1>2. ns[p] \in NodeRecord /\ ms[p] \in NodeRecord
  BY <1>1 DEF Tree
<1>3. cs \in Seq(Nat) /\ ds \in Seq(Nat)
  BY <1>2 DEF NodeRecord
<1>4. Len(cs) = n /\ Len(ds) = n + 1
  BY <1>1, <1>3
<1>5. \A id \in DOMAIN ns : ms[id].type = ns[id].type
  BY DEF KeepsTypes
<1>6. \A k \in 1..n : cs[k] \in DOMAIN ns
  BY <1>1 DEF Tree
<1>7. ASSUME NEW k \in 2..(n + 1)
      PROVE  ~ (ms[ds[k]].type = "TEXT" /\ ms[ds[k - 1]].type = "TEXT")
  <2>1. CASE k = n + 1
    <3>1. k - 1 = n /\ n \in 1..n
      BY <2>1
    <3>2. ms[ds[k]].type = ns[c].type /\ ms[ds[k - 1]].type = ns[cs[n]].type
      BY <1>1, <1>5, <1>6, <2>1, <3>1
    <3>3. ns[cs[n]].type = "TEXT" => EndsInText(ns, p)
      BY <1>3, <1>4, <3>1 DEF EndsInText
    <3> QED
      BY <3>2, <3>3
  <2>2. CASE k # n + 1
    <3>1. k \in 2..n /\ k \in 1..n /\ k - 1 \in 1..n
      BY <2>2
    <3>2. ms[ds[k]].type = ns[cs[k]].type /\ ms[ds[k - 1]].type = ns[cs[k - 1]].type
      BY <1>1, <1>5, <1>6, <3>1
    <3>3. ~ (ns[cs[k]].type = "TEXT" /\ ns[cs[k - 1]].type = "TEXT")
      BY <1>4, <3>1 DEF TreeApart, NodeApart
    <3> QED
      BY <3>2, <3>3
  <2> QED
    BY <2>1, <2>2
<1>8. NodeApart(ms, p)
  BY <1>4, <1>7 DEF NodeApart
<1>9. ASSUME NEW id \in DOMAIN ns \ {p} PROVE NodeApart(ms, id)
  <2>1. NodeApart(ns, id) /\ ms[id].childs = ns[id].childs
    BY <1>1 DEF TreeApart
  <2> QED
    BY <2>1, SameEnd
<1>10. TreeApart(ms)
  BY <1>1, <1>8, <1>9 DEF TreeApart
<1>11. ASSUME EndsInText(ms, p) PROVE ns[c].type = "TEXT"
  BY <1>1, <1>4, <1>5, <1>11 DEF EndsInText
<1> QED
  BY <1>10, <1>11

\* An item of the stack that is kept keeps what its list ends in
LEMMA SameListEnd ==
  ASSUME NEW ns, Tree(ns), NEW ms, KeepsTypes(ns, ms), NEW st, NEW ts, NEW k,
         SymIn(ts, k) = SymIn(st, k), ts[k] = st[k],
         SymIn(st, k) \in {"program", "args"} => st[k].node \in DOMAIN ns,
         \A id \in DOMAIN ns : ms[id].childs = ns[id].childs
  PROVE  ListEndsInText(ms, ts, k) <=> ListEndsInText(ns, st, k)
<1>1. CASE SymIn(st, k) \notin {"program", "args"}
  BY <1>1 DEF ListEndsInText
<1>2. CASE SymIn(st, k) \in {"program", "args"}
  <2>1. st[k].node \in DOMAIN ns /\ ms[st[k].node].childs = ns[st[k].node].childs
    BY <1>2
  <2>2. EndsInText(ms, st[k].node) <=> EndsInText(ns, st[k].node)
    BY <2>1, SameEnd
  <2> QED
    BY <2>2 DEF ListEndsInText
<1> QED
  BY <1>1, <1>2

\* Where no text can be taken, the rules that take or begin one are disabled
LEMMA EndedStops ==
  ASSUME LexTypes, Ended
  PROVE  ~ SkipBlanks /\ ~ InitialText /\ ~ NameEnds /\ ~ TextChar
<1>1. source \in Seq(Characters)
  BY DEF LexTypes
<1>2. ASSUME NEW S, RunLength(source, S) > 0 PROVE First(source) = source[1] /\ source[1] \in S /\ source # <<>>
  <2>1. /\ RunLength(source, S) \in 0..Len(source)
        /\ \A i \in 1..RunLength(source, S) : source[i] \in S
    BY <1>1, RunLengthFacts
  <2>2. 1 \in 1..RunLength(source, S) /\ Len(source) > 0
    BY <1>1, <1>2, <2>1
  <2>3. source # <<>>
    BY <1>1, <2>2
  <2> QED
    BY <2>1, <2>2, <2>3 DEF First
<1>3. Cond \in {"INITIAL", "CONTENT", "IN_LITERAL"}
  BY DEF Ended
<1>4. ~ NameEnds
  BY <1>3 DEF NameEnds
<1>5. ~ TextChar
  BY DEF Ended, TextChar, InContent, TextEnds, StartsWith
<1>6. ~ SkipBlanks
  <2> SUFFICES ASSUME SkipBlanks PROVE FALSE
    OBVIOUS
  <2>1. RunLength(source, Blanks) > 0 /\ Cond = "INITIAL"
    BY <1>3 DEF SkipBlanks
  <2>2. First(source) = source[1] /\ source[1] \in Blanks /\ source # <<>>
    BY <1>2, <2>1
  <2>3. source[1] \notin {"[", "]"}
    BY <2>2 DEF Blanks
  <2> QED
    BY <1>1, <2>1, <2>2, <2>3 DEF Ended, Blanks, AtBracket
<1>7. ~ InitialText
  <2> SUFFICES ASSUME InitialText PROVE FALSE
    OBVIOUS
  <2> DEFINE S == NotBracket(source)
             run == RunLength(source, S)
  <2>1. Cond = "INITIAL" /\ \E i \in 1..run : source[i] \notin Blanks
    BY DEF InitialText
  <2>2. run \in 0..Len(source)
    BY <1>1, RunLengthFacts
  <2>3. run > 0
    BY <1>1, <2>1, <2>2
  <2>4. First(source) = source[1] /\ source[1] \in S /\ source # <<>>
    BY <1>2, <2>3
  <2>5. source[1] \notin {"[", "]"}
    BY <2>4 DEF NotBracket
  <2> QED
    BY <1>1, <2>1, <2>4, <2>5 DEF Ended, AtBracket
<1> QED
  BY <1>4, <1>5, <1>6, <1>7

\* What is left of a text
LEMMA RestFacts ==
  ASSUME NEW S, NEW s \in Seq(S), NEW n \in 0..Len(s)
  PROVE  /\ n = Len(s) => SubSeq(s, n + 1, Len(s)) = <<>>
         /\ n < Len(s) => /\ SubSeq(s, n + 1, Len(s)) # <<>>
                          /\ SubSeq(s, n + 1, Len(s))[1] = s[n + 1]
<1>1. n + 1 \in Int /\ Len(s) \in Int /\ \A i \in (n + 1)..Len(s) : s[i] \in S
  OBVIOUS
<1>2. n = Len(s) => SubSeq(s, n + 1, Len(s)) = <<>>
  BY <1>1, SubSeqEmpty
<1>3. ASSUME n < Len(s)
      PROVE  /\ SubSeq(s, n + 1, Len(s)) # <<>>
             /\ SubSeq(s, n + 1, Len(s))[1] = s[n + 1]
  <2> DEFINE t == SubSeq(s, n + 1, Len(s))
  <2>1. /\ Len(t) = IF n + 1 <= Len(s) THEN Len(s) - (n + 1) + 1 ELSE 0
        /\ \A i \in 1..(Len(s) - (n + 1) + 1) : t[i] = s[n + 1 + i - 1]
    BY <1>1, SubSeqProperties
  <2> HIDE DEF t
  <2>2. Len(t) > 0 /\ 1 \in 1..(Len(s) - (n + 1) + 1)
    BY <1>1, <1>3, <2>1
  <2>3. t[1] = s[n + 1] /\ t # <<>>
    BY <1>1, <2>1, <2>2
  <2> QED
    BY <2>3 DEF t
<1> QED
  BY <1>2, <1>3

\* Nothing but a bracket follows a longest run of other characters
LEMMA RunEnds ==
  ASSUME LexTypes
  PROVE  AtBracket(Drop(RunLength(source, NotBracket(source))))
<1> DEFINE S == NotBracket(source)
           run == RunLength(source, S)
           rest == Drop(run)
<1>1. source \in Seq(Characters) /\ Len(source) \in Nat
  BY DEF LexTypes
<1>2. run \in 0..Len(source) /\ (run < Len(source) => source[run + 1] \notin S)
  BY <1>1, RunLengthFacts
<1>3. rest = SubSeq(source, run + 1, Len(source))
  BY DEF Drop
<1>4. \A i \in 1..Len(source) : source[i] \notin S => source[i] \in {"[", "]"}
  BY <1>1 DEF NotBracket
<1> HIDE DEF run, rest, S
<1>5. ASSUME run = Len(source) PROVE AtBracket(rest)
  <2>1. rest = <<>>
    BY <1>1, <1>2, <1>3, <1>5, RestFacts
  <2> QED
    BY <2>1 DEF AtBracket
<1>6. ASSUME run < Len(source) PROVE AtBracket(rest)
  <2>1. rest # <<>> /\ rest[1] = source[run + 1]
    BY <1>1, <1>2, <1>3, <1>6, RestFacts
  <2>2. run + 1 \in 1..Len(source)
    BY <1>1, <1>2, <1>6
  <2>3. source[run + 1] \in {"[", "]"}
    BY <1>2, <1>4, <1>6, <2>2
  <2> QED
    BY <2>1, <2>3 DEF AtBracket, First
<1>7. AtBracket(rest)
  BY <1>1, <1>2, <1>5, <1>6
<1> QED
  BY <1>7 DEF rest, run, S

\* A call of yylex changes no list, and adds no node that is in one
LEMMA LexKeepsLists ==
  ASSUME ParserInv, Lex, stack' = stack, TreeApart(nodes)
  PROVE  /\ TreeApart(nodes')
         /\ ListEndsInText(nodes', stack', Len(stack')) <=> ListEndsInText(nodes, stack, Len(stack))
<1>1. Tree(nodes) /\ LexTypes /\ StackInv
  BY DEF ParserInv
<1>2. KeepsTypes(nodes, nodes')
  <2>1. Grows(nodes, nodes')
    BY <1>1, LexInv
  <2> QED
    BY <2>1 DEF Grows, KeepsTypes
<1>3. \/ nodes' = nodes
      \/ \E type, text : nodes' = NewNode(nodes, type, text)
  BY DEF Lex, SkipBlanks, InitialText, OpenBlock, CloseBlock, Colon, Symbol, NameEnds,
         ArgRef, Literal, TextChar, EndOfSource, ReturnNode
<1>4. TreeApart(nodes') /\ \A id \in DOMAIN nodes : nodes'[id].childs = nodes[id].childs
  <2>1. CASE nodes' = nodes
    BY <2>1
  <2>2. CASE nodes' # nodes
    <3>1. PICK type, text : nodes' = NewNode(nodes, type, text)
      BY <1>3, <2>2
    <3> DEFINE n == [type |-> type, text |-> text, childs |-> <<>>]
    <3>2. nodes' = Append(nodes, n) /\ Len(n.childs) = 0 /\ n.childs = <<>>
      BY <3>1 DEF NewNode
    <3> HIDE DEF n
    <3>3. Adds(nodes, nodes', Len(nodes) + 1, n.childs)
      BY <1>1, <3>2, AppendAdds
    <3>4. FewChilds(nodes', n.childs)
      <4>1. Len(n.childs) \in {0, 1}
        BY <3>2
      <4>2. \A ms, cs : Len(cs) \in {0, 1} => FewChilds(ms, cs)
        BY DEF FewChilds
      <4> QED
        BY <4>1, <4>2
    <3>5. TreeApart(nodes')
      BY <1>1, <3>2, <3>4, AppendApart
    <3> QED
      BY <3>3, <3>5 DEF Adds
  <2> QED
    BY <2>1, <2>2
<1>5. SymIn(stack, Len(stack)) \in {"program", "args"} => stack[Len(stack)].node \in DOMAIN nodes
  <2> SUFFICES ASSUME SymIn(stack, Len(stack)) \in {"program", "args"}
               PROVE  stack[Len(stack)].node \in DOMAIN nodes
    OBVIOUS
  <2>1. Len(stack) \in DOMAIN stack /\ stack[Len(stack)].sym \in {"program", "args"}
    BY DEF SymIn
  <2> QED
    BY <1>1, <2>1 DEF StackInv, Stands, HasNode, Nonterminals
<1>6. ListEndsInText(nodes', stack, Len(stack)) <=> ListEndsInText(nodes, stack, Len(stack))
  BY <1>1, <1>2, <1>4, <1>5, SameListEnd
<1> QED
  BY <1>4, <1>6

\* A text that yylex returns has ended, and follows no other
LEMMA LexTexts ==
  ASSUME LexTypes, Lex, NEW L, L = TRUE \/ L = FALSE, L => Ended
  PROVE  /\ token'.kind = "TEXT" => Ended' /\ ~ L
         /\ token' = NoToken /\ L => Ended'
<1>1. token = NoToken
  BY DEF Lex, SkipBlanks, InitialText, OpenBlock, CloseBlock, Colon, Symbol, NameEnds,
         ArgRef, Literal, TextChar, InContent, EndOfSource, Scanning
<1>2. SkipBlanks \/ InitialText \/ NameEnds \/ TextChar => ~ L
  BY EndedStops
<1>3. CASE SkipBlanks \/ NameEnds
  <2>1. token' = token
    BY <1>3 DEF SkipBlanks, NameEnds
  <2> QED
    BY <1>1, <1>2, <1>3, <2>1 DEF NoToken
<1>4. CASE OpenBlock \/ CloseBlock \/ Colon \/ Symbol \/ ArgRef \/ EndOfSource
  <2>1. token'.kind \in {"[", "]", ":", "SYMBOL", "ARG_REF_ALL_ARGS", "EOF"}
    BY <1>4 DEF OpenBlock, CloseBlock, Colon, Symbol, ArgRef, EndOfSource, Punctuation, ReturnNode
  <2> QED
    BY <2>1 DEF NoToken
<1>5. CASE Literal
  <2>1. CASE Len(source) = 2
    <3>1. source' = <<>> /\ conds' = Append(conds, "IN_LITERAL") /\ token' = token
      BY <1>5, <2>1 DEF Literal
    <3>2. conds'[Len(conds')] = "IN_LITERAL"
      BY <3>1 DEF LexTypes
    <3>3. Cond' = "IN_LITERAL"
      BY <3>2 DEF Cond
    <3>4. Ended'
      BY <3>1, <3>3 DEF Ended
    <3> QED
      BY <1>1, <3>1, <3>4 DEF NoToken
  <2>2. CASE Len(source) # 2
    <3>1. \E text, n : ReturnNode("LITERAL", text, n)
      BY <1>5, <2>2 DEF Literal
    <3>2. token'.kind = "LITERAL"
      BY <3>1 DEF ReturnNode
    <3> QED
      BY <3>2 DEF NoToken
  <2> QED
    BY <2>1, <2>2
<1>6. CASE InitialText
  <2> DEFINE run == RunLength(source, NotBracket(source))
             rest == Drop(run)
  <2>1. source' = rest /\ conds' = conds /\ token'.kind = "TEXT" /\ Cond = "INITIAL"
    BY <1>6 DEF InitialText, ReturnNode
  <2>2. AtBracket(rest)
    BY RunEnds
  <2> HIDE DEF run, rest
  <2>3. Cond' = "INITIAL" /\ AtBracket(source')
    BY <2>1, <2>2 DEF Cond
  <2>4. AtBracket(source)' <=> AtBracket(source')
    BY DEF AtBracket, First
  <2>5. Ended'
    BY <2>3, <2>4 DEF Ended
  <2>6. token' # NoToken
    BY <2>1 DEF NoToken
  <2> QED
    BY <1>2, <1>6, <2>5, <2>6
<1>7. CASE TextChar
  <2> DEFINE n == IF First(source) = "\\" /\ Len(source) > 1 THEN 2 ELSE 1
             rest == Drop(n)
  <2>1. CASE TextEnds(rest)
    <3> DEFINE text == Append(textBuffer, source[n])
    <3>6. ReturnNode("TEXT", text, n) /\ conds' = conds /\ Cond = "CONTENT"
      BY <1>7, <2>1 DEF TextChar, InContent
    <3> HIDE DEF text
    <3>1. source' = rest /\ conds' = conds /\ token'.kind = "TEXT" /\ Cond = "CONTENT"
      BY <3>6 DEF ReturnNode
    <3> HIDE DEF n, rest
    <3>2. Cond' = "CONTENT" /\ TextEnds(source')
      BY <2>1, <3>1 DEF Cond
    <3>3. TextEnds(source)' <=> TextEnds(source')
      BY DEF TextEnds, First
    <3>4. Ended'
      BY <3>2, <3>3 DEF Ended
    <3>5. token' # NoToken
      BY <3>1 DEF NoToken
    <3> QED
      BY <1>2, <1>7, <3>4, <3>5
  <2>2. CASE ~ TextEnds(rest)
    <3>1. token' = token
      BY <1>7, <2>2 DEF TextChar
    <3> QED
      BY <1>1, <1>2, <1>7, <3>1 DEF NoToken
  <2> QED
    BY <2>1, <2>2
<1> QED
  BY <1>3, <1>4, <1>5, <1>6, <1>7 DEF Lex

\* A call of yylex keeps the invariant
LEMMA ReadTokenTexts ==
  ASSUME ParserInv, TextInv, ReadToken
  PROVE  TextInv'
<1> DEFINE L == ListEndsInText(nodes, stack, Len(stack))
           M == ListEndsInText(nodes', stack', Len(stack'))
<1>1. Lex /\ NeedsToken /\ stack' = stack
  BY DEF ReadToken, parserVars
<1>2. token = NoToken
  BY <1>1 DEF Lex, SkipBlanks, InitialText, OpenBlock, CloseBlock, Colon, Symbol, NameEnds,
              ArgRef, Literal, TextChar, InContent, EndOfSource, Scanning
<1>3. TreeApart(nodes') /\ (M <=> L)
  BY <1>1, LexKeepsLists DEF TextInv
<1>4. LexTypes /\ (L => Ended) /\ (L = TRUE \/ L = FALSE)
  BY <1>2 DEF ParserInv, TextInv, ListEndsInText
<1>5. Top(stack) \notin {"TEXT", "args_child"}
  <2>1. TopSym \in Receptive
    BY <1>1 DEF NeedsToken, Acceptable, Receptive
  <2> QED
    BY <2>1, SymIsSymIn DEF Receptive
<1> HIDE DEF L
<1>6. (token'.kind = "TEXT" => Ended' /\ ~ L) /\ (token' = NoToken /\ L => Ended')
  BY <1>1, <1>4, LexTexts
<1>7. Top(stack') \notin {"TEXT", "args_child"}
  BY <1>1, <1>5
<1> QED
  BY <1>3, <1>6, <1>7 DEF TextInv, NoToken

\* Where the parser has not called yylex, a text that has ended has ended
LEMMA SameEnded ==
  ASSUME UNCHANGED <<source, conds>>
  PROVE  Ended' <=> Ended
BY DEF Ended, Cond, AtBracket, TextEnds, First

\* A text that is shifted follows no other
LEMMA ShiftTexts ==
  ASSUME ParserInv, TextInv, Shift
  PROVE  TextInv'
<1> DEFINE kind == token.kind
           node == token.node
           h == Height
<1>1. Height \in Nat /\ Height = Len(stack) /\ stack \in Seq(StackItem) /\ StackInv /\ Tree(nodes)
  BY DEF ParserInv, StackInv, Height
<1>2. /\ stack' = Append(stack, Item(kind, node)) /\ token' = NoToken /\ nodes' = nodes
      /\ UNCHANGED <<source, conds>>
  BY DEF Shift
<1>3. Pushed(stack, stack', h, kind, node)
  <2>1. SubSeq(stack, 1, Len(stack)) = stack
    BY <1>1, SubSeqFull
  <2>2. stack' = Reduced(0, kind, node) /\ 0 \in 0..Height /\ Height - 0 = Height
    BY <1>1, <1>2, <2>1 DEF Reduced
  <2> QED
    BY <1>1, <2>2, ReducedPushes
<1>4. kind \in Terminals
  BY DEF Shift, Acceptable, Leaves, Terminals
<1>5. h \in Nat /\ h = Len(stack)
  BY <1>1
<1> HIDE DEF kind, node, h
<1>6. Top(stack') = kind /\ Len(stack') = h + 1 /\ SymIn(stack', h) = SymIn(stack, h)
  <2>1. Top(stack') = kind
    BY <1>3, <1>5, PushFacts
  <2> QED
    BY <1>3, <1>5, <2>1 DEF Pushed
<1>7. ~ ListEndsInText(nodes', stack', Len(stack'))
  BY <1>4, <1>6 DEF ListEndsInText, Top, Terminals
<1>8. ASSUME kind = "TEXT" PROVE Ended' /\ ~ ListEndsInText(nodes', stack', h)
  <2>1. Ended /\ ~ ListEndsInText(nodes, stack, h)
    BY <1>5, <1>8 DEF TextInv, kind
  <2>2. ASSUME SymIn(stack, h) \in {"program", "args"} PROVE stack'[h] = stack[h]
    <3>1. h \in 1..h
      BY <1>1, <1>5, <2>2 DEF SymIn
    <3> QED
      BY <1>3, <3>1 DEF Pushed
  <2>3. ~ ListEndsInText(nodes', stack', h)
    BY <1>2, <1>6, <2>1, <2>2 DEF ListEndsInText
  <2> QED
    BY <1>2, <2>1, <2>3, SameEnded
<1>9. Top(stack') = "args_child" => FALSE
  BY <1>4, <1>6 DEF Terminals
<1>10. Len(stack') - 1 = h
  BY <1>5, <1>6
<1>11. TreeApart(nodes') /\ token'.kind # "TEXT"
  BY <1>2 DEF TextInv, NoToken
<1> QED
  BY <1>6, <1>7, <1>8, <1>9, <1>10, <1>11 DEF TextInv

\* Before a reduction no token waits
LEMMA ReductionWaits ==
  ASSUME ScanInv, Reduce, Top(stack) \notin Receptive
  PROVE  token = NoToken /\ token' = NoToken /\ UNCHANGED <<source, conds>>
BY DEF ScanInv, Reduce

\* What is on top of the stack after a reduction
LEMMA ReducedTop ==
  ASSUME StackInv, NEW n \in 0..Height, NEW sym, NEW node, stack' = Reduced(n, sym, node)
  PROVE  /\ Top(stack') = sym
         /\ Len(stack') = Height - n + 1
         /\ stack'[Len(stack')].node = node
         /\ SymIn(stack', Height - n) = SymIn(stack, Height - n)
         /\ Height - n \in 1..Height => stack'[Height - n] = stack[Height - n]
<1> DEFINE h == Height - n
<1>1. h \in Nat /\ Pushed(stack, stack', h, sym, node)
  BY ReducedPushes
<1> HIDE DEF h
<1>2. Top(stack') = sym
  BY <1>1, PushFacts
<1>3. Len(stack') = h + 1 /\ stack'[h + 1].node = node
  BY <1>1 DEF Pushed, Item
<1>4. SymIn(stack', h) = SymIn(stack, h) /\ (h \in 1..Height => stack'[h] = stack[h])
  BY <1>1 DEF Pushed
<1> QED
  BY <1>2, <1>3, <1>4 DEF h

\* Under a symbol that is no text and no list there is nothing to say
LEMMA QuietTexts ==
  ASSUME token' = NoToken, Top(stack') \notin {"TEXT", "args_child", "program", "args"},
         TreeApart(nodes')
  PROVE  TextInv'
<1>1. ~ ListEndsInText(nodes', stack', Len(stack'))
  BY DEF ListEndsInText, Top
<1> QED
  BY <1>1 DEF TextInv, NoToken

\* A list that ends in a text, on top of the stack, ends where the text did
LEMMA ListTexts ==
  ASSUME token' = NoToken, Top(stack') \in {"program", "args"},
         NEW p, stack'[Len(stack')].node = p, EndsInText(nodes', p) => Ended',
         TreeApart(nodes')
  PROVE  TextInv'
<1>1. ListEndsInText(nodes', stack', Len(stack')) => Ended'
  BY DEF ListEndsInText
<1>2. Top(stack') \notin {"TEXT", "args_child"}
  OBVIOUS
<1> QED
  BY <1>1, <1>2 DEF TextInv, NoToken

\* program: %empty
LEMMA EmptyProgramTexts ==
  ASSUME ParserInv, ScanInv, TextInv, ReduceEmptyProgram
  PROVE  TextInv'
<1> DEFINE n == [type |-> "PROGRAM", text |-> NoText, childs |-> <<>>]
           new == Len(nodes) + 1
<1>1. Reduce /\ stack = <<>> /\ stack' = <<Item("program", new)>> /\ nodes' = Append(nodes, n)
  BY DEF ReduceEmptyProgram, NewNode
<1>2. Tree(nodes) /\ TreeApart(nodes)
  BY DEF ParserInv, TextInv
<1>3. Top(stack) = "bottom"
  BY <1>1 DEF Top, SymIn
<1>4. token' = NoToken
  BY <1>1, <1>3, ReductionWaits DEF Receptive
<1>5. Len(stack') = 1 /\ stack'[1] = Item("program", new) /\ DOMAIN stack' = {1}
  BY <1>1
<1>6. Top(stack') = "program" /\ stack'[Len(stack')].node = new
  BY <1>5 DEF Top, SymIn, Item
<1>7. n.childs = <<>> /\ Len(n.childs) \in {0, 1}
  OBVIOUS
<1> HIDE DEF n
<1>8. TreeApart(nodes')
  <2>1. FewChilds(nodes', n.childs)
    BY <1>7 DEF FewChilds
  <2> QED
    BY <1>1, <1>2, <2>1, AppendApart
<1>9. ~ EndsInText(nodes', new)
  <2>1. nodes'[new].childs = <<>>
    BY <1>1, <1>2, <1>7, AppendAdds DEF Adds
  <2> QED
    BY <2>1 DEF EndsInText
<1> HIDE DEF new
<1> QED
  BY <1>4, <1>6, <1>8, <1>9, ListTexts

\* A node over the block or the child on top of the stack
LEMMA WrapApart ==
  ASSUME ParserInv, TextInv, TopSym \in Nonterminals, NEW type \in NodeTypes,
         nodes' = AddChild(NewNode(nodes, type, NoText), Len(nodes) + 1, Node(Height))
  PROVE  /\ TreeApart(nodes')
         /\ EndsInText(nodes', Len(nodes) + 1) => nodes[Node(Height)].type = "TEXT"
<1>1. Height \in Nat /\ StackInv /\ Tree(nodes) /\ TreeApart(nodes)
  BY DEF ParserInv, StackInv, Height, TextInv
<1>2. Stands(nodes, TopSym, Node(Height))
  BY <1>1, SymFacts DEF TopSym, Nonterminals
<1> DEFINE c == Node(Height)
           n == [type |-> type, text |-> NoText, childs |-> <<c>>]
           new == Len(nodes) + 1
<1>3. c \in DOMAIN nodes /\ c \in Nat
  BY <1>1, <1>2 DEF Stands, HasNode, Tree
<1>4. nodes' = Append(nodes, n)
  BY <1>1, <1>3, NewWithChild
<1>5. n.childs = <<c>> /\ Len(n.childs) \in {0, 1}
  OBVIOUS
<1> HIDE DEF n, c
<1>6. TreeApart(nodes')
  <2>1. FewChilds(nodes', n.childs)
    BY <1>5 DEF FewChilds
  <2> QED
    BY <1>1, <1>4, <2>1, AppendApart
<1>7. EndsInText(nodes', new) => nodes[c].type = "TEXT"
  <2>1. nodes'[new].childs = <<c>>
    BY <1>1, <1>4, <1>5, AppendAdds DEF Adds
  <2>2. nodes'[c] = nodes[c]
    BY <1>1, <1>3, <1>4 DEF Tree
  <2>3. Len(<<c>>) = 1 /\ <<c>>[1] = c
    OBVIOUS
  <2> HIDE DEF new
  <2>4. EndsInText(nodes', new) => nodes'[c].type = "TEXT"
    BY <2>1, <2>3 DEF EndsInText
  <2> QED
    BY <2>2, <2>4
<1> QED
  BY <1>6, <1>7 DEF c

\* args: args_child, and symbol: block
LEMMA WrapStepsTexts ==
  ASSUME ParserInv, ScanInv, TextInv, ReduceFirstArg \/ ReduceComputedName
  PROVE  TextInv'
<1> DEFINE new == Len(nodes) + 1
<1>1. Height \in Nat /\ StackInv /\ Height = Len(stack)
  BY DEF ParserInv, StackInv, Height
<1>2. TopSym \in {"args_child", "block"} /\ Reduce
  BY DEF ReduceFirstArg, ReduceComputedName
<1>3. token' = NoToken /\ UNCHANGED <<source, conds>>
  <2>1. Top(stack) \notin Receptive
    BY <1>2, SymIsSymIn DEF Receptive
  <2> QED
    BY <1>2, <2>1, ReductionWaits
<1>4. 1 \in 0..Height /\ TopSym \in Nonterminals /\ {"ARGS", "SYMBOL"} \subseteq NodeTypes
  <2>1. Height # 0
    BY <1>2, <1>1 DEF TopSym, Sym
  <2> QED
    BY <1>1, <1>2, <2>1 DEF Nonterminals, NodeTypes
<1>5. CASE ReduceFirstArg
  <2>1. /\ nodes' = AddChild(NewNode(nodes, "ARGS", NoText), Len(nodes) + 1, Node(Height))
        /\ stack' = Reduced(1, "args", new) /\ TopSym = "args_child"
    BY <1>5 DEF ReduceFirstArg
  <2>2. TreeApart(nodes') /\ (EndsInText(nodes', new) => nodes[Node(Height)].type = "TEXT")
    BY <1>4, <2>1, WrapApart
  <2>3. nodes[Node(Height)].type = "TEXT" => Ended
    BY <1>1, <2>1, SymIsSymIn DEF TextInv, Node
  <2>4. EndsInText(nodes', new) => Ended'
    BY <1>3, <2>2, <2>3, SameEnded
  <2> HIDE DEF new
  <2>5. Top(stack') = "args" /\ stack'[Len(stack')].node = new
    BY <1>1, <1>4, <2>1, ReducedTop
  <2> QED
    BY <1>3, <2>2, <2>4, <2>5, ListTexts
<1>6. CASE ReduceComputedName
  <2>1. /\ nodes' = AddChild(NewNode(nodes, "SYMBOL", NoText), Len(nodes) + 1, Node(Height))
        /\ stack' = Reduced(1, "symbol", new)
    BY <1>6 DEF ReduceComputedName
  <2>2. TreeApart(nodes')
    BY <1>4, <2>1, WrapApart
  <2> HIDE DEF new
  <2>3. Top(stack') = "symbol"
    BY <1>1, <1>4, <2>1, ReducedTop
  <2> QED
    BY <1>3, <2>2, <2>3, QuietTexts
<1> QED
  BY <1>5, <1>6

\* args_child: TEXT | LITERAL | ARG_REF_ALL_ARGS | block
LEMMA ArgsChildTexts ==
  ASSUME ParserInv, ScanInv, TextInv, ReduceArgsChild
  PROVE  TextInv'
<1> DEFINE c == Node(Height)
           h == Height - 1
<1>1. Height \in Nat /\ StackInv /\ Height = Len(stack) /\ h \in Int
  BY DEF ParserInv, StackInv, Height
<1>2. /\ TopSym \in Leaves \union {"block"} /\ Reduce
      /\ nodes' = nodes /\ stack' = Reduced(1, "args_child", c)
  BY DEF ReduceArgsChild
<1>3. token' = NoToken /\ UNCHANGED <<source, conds>>
  <2>1. Top(stack) \notin Receptive
    BY <1>2, SymIsSymIn DEF Receptive, Leaves
  <2> QED
    BY <1>2, <2>1, ReductionWaits
<1>4. Stands(nodes, TopSym, c) /\ Height \in 1..Height
  BY <1>1, <1>2, SymFacts DEF TopSym, Leaves
<1>5. nodes[c].type = "TEXT" => TopSym = "TEXT"
  BY <1>2, <1>4 DEF Stands, HasNode, Nonterminals, TypesOf, Leaves, Blocks
<1>6. /\ Top(stack') = "args_child"
      /\ Len(stack') = h + 1
      /\ stack'[Len(stack')].node = c
      /\ SymIn(stack', h) = SymIn(stack, h)
      /\ h \in 1..Height => stack'[h] = stack[h]
  <2>1. 1 \in 0..Height
    BY <1>1, <1>4
  <2> HIDE DEF c
  <2> QED
    BY <1>1, <1>2, <2>1, ReducedTop
<1>7. nodes[c].type = "TEXT" => Ended /\ ~ ListEndsInText(nodes, stack, h)
  BY <1>1, <1>5, SymIsSymIn DEF TextInv, Node
<1> HIDE DEF c, h
<1>8. ~ ListEndsInText(nodes, stack, h) => ~ ListEndsInText(nodes', stack', h)
  <2>1. SymIn(stack, h) \in {"program", "args"} => h \in 1..Height
    BY <1>1 DEF SymIn, StackInv
  <2> QED
    BY <1>2, <1>6, <2>1 DEF ListEndsInText
<1>9. nodes'[c].type = "TEXT" => Ended' /\ ~ ListEndsInText(nodes', stack', h)
  BY <1>2, <1>3, <1>7, <1>8, SameEnded
<1>10. ~ ListEndsInText(nodes', stack', Len(stack'))
  BY <1>6 DEF ListEndsInText, Top
<1>11. TreeApart(nodes') /\ Len(stack') - 1 = h
  BY <1>1, <1>2, <1>6 DEF TextInv
<1> QED
  BY <1>3, <1>6, <1>9, <1>10, <1>11 DEF TextInv, NoToken

\* symbol: SYMBOL
LEMMA NameTexts ==
  ASSUME ParserInv, ScanInv, TextInv, ReduceName
  PROVE  TextInv'
<1> DEFINE top == Node(Height)
           text == Lower(nodes[top].text)
<1>1. Height \in Nat /\ StackInv /\ Height = Len(stack) /\ Tree(nodes) /\ nodes \in Seq(NodeRecord)
  BY DEF ParserInv, StackInv, Height, Tree
<1>2. TopSym = "SYMBOL" /\ Reduce /\ nodes' = SetText(nodes, top, text) /\ stack' = Reduced(1, "symbol", top)
  BY DEF ReduceName
<1>3. token' = NoToken
  <2>1. Top(stack) \notin Receptive
    BY <1>2, SymIsSymIn DEF Receptive
  <2> QED
    BY <1>2, <2>1, ReductionWaits
<1>4. 1 \in 0..Height
  <2>1. Height # 0
    BY <1>1, <1>2 DEF TopSym, Sym
  <2> QED
    BY <1>1, <2>1
<1> HIDE DEF text
<1>5. nodes' = [nodes EXCEPT ![top].text = text]
  BY <1>2 DEF SetText
<1> HIDE DEF top
<1>6. DOMAIN nodes' = DOMAIN nodes
  BY <1>1, <1>5
<1>7. ASSUME NEW id \in DOMAIN nodes
      PROVE  nodes'[id].childs = nodes[id].childs /\ nodes'[id].type = nodes[id].type
  <2>1. nodes[id] \in NodeRecord
    BY <1>1
  <2>2. CASE id = top
    <3>1. nodes'[id] = [nodes[id] EXCEPT !.text = text]
      BY <1>5, <2>2
    <3> QED
      BY <2>1, <3>1 DEF NodeRecord
  <2>3. CASE id # top
    BY <1>5, <2>3
  <2> QED
    BY <2>2, <2>3
<1>8. KeepsTypes(nodes, nodes')
  BY <1>7 DEF KeepsTypes
<1>9. ASSUME NEW id \in DOMAIN nodes PROVE NodeApart(nodes', id)
  <2>1. NodeApart(nodes, id) /\ nodes'[id].childs = nodes[id].childs
    BY <1>7 DEF TextInv, TreeApart
  <2> QED
    BY <1>1, <1>8, <2>1, SameEnd
<1>10. TreeApart(nodes')
  BY <1>6, <1>9 DEF TreeApart
<1>11. Top(stack') = "symbol"
  BY <1>1, <1>2, <1>4, ReducedTop
<1> QED
  BY <1>3, <1>10, <1>11, QuietTexts

\* program: program args_child, and args: args args_child
LEMMA AppendChildTexts ==
  ASSUME ParserInv, ScanInv, TextInv, ReduceAppendChild
  PROVE  TextInv'
<1> DEFINE h == Height - 1
           p == Node(Height - 1)
           n == Len(nodes[p].childs)
           c == Node(Height)
<1>1. /\ Height \in Nat /\ StackInv /\ Height = Len(stack) /\ Height - 1 \in Int
      /\ Tree(nodes) /\ stack \in Seq(StackItem)
  BY DEF ParserInv, StackInv, Height
<1>2. /\ TopSym = "args_child" /\ Sym(Height - 1) \in {"program", "args"}
      /\ stack' = Front(stack) /\ Reduce
  BY DEF ReduceAppendChild
<1>3. token' = NoToken /\ UNCHANGED <<source, conds>>
  <2>1. Top(stack) \notin Receptive
    BY <1>2, SymIsSymIn DEF Receptive
  <2> QED
    BY <1>2, <2>1, ReductionWaits
<1>4. Height - 1 \in 1..Height
  BY <1>1, <1>2, SymFacts
<1>5. Stands(nodes, TopSym, c)
  BY <1>1, <1>2, SymFacts DEF TopSym
<1>6. c \in DOMAIN nodes
  BY <1>2, <1>5 DEF Stands, HasNode, Nonterminals
<1>7. Tree(nodes')
  BY AppendChildInv DEF ParserInv
<1>8. KeepsTypes(nodes, nodes')
  <2>1. nodes' = [nodes EXCEPT ![p].childs = Append(@, c)]
    BY DEF ReduceAppendChild, AddChild
  <2>2. nodes \in Seq(NodeRecord)
    BY <1>1 DEF Tree
  <2> HIDE DEF p, c
  <2>3. ASSUME NEW id \in DOMAIN nodes PROVE nodes'[id].type = nodes[id].type
    <3>1. nodes[id] \in NodeRecord
      BY <2>2
    <3>2. CASE id = p
      <4>1. nodes'[id] = [nodes[id] EXCEPT !.childs = Append(@, c)]
        BY <2>1, <3>2
      <4> QED
        BY <3>1, <4>1 DEF NodeRecord
    <3>3. CASE id # p
      BY <2>1, <3>3
    <3> QED
      BY <3>2, <3>3
  <2> QED
    BY <2>3 DEF KeepsTypes
<1>9. nodes[c].type = "TEXT" => Ended /\ ~ EndsInText(nodes, p)
  <2>1. nodes[c].type = "TEXT" => Ended /\ ~ ListEndsInText(nodes, stack, h)
    BY <1>1, <1>2, SymIsSymIn DEF TextInv, Node
  <2>2. SymIn(stack, h) \in {"program", "args"} /\ stack[h].node = p
    BY <1>2, SymIsSymIn DEF Node
  <2> QED
    BY <2>1, <2>2 DEF ListEndsInText
<1> HIDE DEF p, n, c
<1>10. p \in DOMAIN nodes
  BY AppendedChild DEF p, n
<1>11. n \in Nat
  BY AppendedChild DEF p, n
<1>12. Extends(nodes, nodes', p, n, c)
  BY AppendedChild DEF p, n, c
<1>13. TreeApart(nodes)
  BY DEF TextInv
<1>14. ~ (nodes[c].type = "TEXT" /\ EndsInText(nodes, p))
  BY <1>9
<1>15. TreeApart(nodes')
  BY <1>1, <1>6, <1>7, <1>8, <1>10, <1>11, <1>12, <1>13, <1>14, ExtendApart
<1>16. EndsInText(nodes', p) => nodes[c].type = "TEXT"
  BY <1>1, <1>6, <1>7, <1>8, <1>10, <1>11, <1>12, <1>13, <1>14, ExtendApart
<1>17. EndsInText(nodes', p) => Ended'
  BY <1>3, <1>9, <1>16, SameEnded
<1>18. Top(stack') \in {"program", "args"} /\ stack'[Len(stack')].node = p
  <2>1. Height >= 2 /\ 2 \in 0..Height
    BY <1>1, <1>4
  <2>2. stack' = Reduced(2, Sym(h), p)
    BY <1>1, <1>2, <2>1, FrontIsReduced DEF p
  <2> DEFINE sym == Sym(h)
  <2>3. sym \in {"program", "args"}
    BY <1>2
  <2> HIDE DEF sym
  <2>4. Top(stack') = sym /\ stack'[Len(stack')].node = p
    BY <1>1, <2>1, <2>2, ReducedTop DEF sym
  <2> QED
    BY <2>3, <2>4
<1> QED
  BY <1>3, <1>15, <1>17, <1>18, ListTexts

\* A block stands over its name and its list, neither of them a text
LEMMA BlockTexts ==
  ASSUME ParserInv, ScanInv, TextInv, Reduce, TopSym = "]",
         NEW type, NEW cs, Len(cs) \in {1, 2}, cs[1] \in DOMAIN nodes, nodes[cs[1]].type = "SYMBOL",
         nodes' = NewBlock(type, cs),
         NEW m \in 0..Height, stack' = Reduced(m, "block", Len(nodes) + 1)
  PROVE  TextInv'
<1> DEFINE n == [type |-> type, text |-> NoText, childs |-> cs]
           new == Len(nodes) + 1
<1>1. StackInv /\ Tree(nodes) /\ TreeApart(nodes)
  BY DEF ParserInv, TextInv
<1>2. token' = NoToken
  <2>1. Top(stack) \notin Receptive
    BY SymIsSymIn DEF Receptive
  <2> QED
    BY <2>1, ReductionWaits
<1>3. nodes' = Append(nodes, n) /\ n.childs = cs
  BY DEF NewBlock
<1> HIDE DEF n, new
<1>4. nodes'[cs[1]].type = "SYMBOL"
  BY <1>1, <1>3 DEF Tree
<1>5. FewChilds(nodes', n.childs)
  BY <1>3, <1>4 DEF FewChilds
<1>6. TreeApart(nodes')
  BY <1>1, <1>3, <1>5, AppendApart
<1>7. Top(stack') = "block"
  BY <1>1, ReducedTop DEF new
<1> QED
  BY <1>2, <1>6, <1>7, QuietTexts

\* block: '[' symbol ':' args ']'
LEMMA AssignmentTexts ==
  ASSUME ParserInv, ScanInv, TextInv, ReduceAssignment
  PROVE  TextInv'
<1>1. Height \in Nat
  BY DEF ParserInv, StackInv, Height
<1>2. /\ Reduce /\ TopSym = "]" /\ Sym(Height - 2) = ":"
      /\ nodes' = NewBlock("ASSIGNMENT", <<Node(Height - 3), Node(Height - 1)>>)
      /\ stack' = Reduced(5, "block", Len(nodes) + 1)
  BY DEF ReduceAssignment
<1>3. Sym(Height - 3) = "symbol"
  <2>1. Height - 2 \in Int /\ (Height - 2) - 1 = Height - 3
    BY <1>1
  <2> QED
    BY <1>2, <2>1, NamesAndLists
<1>4. /\ Sym(Height - 4) = "["
      /\ Node(Height - 3) \in DOMAIN nodes /\ nodes[Node(Height - 3)].type = "SYMBOL"
  <2>1. Height - 3 \in Int /\ (Height - 3) - 1 = Height - 4
    BY <1>1
  <2> QED
    BY <1>3, <2>1, NamesAndLists
<1>5. 5 \in 0..Height
  <2>1. Height - 4 \in 1..Height
    BY <1>1, <1>4, NamesAndLists
  <2> QED
    BY <1>1, <2>1
<1> DEFINE cs == <<Node(Height - 3), Node(Height - 1)>>
<1>6. Len(cs) \in {1, 2} /\ cs[1] = Node(Height - 3)
  OBVIOUS
<1>7. nodes' = NewBlock("ASSIGNMENT", cs)
  BY <1>2
<1> HIDE DEF cs
<1>8. cs[1] \in DOMAIN nodes /\ nodes[cs[1]].type = "SYMBOL"
  BY <1>4, <1>6
<1> QED
  BY <1>2, <1>5, <1>6, <1>7, <1>8, BlockTexts

\* block: '[' symbol args ']'
LEMMA CallWithArgsTexts ==
  ASSUME ParserInv, ScanInv, TextInv, ReduceCallWithArgs
  PROVE  TextInv'
<1>1. Height \in Nat
  BY DEF ParserInv, StackInv, Height
<1>2. /\ Reduce /\ TopSym = "]" /\ Sym(Height - 2) = "symbol"
      /\ nodes' = NewBlock("CALL", <<Node(Height - 2), Node(Height - 1)>>)
      /\ stack' = Reduced(4, "block", Len(nodes) + 1)
  BY DEF ReduceCallWithArgs
<1>3. /\ Sym(Height - 3) = "["
      /\ Node(Height - 2) \in DOMAIN nodes /\ nodes[Node(Height - 2)].type = "SYMBOL"
  <2>1. Height - 2 \in Int /\ (Height - 2) - 1 = Height - 3
    BY <1>1
  <2> QED
    BY <1>2, <2>1, NamesAndLists
<1>4. 4 \in 0..Height
  <2>1. Height - 3 \in 1..Height
    BY <1>1, <1>3, NamesAndLists
  <2> QED
    BY <1>1, <2>1
<1> DEFINE cs == <<Node(Height - 2), Node(Height - 1)>>
<1>5. Len(cs) \in {1, 2} /\ cs[1] = Node(Height - 2)
  OBVIOUS
<1>6. nodes' = NewBlock("CALL", cs)
  BY <1>2
<1> HIDE DEF cs
<1>7. cs[1] \in DOMAIN nodes /\ nodes[cs[1]].type = "SYMBOL"
  BY <1>3, <1>5
<1> QED
  BY <1>2, <1>4, <1>5, <1>6, <1>7, BlockTexts

\* block: '[' symbol ']'
LEMMA CallTexts ==
  ASSUME ParserInv, ScanInv, TextInv, ReduceCall
  PROVE  TextInv'
<1>1. Height \in Nat
  BY DEF ParserInv, StackInv, Height
<1>2. /\ Reduce /\ TopSym = "]" /\ Sym(Height - 1) = "symbol"
      /\ nodes' = NewBlock("CALL", <<Node(Height - 1)>>)
      /\ stack' = Reduced(3, "block", Len(nodes) + 1)
  BY DEF ReduceCall
<1>3. /\ Sym(Height - 2) = "["
      /\ Node(Height - 1) \in DOMAIN nodes /\ nodes[Node(Height - 1)].type = "SYMBOL"
  <2>1. Height - 1 \in Int /\ (Height - 1) - 1 = Height - 2
    BY <1>1
  <2> QED
    BY <1>2, <2>1, NamesAndLists
<1>4. 3 \in 0..Height
  <2>1. Height - 2 \in 1..Height
    BY <1>1, <1>3, NamesAndLists
  <2> QED
    BY <1>1, <2>1
<1> DEFINE cs == <<Node(Height - 1)>>
<1>5. Len(cs) \in {1, 2} /\ cs[1] = Node(Height - 1)
  OBVIOUS
<1>6. nodes' = NewBlock("CALL", cs)
  BY <1>2
<1> HIDE DEF cs
<1>7. cs[1] \in DOMAIN nodes /\ nodes[cs[1]].type = "SYMBOL"
  BY <1>3, <1>5
<1> QED
  BY <1>2, <1>4, <1>5, <1>6, <1>7, BlockTexts

\* Every step of the reader keeps the texts apart
LEMMA NextTexts ==
  ASSUME IInv, ScanInv, TextInv, [Next]_vars
  PROVE  TextInv'
<1>1. ParserInv
  BY DEF IInv
<1>2. CASE ReadToken
  BY <1>1, <1>2, ReadTokenTexts
<1>3. CASE Shift
  BY <1>1, <1>3, ShiftTexts
<1>4. CASE UNCHANGED <<source, conds, token, nodes, stack>>
  <2>1. Ended' <=> Ended
    BY <1>4, SameEnded
  <2> QED
    BY <1>4, <2>1 DEF TextInv
<1>5. Accept \/ SyntaxError \/ UNCHANGED vars \/ Returned => UNCHANGED <<source, conds, token, nodes, stack>>
  BY DEF Accept, SyntaxError, Returned, vars, lexVars, parserVars
<1>6. CASE ReduceEmptyProgram
  BY <1>1, <1>6, EmptyProgramTexts
<1>7. CASE ReduceAppendChild
  BY <1>1, <1>7, AppendChildTexts
<1>8. CASE ReduceFirstArg \/ ReduceComputedName
  BY <1>1, <1>8, WrapStepsTexts
<1>9. CASE ReduceArgsChild
  BY <1>1, <1>9, ArgsChildTexts
<1>10. CASE ReduceName
  BY <1>1, <1>10, NameTexts
<1>11. CASE ReduceAssignment
  BY <1>1, <1>11, AssignmentTexts
<1>12. CASE ReduceCallWithArgs
  BY <1>1, <1>12, CallWithArgsTexts
<1>13. CASE ReduceCall
  BY <1>1, <1>13, CallTexts
<1> QED
  BY <1>2, <1>3, <1>4, <1>5, <1>6, <1>7, <1>8, <1>9, <1>10, <1>11, <1>12, <1>13, Zenon
  DEF Next, ParseStep

(* Two texts are never neighbours among the children of a node, whatever the   *)
(* source: escapes, half-begun marks and blanks do not break a text in two,    *)
(* which is what libvinumc.h promises of the text buffer.                      *)
THEOREM TextsApart == Spec => []NoAdjacentText
<1>1. Init => TextInv
  <2> SUFFICES ASSUME Init PROVE TextInv
    OBVIOUS
  <2>1. nodes = <<>> /\ stack = <<>> /\ token = NoToken
    BY DEF Init, ParserInit
  <2>2. Top(stack) = "bottom"
    BY <2>1 DEF Top, SymIn
  <2> QED
    BY <2>1, <2>2 DEF TextInv, TreeApart, ListEndsInText, Top, NoToken
<1>2. IInv /\ ScanInv /\ TextInv /\ [Next]_vars => TextInv'
  BY NextTexts
<1>3. TextInv => NoAdjacentText
  BY DEF TextInv, TreeApart, NodeApart, NoAdjacentText, NodeIds
<1> QED
  BY <1>1, <1>2, <1>3, Invariant, ScanAlways, PTL DEF Spec
-----------------------------------------------------------------------------
(* What the tree says.  FlattenSeq of the community modules puts sequences     *)
(* together by a recursive function: what it does with one more of them.       *)

\* The function of FlattenSeq, up to n
FlatTo(f, ss, n) == f = [i \in 1..n |-> IF i = 1 THEN ss[i] ELSE f[i - 1] \o ss[i]]

\* There is one
LEMMA FlatExists ==
  ASSUME NEW ss, NEW n \in Nat
  PROVE  \E f : FlatTo(f, ss, n)
<1> DEFINE Bad == {m \in Nat : ~ \E f : FlatTo(f, ss, m)}
<1>1. SUFFICES Bad = {}
  OBVIOUS
<1>2. SUFFICES ASSUME Bad # {} PROVE FALSE
  OBVIOUS
<1> DEFINE m == Min(Bad)
<1>3. m \in Bad /\ \A y \in Bad : m <= y
  BY <1>2, MinFacts
<1> HIDE DEF m
<1>4. m \in Nat /\ ~ \E f : FlatTo(f, ss, m)
  BY <1>3
<1>5. CASE m = 0
  <2> DEFINE f == [i \in 1..0 |-> ss[i]]
  <2>1. DOMAIN f = {} /\ 1..m = {}
    BY <1>5
  <2>2. f = [i \in 1..m |-> IF i = 1 THEN ss[i] ELSE f[i - 1] \o ss[i]]
    BY <2>1
  <2> QED
    BY <1>4, <2>2 DEF FlatTo
<1>6. CASE m # 0
  <2>1. m - 1 \in Nat /\ m - 1 \notin Bad
    BY <1>3, <1>4, <1>6
  <2>2. PICK f : FlatTo(f, ss, m - 1)
    BY <2>1
  <2> DEFINE g == [k \in 1..m |-> IF k = m THEN IF m = 1 THEN ss[1] ELSE f[m - 1] \o ss[m] ELSE f[k]]
  <2>3. \A k \in 1..m : g[k] = IF k = 1 THEN ss[k] ELSE g[k - 1] \o ss[k]
    <3> TAKE k \in 1..m
    <3>1. CASE k = m
      BY <1>4, <1>6, <3>1
    <3>2. CASE k # m
      <4>1. k \in 1..(m - 1) /\ g[k] = f[k]
        BY <1>4, <3>2
      <4>2. f[k] = IF k = 1 THEN ss[k] ELSE f[k - 1] \o ss[k]
        BY <2>2, <4>1 DEF FlatTo
      <4>3. k # 1 => k - 1 \in 1..m /\ k - 1 # m /\ g[k - 1] = f[k - 1]
        BY <1>4, <4>1
      <4> QED
        BY <4>1, <4>2, <4>3
    <3> QED
      BY <3>1, <3>2
  <2>4. g = [k \in 1..m |-> g[k]]
    OBVIOUS
  <2> HIDE DEF g
  <2>5. FlatTo(g, ss, m)
    BY <2>3, <2>4 DEF FlatTo
  <2> QED
    BY <1>4, <2>5
<1> QED
  BY <1>5, <1>6

\* FlattenSeq is its last value
LEMMA FlatIs ==
  ASSUME NEW ss, NEW n \in Nat, Len(ss) = n, n # 0
  PROVE  \E f : FlatTo(f, ss, n) /\ FlattenSeq(ss) = f[n]
<1> DEFINE f == CHOOSE g : FlatTo(g, ss, n)
<1>1. FlatTo(f, ss, n)
  BY FlatExists
<1>2. FlattenSeq(ss) = f[n]
  BY DEF FlattenSeq, FlatTo
<1> QED
  BY <1>1, <1>2

\* f and g agree up to n
SameTo(f, g, n) == \A k \in 1..n : f[k] = g[k]

\* Concatenations can be regrouped
Regroups(S) == \A s, t, u \in Seq(S) : (s \o t) \o u = s \o (t \o u)

\* Three texts can be grouped either way, as a fact of a name
LEMMA Regroup == ASSUME NEW S PROVE Regroups(S)
  BY ConcatAssociative DEF Regroups

\* The functions of two lists agree where the lists do
LEMMA FlatAgree ==
  ASSUME NEW ss, NEW ts, NEW n \in Nat, NEW m \in Nat, n <= m,
         SameTo(ss, ts, n),
         NEW f, FlatTo(f, ss, n), NEW g, FlatTo(g, ts, m)
  PROVE  SameTo(f, g, n)
<1> DEFINE Bad == {k \in 1..n : f[k] # g[k]}
<1>1. SUFFICES ASSUME Bad # {} PROVE FALSE
  BY DEF SameTo
<1>2. Bad \in SUBSET Nat
  OBVIOUS
<1> DEFINE b == Min(Bad)
<1>3. b \in Bad /\ \A y \in Bad : b <= y
  BY <1>1, <1>2, MinFacts
<1> HIDE DEF b
<1>4. b \in 1..n /\ b \in 1..m /\ f[b] # g[b] /\ ss[b] = ts[b]
  BY <1>3 DEF SameTo
<1>5. f[b] = IF b = 1 THEN ss[b] ELSE f[b - 1] \o ss[b]
  BY <1>4 DEF FlatTo
<1>6. g[b] = IF b = 1 THEN ts[b] ELSE g[b - 1] \o ts[b]
  BY <1>4 DEF FlatTo
<1>7. b # 1 => b - 1 \in 1..n /\ b - 1 \notin Bad
  BY <1>3, <1>4
<1> QED
  BY <1>4, <1>5, <1>6, <1>7

\* Every value of it is a sequence
LEMMA FlatValues ==
  ASSUME NEW S, NEW ss \in Seq(Seq(S)), NEW f, FlatTo(f, ss, Len(ss))
  PROVE  \A k \in 1..Len(ss) : f[k] \in Seq(S)
<1> DEFINE Bad == {k \in 1..Len(ss) : f[k] \notin Seq(S)}
<1>1. SUFFICES ASSUME Bad # {} PROVE FALSE
  OBVIOUS
<1>2. Bad \in SUBSET Nat /\ Len(ss) \in Nat
  OBVIOUS
<1> DEFINE b == Min(Bad)
<1>3. b \in Bad /\ \A y \in Bad : b <= y
  BY <1>1, <1>2, MinFacts
<1> HIDE DEF b
<1>4. b \in 1..Len(ss) /\ f[b] \notin Seq(S) /\ ss[b] \in Seq(S)
  BY <1>3, ElementOfSeq
<1>5. f[b] = IF b = 1 THEN ss[b] ELSE f[b - 1] \o ss[b]
  BY <1>4 DEF FlatTo
<1>6. b # 1 => b - 1 \in 1..Len(ss) /\ b - 1 \notin Bad
  BY <1>2, <1>3, <1>4
<1>7. b # 1 => f[b - 1] \in Seq(S)
  BY <1>6
<1>8. b # 1 => f[b - 1] \o ss[b] \in Seq(S)
  BY <1>4, <1>7, ConcatProperties
<1> QED
  BY <1>4, <1>5, <1>8

\* What it puts together is a sequence
LEMMA FlattenType ==
  ASSUME NEW S, NEW ss \in Seq(Seq(S))
  PROVE  FlattenSeq(ss) \in Seq(S)
<1>1. CASE Len(ss) = 0
  <2>1. FlattenSeq(ss) = <<>>
    BY <1>1, EmptySeq DEF FlattenSeq
  <2> QED
    BY <2>1, EmptySeq
<1>2. CASE Len(ss) # 0
  <2>1. Len(ss) \in Nat
    OBVIOUS
  <2>2. PICK f : FlatTo(f, ss, Len(ss)) /\ FlattenSeq(ss) = f[Len(ss)]
    BY <1>2, <2>1, FlatIs
  <2> QED
    BY <1>2, <2>1, <2>2, FlatValues
<1> QED
  BY <1>1, <1>2

\* Of no sequences
LEMMA FlattenNone == FlattenSeq(<<>>) = <<>>
  BY DEF FlattenSeq

\* One more sequence comes at the end
LEMMA FlattenAppend ==
  ASSUME NEW S, NEW ss \in Seq(Seq(S)), NEW s \in Seq(S)
  PROVE  FlattenSeq(Append(ss, s)) = FlattenSeq(ss) \o s
<1> DEFINE n == Len(ss)
           ts == Append(ss, s)
<1>1. n \in Nat /\ ts \in Seq(Seq(S)) /\ Len(ts) = n + 1 /\ ts[n + 1] = s
      /\ \A i \in 1..n : ss[i] = ts[i]
  BY AppendProperties
<1> HIDE DEF ts
<1>2. PICK g : FlatTo(g, ts, n + 1) /\ FlattenSeq(ts) = g[n + 1]
  BY <1>1, FlatIs
<1>3. g[n + 1] = IF n + 1 = 1 THEN ts[n + 1] ELSE g[n] \o ts[n + 1]
  <2>1. n + 1 \in 1..(n + 1) /\ (n + 1) - 1 = n
    BY <1>1
  <2> HIDE DEF n
  <2> QED
    BY <1>2, <2>1 DEF FlatTo
<1>4. CASE n = 0
  <2>1. ss = <<>> /\ FlattenSeq(ss) = <<>>
    BY <1>4, EmptySeq, FlattenNone
  <2>2. FlattenSeq(ts) = s
    BY <1>1, <1>2, <1>3, <1>4
  <2> QED
    BY <2>1, <2>2, ConcatEmptySeq DEF ts
<1>5. CASE n # 0
  <2>1. PICK f : FlatTo(f, ss, n) /\ FlattenSeq(ss) = f[n]
    BY <1>1, <1>5, FlatIs
  <2>2. n \in Nat /\ n \in 1..n /\ n <= n + 1 /\ n + 1 \in Nat
    BY <1>1, <1>5
  <2> HIDE DEF n
  <2>3. FlatTo(f, ss, n) /\ FlatTo(g, ts, n + 1) /\ \A i \in 1..n : ss[i] = ts[i]
    BY <1>1, <1>2, <2>1
  <2>4. SameTo(f, g, n)
    <3>1. SameTo(ss, ts, n)
      BY <2>3 DEF SameTo
    <3> QED
      BY <2>2, <2>3, <3>1, FlatAgree
  <2>5. f[n] = g[n]
    BY <2>2, <2>4 DEF SameTo
  <2>6. FlattenSeq(ts) = g[n] \o s
    BY <1>1, <1>2, <1>3, <1>5
  <2> QED
    BY <2>1, <2>5, <2>6 DEF ts
<1> QED
  BY <1>4, <1>5

\* Of one
LEMMA FlattenOne ==
  ASSUME NEW S, NEW s \in Seq(S)
  PROVE  FlattenSeq(<<s>>) = s
<1>1. <<>> \in Seq(Seq(S)) /\ Append(<<>>, s) = <<s>>
  OBVIOUS
<1>2. FlattenSeq(<<s>>) = <<>> \o s
  BY <1>1, FlattenAppend, FlattenNone
<1> QED
  BY <1>2, ConcatEmptySeq

\* The last sequence of a list comes at the end
LEMMA FlattenLast ==
  ASSUME NEW S, NEW ss \in Seq(Seq(S)), NEW n \in Nat, Len(ss) = n + 1
  PROVE  /\ SubSeq(ss, 1, n) \in Seq(Seq(S)) /\ Len(SubSeq(ss, 1, n)) = n
         /\ \A i \in 1..n : SubSeq(ss, 1, n)[i] = ss[i]
         /\ FlattenSeq(ss) = FlattenSeq(SubSeq(ss, 1, n)) \o ss[n + 1]
<1> DEFINE ts == SubSeq(ss, 1, n)
<1>1. \A i \in 1..n : ss[i] \in Seq(S)
  OBVIOUS
<1>2. ts \in Seq(Seq(S)) /\ Len(ts) = n /\ \A i \in 1..n : ts[i] = ss[i]
  OBVIOUS
<1>3. n + 1 \in 1..Len(ss) /\ ss[n + 1] \in Seq(S)
  OBVIOUS
<1> HIDE DEF ts
<1>4. Append(ts, ss[n + 1]) = ss
  <2> DEFINE us == Append(ts, ss[n + 1])
  <2>1. us \in Seq(Seq(S)) /\ Len(us) = n + 1 /\ us[n + 1] = ss[n + 1]
        /\ \A i \in 1..n : us[i] = ts[i]
    BY <1>2, <1>3, AppendProperties
  <2> HIDE DEF us
  <2>2. \A i \in 1..Len(us) : us[i] = ss[i]
    BY <1>2, <2>1
  <2>3. us = ss
    BY <2>1, <2>2, SeqEqual
  <2> QED
    BY <2>3 DEF us
<1>5. FlattenSeq(ss) = FlattenSeq(ts) \o ss[n + 1]
  BY <1>2, <1>3, <1>4, FlattenAppend
<1> QED
  BY <1>2, <1>5 DEF ts

\* Two lists, one after the other
LEMMA FlattenConcat ==
  ASSUME NEW S, NEW ss \in Seq(Seq(S)), NEW ts \in Seq(Seq(S))
  PROVE  FlattenSeq(ss \o ts) = FlattenSeq(ss) \o FlattenSeq(ts)
<1> DEFINE Is(us) == FlattenSeq(ss \o us) = FlattenSeq(ss) \o FlattenSeq(us)
           Bad == {n \in Nat : \E us \in Seq(Seq(S)) : Len(us) = n /\ ~ Is(us)}
<1>1. SUFFICES ASSUME Bad # {} PROVE FALSE
  <2>1. Bad = {} => Is(ts)
    <3>1. Len(ts) \in Nat
      OBVIOUS
    <3> HIDE DEF Is
    <3> QED
      BY <3>1
  <2> QED
    BY <2>1
<1> DEFINE b == Min(Bad)
<1>2. b \in Bad /\ \A y \in Bad : b <= y
  BY <1>1, MinFacts
<1> HIDE DEF b, Is
<1>3. b \in Nat
  BY <1>2
<1>4. PICK us \in Seq(Seq(S)) : Len(us) = b /\ ~ Is(us)
  BY <1>2
<1>5. FlattenSeq(ss) \in Seq(S)
  BY FlattenType
<1>6. CASE b = 0
  <2>1. us = <<>>
    BY <1>4, <1>6, EmptySeq
  <2>2. ss \o us = ss /\ FlattenSeq(us) = <<>>
    BY <2>1, ConcatEmptySeq, FlattenNone
  <2>3. FlattenSeq(ss) \o FlattenSeq(us) = FlattenSeq(ss)
    BY <1>5, <2>2, ConcatEmptySeq
  <2> QED
    BY <1>4, <2>2, <2>3 DEF Is
<1>7. CASE b # 0
  <2> DEFINE n == b - 1
             vs == SubSeq(us, 1, n)
  <2>0. n \notin Bad
    BY <1>2, <1>3, <1>7
  <2>1. n \in Nat /\ Len(us) = n + 1
    BY <1>3, <1>4, <1>7
  <2> HIDE DEF n
  <2>2. vs \in Seq(Seq(S)) /\ Len(vs) = n
        /\ (\A i \in 1..n : vs[i] = us[i])
        /\ FlattenSeq(us) = FlattenSeq(vs) \o us[n + 1]
    BY <2>1, FlattenLast
  <2> HIDE DEF vs
  <2>3. Is(vs)
    BY <2>0, <2>1, <2>2
  <2>4. us[n + 1] \in Seq(S)
    BY <2>1, ElementOfSeq
  <2>5. FlattenSeq(vs) \in Seq(S) /\ ss \o vs \in Seq(Seq(S))
    BY <2>2, FlattenType, ConcatProperties
  <2>6. ss \o us = Append(ss \o vs, us[n + 1])
    <3>1. us = Append(vs, us[n + 1])
      <4> DEFINE ws == Append(vs, us[n + 1])
      <4>1. ws \in Seq(Seq(S)) /\ Len(ws) = n + 1 /\ ws[n + 1] = us[n + 1]
            /\ \A i \in 1..n : ws[i] = vs[i]
        BY <2>2, <2>4, AppendProperties
      <4> HIDE DEF ws
      <4>2. \A i \in 1..Len(us) : us[i] = ws[i]
        <5> TAKE i \in 1..Len(us)
        <5>1. i \in 1..n \/ i = n + 1
          BY <2>1
        <5> QED
          BY <2>2, <4>1, <5>1
      <4>3. us = ws
        BY <2>1, <4>1, <4>2, SeqEqual
      <4> QED
        BY <4>3 DEF ws
    <3> DEFINE one == <<us[n + 1]>>
    <3>2. us = vs \o one
      BY <2>2, <2>4, <3>1, AppendIsConcat
    <3>3. one \in Seq(Seq(S)) /\ vs \in Seq(Seq(S))
      BY <2>2, <2>4
    <3>4. Append(ss \o vs, us[n + 1]) = (ss \o vs) \o one
      BY <2>4, <2>5, AppendIsConcat
    <3>5. Regroups(Seq(S))
      BY Regroup
    <3> HIDE DEF one
    <3>6. (ss \o vs) \o one = ss \o (vs \o one)
      BY <3>3, <3>5, Zenon DEF Regroups
    <3> QED
      BY <3>2, <3>4, <3>6, Zenon
  <2>7. FlattenSeq(ss \o us) = FlattenSeq(ss \o vs) \o us[n + 1]
    BY <2>4, <2>5, <2>6, FlattenAppend
  <2>8. (FlattenSeq(ss) \o FlattenSeq(vs)) \o us[n + 1]
          = FlattenSeq(ss) \o (FlattenSeq(vs) \o us[n + 1])
    <3>1. Regroups(S)
      BY Regroup
    <3> QED
      BY <1>5, <2>4, <2>5, <3>1, Zenon DEF Regroups
  <2> QED
    BY <1>4, <2>2, <2>3, <2>7, <2>8 DEF Is
<1> QED
  BY <1>6, <1>7

-----------------------------------------------------------------------------
(* The text of a part of the source or of the tree, without the markup.        *)

Letters == Characters \union {"$", "*"}

KeptOf(s, markup) == [i \in DOMAIN s |-> Kept(s[i], markup)]

\* What is kept of a letter is a text
LEMMA KeptType ==
  ASSUME NEW c \in Letters, NEW markup
  PROVE  Kept(c, markup) \in Seq(Letters)
<1>1. ToLower(c) \in Letters
  <2>1. CASE c \in Characters
    BY <2>1, CharactersAssumption DEF Letters
  <2>2. CASE c \in {"$", "*"}
    BY <2>2 DEF Letters, ToLower
  <2> QED
    BY <2>1, <2>2 DEF Letters
<1> QED
  BY <1>1 DEF Kept

\* What is kept of the letters of a text, letter by letter
LEMMA KeptOfType ==
  ASSUME NEW s \in Seq(Letters), NEW markup
  PROVE  /\ KeptOf(s, markup) \in Seq(Seq(Letters))
         /\ Len(KeptOf(s, markup)) = Len(s)
         /\ \A i \in 1..Len(s) : KeptOf(s, markup)[i] = Kept(s[i], markup)
         /\ Bare(s, markup) = FlattenSeq(KeptOf(s, markup))
<1>1. Len(s) \in Nat /\ DOMAIN s = 1..Len(s)
  OBVIOUS
<1>2. \A i \in 1..Len(s) : Kept(s[i], markup) \in Seq(Letters)
  BY KeptType
<1>3. KeptOf(s, markup) = [i \in 1..Len(s) |-> Kept(s[i], markup)]
  BY <1>1 DEF KeptOf
<1>4. KeptOf(s, markup) \in Seq(Seq(Letters))
  BY <1>1, <1>2, <1>3
<1>5. Len(KeptOf(s, markup)) = Len(s)
  BY <1>1, <1>3
<1>6. Bare(s, markup) = FlattenSeq(KeptOf(s, markup))
  BY DEF Bare, KeptOf
<1> QED
  BY <1>3, <1>4, <1>5, <1>6

\* A text without its markup is a text
LEMMA BareType ==
  ASSUME NEW s \in Seq(Letters), NEW markup
  PROVE  Bare(s, markup) \in Seq(Letters)
  BY KeptOfType, FlattenType

\* Nothing of the empty text
LEMMA BareNone == ASSUME NEW markup PROVE Bare(<<>>, markup) = <<>>
<1>1. KeptOf(<<>>, markup) = <<>>
  BY DEF KeptOf
<1> QED
  BY <1>1, FlattenNone DEF Bare, KeptOf

\* A text and one after it
LEMMA BareConcat ==
  ASSUME NEW s \in Seq(Letters), NEW t \in Seq(Letters), NEW markup
  PROVE  Bare(s \o t, markup) = Bare(s, markup) \o Bare(t, markup)
<1> DEFINE u  == s \o t
           ks == KeptOf(s, markup)
           kt == KeptOf(t, markup)
           ku == KeptOf(u, markup)
           S  == Seq(Letters)
<1>1. u \in Seq(Letters) /\ Len(u) = Len(s) + Len(t)
  BY ConcatProperties
<1>2. \A i \in 1..Len(u) : u[i] = IF i <= Len(s) THEN s[i] ELSE t[i - Len(s)]
  BY <1>1, ConcatProperties
<1> HIDE DEF u
<1>3. ks \in Seq(S) /\ Len(ks) = Len(s) /\ \A i \in 1..Len(s) : ks[i] = Kept(s[i], markup)
  BY KeptOfType
<1>4. kt \in Seq(S) /\ Len(kt) = Len(t) /\ \A i \in 1..Len(t) : kt[i] = Kept(t[i], markup)
  BY KeptOfType
<1>5. ku \in Seq(S) /\ Len(ku) = Len(u) /\ \A i \in 1..Len(u) : ku[i] = Kept(u[i], markup)
  BY <1>1, KeptOfType
<1> HIDE DEF ks, kt, ku, S
<1>6. ks \o kt \in Seq(S) /\ Len(ks \o kt) = Len(s) + Len(t)
      /\ \A i \in 1..(Len(s) + Len(t)) : (ks \o kt)[i] = IF i <= Len(s) THEN ks[i] ELSE kt[i - Len(s)]
  <2>1. ks \in Seq(S) /\ kt \in Seq(S)
    BY <1>3, <1>4
  <2>2. ks \o kt \in Seq(S) /\ Len(ks \o kt) = Len(ks) + Len(kt)
        /\ \A i \in 1..(Len(ks) + Len(kt)) :
             (ks \o kt)[i] = IF i <= Len(ks) THEN ks[i] ELSE kt[i - Len(ks)]
    BY <2>1, ConcatProperties
  <2> QED
    BY <1>3, <1>4, <2>2
<1>7. \A i \in 1..Len(ku) : ku[i] = (ks \o kt)[i]
  <2> TAKE i \in 1..Len(ku)
  <2>1. i \in 1..(Len(s) + Len(t)) /\ Len(s) \in Nat /\ Len(t) \in Nat
    BY <1>1, <1>5
  <2>2. CASE i <= Len(s)
    <3>1. u[i] = s[i] /\ i \in 1..Len(s) /\ (ks \o kt)[i] = ks[i]
      BY <1>1, <1>2, <1>6, <2>1, <2>2
    <3> QED
      BY <1>3, <1>5, <3>1
  <2>3. CASE ~ i <= Len(s)
    <3>1. u[i] = t[i - Len(s)] /\ i - Len(s) \in 1..Len(t) /\ (ks \o kt)[i] = kt[i - Len(s)]
      BY <1>1, <1>2, <1>6, <2>1, <2>3
    <3> QED
      BY <1>4, <1>5, <3>1
  <2> QED
    BY <2>2, <2>3
<1>8. ku = ks \o kt
  BY <1>1, <1>5, <1>6, <1>7, SeqEqual
<1>9. ks \in Seq(Seq(Letters)) /\ kt \in Seq(Seq(Letters))
  BY <1>3, <1>4 DEF S
<1>10. FlattenSeq(ku) = FlattenSeq(ks) \o FlattenSeq(kt)
  BY <1>8, <1>9, FlattenConcat
<1>11. /\ Bare(s, markup) = FlattenSeq(ks)
       /\ Bare(t, markup) = FlattenSeq(kt)
       /\ Bare(u, markup) = FlattenSeq(ku)
  BY DEF Bare, ks, kt, ku, KeptOf
<1> QED
  BY <1>10, <1>11 DEF u

\* One character
LEMMA BareOne ==
  ASSUME NEW c \in Letters, NEW markup
  PROVE  Bare(<<c>>, markup) = Kept(c, markup)
<1>1. KeptOf(<<c>>, markup) = <<Kept(c, markup)>>
  BY DEF KeptOf
<1>2. Kept(c, markup) \in Seq(Letters)
  BY KeptType
<1>3. FlattenSeq(<<Kept(c, markup)>>) = Kept(c, markup)
  BY <1>2, FlattenOne
<1> QED
  BY <1>1, <1>3 DEF Bare, KeptOf

\* A text cut in two
LEMMA BareCut ==
  ASSUME NEW s \in Seq(Letters), NEW n \in 0..Len(s), NEW markup
  PROVE  /\ SubSeq(s, 1, n) \in Seq(Letters) /\ SubSeq(s, n + 1, Len(s)) \in Seq(Letters)
         /\ Bare(s, markup) = Bare(SubSeq(s, 1, n), markup) \o Bare(SubSeq(s, n + 1, Len(s)), markup)
<1> DEFINE l == SubSeq(s, 1, n)
           r == SubSeq(s, n + 1, Len(s))
<1>1. l \in Seq(Letters) /\ r \in Seq(Letters)
  OBVIOUS
<1>2. l \o r = s
  <2>1. 1 \in 1..(Len(s) + 1) /\ n \in (1 - 1)..Len(s) /\ Len(s) \in n..Len(s)
    OBVIOUS
  <2>2. l \o r = SubSeq(s, 1, Len(s))
    BY <2>1, ConcatAdjacentSubSeq
  <2> QED
    BY <2>2, SubSeqFull
<1> HIDE DEF l, r
<1>3. Bare(l \o r, markup) = Bare(l, markup) \o Bare(r, markup)
  BY <1>1, BareConcat
<1> QED
  BY <1>1, <1>2, <1>3 DEF l, r

\* Of the markup nothing is left
LEMMA BareMarkup ==
  ASSUME NEW s \in Seq(Letters), NEW markup, \A i \in 1..Len(s) : s[i] \in markup
  PROVE  Bare(s, markup) = <<>>
<1> DEFINE ks == KeptOf(s, markup)
<1>1. ks \in Seq(Seq(Letters)) /\ Len(ks) = Len(s) /\ Bare(s, markup) = FlattenSeq(ks)
  BY KeptOfType
<1>2. \A i \in 1..Len(s) : ks[i] = <<>>
  BY KeptOfType DEF Kept
<1> HIDE DEF ks
<1>3. CASE Len(ks) = 0
  BY <1>1, <1>3, EmptySeq, FlattenNone
<1>4. CASE Len(ks) # 0
  <2>1. Len(ks) \in Nat
    BY <1>1
  <2>2. PICK f : FlatTo(f, ks, Len(ks)) /\ FlattenSeq(ks) = f[Len(ks)]
    BY <1>4, <2>1, FlatIs
  <2> DEFINE Bad == {k \in 1..Len(ks) : f[k] # <<>>}
  <2>3. SUFFICES ASSUME Bad # {} PROVE FALSE
    BY <1>1, <1>4, <2>1, <2>2
  <2>4. Bad \in SUBSET Nat
    OBVIOUS
  <2> DEFINE b == Min(Bad)
  <2>5. b \in Bad /\ \A y \in Bad : b <= y
    BY <2>3, <2>4, MinFacts
  <2> HIDE DEF b
  <2>6. b \in 1..Len(ks) /\ f[b] # <<>> /\ ks[b] = <<>>
    BY <1>1, <1>2, <2>5
  <2>7. f[b] = IF b = 1 THEN ks[b] ELSE f[b - 1] \o ks[b]
    BY <2>2, <2>6 DEF FlatTo
  <2>8. b # 1 => b - 1 \in 1..Len(ks) /\ b - 1 \notin Bad
    BY <2>1, <2>5, <2>6
  <2>9. b # 1 => f[b - 1] = <<>>
    BY <2>8
  <2>10. <<>> \o <<>> = <<>>
    OBVIOUS
  <2> QED
    BY <2>6, <2>7, <2>9, <2>10
<1> QED
  BY <1>3, <1>4

-----------------------------------------------------------------------------
(* What the nodes say, and how that changes with the tree.                     *)

\* What the children cs say, f being what each node says
ListOf(f, cs) == [k \in DOMAIN cs |-> f[cs[k]]]

\* f is what each node of ns says
Spells(ns, f, markup) ==
  f = [id \in DOMAIN ns |-> Bare(Own(ns[id]), markup) \o FlattenSeq(ListOf(f, ns[id].childs))]

\* It is text
Textual(ns, f) == \A id \in DOMAIN ns : f[id] \in Seq(Letters)

\* What stands for a node at a place, or for none; and on the stack
Says(f, id)      == IF id = 0 THEN <<>> ELSE f[id]
StackSays(f, st) == FlattenSeq([k \in DOMAIN st |-> Says(f, st[k].node)])

(* The stack, the token tk and `rest`, one after the other, say all there is   *)
(* to say, however the nodes' texts are put together.                          *)
SaysAll(ns, f, st, tk, rest, all) ==
  /\ Textual(ns, f)
  /\ StackSays(f, st) \o (Says(f, tk) \o rest) = all

Spellable(ns, markup) == \E f : Spells(ns, f, markup)

Told(ns, st, tk, rest, markup, all) ==
  /\ Spellable(ns, markup)
  /\ \A f : Spells(ns, f, markup) => SaysAll(ns, f, st, tk, rest, all)

KeepsOwn(ns, ms) == \A id \in DOMAIN ns : Own(ms[id]) = Own(ns[id])

\* What an item of the stack or a token says is text
LEMMA SaysType ==
  ASSUME NEW ns, NEW f, Textual(ns, f), NEW id \in DOMAIN ns \union {0}
  PROVE  Says(f, id) \in Seq(Letters)
<1>1. CASE id = 0
  BY <1>1, EmptySeq DEF Says
<1>2. CASE id # 0
  BY <1>2 DEF Says, Textual
<1> QED
  BY <1>1, <1>2

\* The items of a stack hold nodes of ns, or none
OnNodes(ns, st) == \A k \in DOMAIN st : st[k].node \in DOMAIN ns \union {0}

\* What the stack says is a text
LEMMA StackTexts ==
  ASSUME NEW ns, NEW f, Textual(ns, f), NEW S, NEW st \in Seq(S), OnNodes(ns, st)
  PROVE  /\ [k \in DOMAIN st |-> Says(f, st[k].node)] \in Seq(Seq(Letters))
         /\ StackSays(f, st) \in Seq(Letters)
<1> DEFINE ss == [k \in DOMAIN st |-> Says(f, st[k].node)]
<1>1. \A k \in DOMAIN st : Says(f, st[k].node) \in Seq(Letters)
  BY SaysType DEF OnNodes
<1>2. DOMAIN st = 1..Len(st) /\ Len(st) \in Nat
  OBVIOUS
<1>3. ss \in [1..Len(st) -> Seq(Letters)]
  BY <1>1, <1>2
<1> HIDE DEF ss
<1>4. ss \in Seq(Seq(Letters))
  BY <1>2, <1>3
<1>5. FlattenSeq(ss) \in Seq(Letters)
  BY <1>4, FlattenType
<1> QED
  BY <1>4, <1>5 DEF StackSays, ss

\* A stack with one more item says what the item says too
LEMMA StackPushed ==
  ASSUME NEW ns, NEW f, Textual(ns, f), NEW S, NEW st \in Seq(S), OnNodes(ns, st),
         NEW x, x.node \in DOMAIN ns \union {0}
  PROVE  StackSays(f, Append(st, x)) = StackSays(f, st) \o Says(f, x.node)
<1> DEFINE ts == Append(st, x)
           ss == [k \in DOMAIN st |-> Says(f, st[k].node)]
           us == [k \in DOMAIN ts |-> Says(f, ts[k].node)]
           n  == Len(st)
           s  == Says(f, x.node)
<1>1. ts \in Seq(S \union {x}) /\ Len(ts) = n + 1 /\ n \in Nat
      /\ (\A i \in 1..n : ts[i] = st[i]) /\ ts[n + 1] = x /\ DOMAIN st = 1..n
  <2>1. st \in Seq(S \union {x}) /\ x \in S \union {x}
    OBVIOUS
  <2> QED
    BY <2>1, AppendProperties
<1>2. DOMAIN ts = 1..(n + 1)
  BY <1>1
<1>3. ss \in Seq(Seq(Letters)) /\ s \in Seq(Letters)
  BY StackTexts, SaysType
<1>4. Len(ss) = n
  BY <1>1
<1>5. us = Append(ss, s)
  <2> HIDE DEF ts
  <2> DEFINE vs == Append(ss, s)
  <2>1. \A k \in 1..n : ss[k] = Says(f, st[k].node)
    BY <1>1
  <2> HIDE DEF ss, s
  <2>2. vs \in Seq(Seq(Letters)) /\ Len(vs) = n + 1 /\ vs[n + 1] = s
        /\ \A k \in 1..n : vs[k] = ss[k]
    BY <1>3, <1>4, AppendProperties
  <2> HIDE DEF vs, n
  <2>3. DOMAIN vs = 1..(n + 1) /\ vs = [k \in 1..(n + 1) |-> vs[k]]
    BY <2>2
  <2>4. \A k \in 1..(n + 1) : Says(f, ts[k].node) = vs[k]
    <3> TAKE k \in 1..(n + 1)
    <3>1. CASE k = n + 1
      BY <1>1, <2>2, <3>1 DEF s, n
    <3>2. CASE k # n + 1
      <4>1. k \in 1..n
        BY <1>1, <3>2 DEF n
      <4> QED
        BY <1>1, <2>1, <2>2, <4>1 DEF n
    <3> QED
      BY <3>1, <3>2
  <2>5. us = [k \in 1..(n + 1) |-> vs[k]]
    BY <1>2, <2>4 DEF n
  <2> QED
    BY <2>3, <2>5 DEF vs
<1> HIDE DEF ss, us, s
<1>6. FlattenSeq(us) = FlattenSeq(ss) \o s
  BY <1>3, <1>5, FlattenAppend
<1> QED
  BY <1>6 DEF StackSays, ss, us, s

\* What item k adds to the items below it
NextSays(f, st, k) ==
  StackSays(f, SubSeq(st, 1, k)) = StackSays(f, SubSeq(st, 1, k - 1)) \o Says(f, st[k].node)

\* So does the stack up to the next item
LEMMA StackNext ==
  ASSUME NEW ns, NEW f, Textual(ns, f), NEW S, NEW st \in Seq(S), OnNodes(ns, st),
         NEW k \in 1..Len(st)
  PROVE  NextSays(f, st, k)
<1> DEFINE l == SubSeq(st, 1, k - 1)
<1>1. l \in Seq(S) /\ Len(l) = k - 1 /\ \A i \in 1..(k - 1) : l[i] = st[i]
  OBVIOUS
<1>2. SubSeq(st, 1, k) = l \o <<st[k]>>
  <2>1. 1 \in 1..Len(st) /\ k \in 1..Len(st)
    OBVIOUS
  <2> QED
    BY <2>1, SubSeqRecursiveSecond
<1>3. st[k] \in S /\ k \in DOMAIN st
  OBVIOUS
<1> HIDE DEF l
<1>4. SubSeq(st, 1, k) = Append(l, st[k])
  BY <1>1, <1>2, <1>3, AppendIsConcat
<1>5. OnNodes(ns, l)
  <2>1. \A i \in DOMAIN l : i \in 1..(k - 1) /\ i \in DOMAIN st
    BY <1>1
  <2> QED
    BY <1>1, <2>1 DEF OnNodes
<1>6. st[k].node \in DOMAIN ns \union {0}
  BY <1>3 DEF OnNodes
<1> DEFINE x == st[k]
<1> HIDE DEF x
<1>7. l \in Seq(S) /\ x.node \in DOMAIN ns \union {0}
  BY <1>1, <1>6 DEF x
<1>8. StackSays(f, Append(l, x)) = StackSays(f, l) \o Says(f, x.node)
  BY <1>5, <1>7, StackPushed
<1> QED
  BY <1>1, <1>4, <1>5, <1>8 DEF l, x, NextSays

\* f and g say the same of the nodes in ids
AgreeOn(ids, f, g) == \A id \in ids : f[id] = g[id]

\* What a stack says depends on its nodes only
LEMMA SameStack ==
  ASSUME NEW ns, NEW f, NEW g, AgreeOn(DOMAIN ns, f, g), NEW st, OnNodes(ns, st)
  PROVE  StackSays(f, st) = StackSays(g, st)
<1>1. \A k \in DOMAIN st : Says(f, st[k].node) = Says(g, st[k].node)
  BY DEF OnNodes, Says, AgreeOn
<1>2. [k \in DOMAIN st |-> Says(f, st[k].node)] = [k \in DOMAIN st |-> Says(g, st[k].node)]
  BY <1>1
<1> QED
  BY <1>2 DEF StackSays

\* What the children say is a list of texts
LEMMA ListTexted ==
  ASSUME NEW ns, NEW f, Textual(ns, f), NEW cs \in Seq(DOMAIN ns)
  PROVE  ListOf(f, cs) \in Seq(Seq(Letters)) /\ FlattenSeq(ListOf(f, cs)) \in Seq(Letters)
<1>1. DOMAIN cs = 1..Len(cs) /\ Len(cs) \in Nat
  OBVIOUS
<1>2. \A k \in 1..Len(cs) : f[cs[k]] \in Seq(Letters)
  BY DEF Textual
<1>3. ListOf(f, cs) \in [1..Len(cs) -> Seq(Letters)]
  BY <1>1, <1>2 DEF ListOf
<1>4. ListOf(f, cs) \in Seq(Seq(Letters))
  BY <1>1, <1>3
<1> QED
  BY <1>4, FlattenType

\* The children of every node are nodes
Rooted(ns) == \A id \in DOMAIN ns : \A k \in DOMAIN ns[id].childs : ns[id].childs[k] \in DOMAIN ns

Within(ns, cs) == \A k \in DOMAIN cs : cs[k] \in DOMAIN ns

\* g is as some text f of ns, with a new node that says own and what cs says
IsWithNew(ns, f, g, new, own, cs, markup) ==
  /\ Spells(ns, f, markup)
  /\ AgreeOn(DOMAIN ns, f, g)
  /\ g[new] = own \o FlattenSeq(ListOf(f, cs))

HasNew(ns, g, new, own, cs, markup) == \E f : IsWithNew(ns, f, g, new, own, cs, markup)

\* A new node says its own text and what its children say
LEMMA NewNodeSays ==
  ASSUME NEW ns, NEW ms, NEW new, NEW cs, Rooted(ns), Adds(ns, ms, new, cs), KeepsOwn(ns, ms),
         Within(ns, cs), NEW markup, NEW g, Spells(ms, g, markup)
  PROVE  HasNew(ns, g, new, Bare(Own(ms[new]), markup), cs, markup)
<1> DEFINE f == [id \in DOMAIN ns |-> g[id]]
<1>1. \A id \in DOMAIN ns : f[id] = g[id]
  OBVIOUS
<1>2. ASSUME NEW id \in DOMAIN ns
      PROVE  g[id] = Bare(Own(ns[id]), markup) \o FlattenSeq(ListOf(f, ns[id].childs))
  <2>1. id \in DOMAIN ms /\ ms[id].childs = ns[id].childs /\ Own(ms[id]) = Own(ns[id])
    BY DEF Adds, KeepsOwn
  <2>2. ListOf(g, ns[id].childs) = ListOf(f, ns[id].childs)
    BY <1>1 DEF ListOf, Rooted
  <2>3. g[id] = Bare(Own(ms[id]), markup) \o FlattenSeq(ListOf(g, ms[id].childs))
    BY <2>1 DEF Spells
  <2> QED
    BY <2>1, <2>2, <2>3
<1>3. g[new] = Bare(Own(ms[new]), markup) \o FlattenSeq(ListOf(f, cs))
  <2>1. new \in DOMAIN ms /\ ms[new].childs = cs
    BY DEF Adds
  <2>2. ListOf(g, cs) = ListOf(f, cs)
    BY <1>1 DEF ListOf, Within
  <2>3. g[new] = Bare(Own(ms[new]), markup) \o FlattenSeq(ListOf(g, ms[new].childs))
    BY <2>1 DEF Spells
  <2> QED
    BY <2>1, <2>2, <2>3
<1>4. f = [id \in DOMAIN ns |-> f[id]]
  OBVIOUS
<1> HIDE DEF f
<1>5. Spells(ns, f, markup)
  <2>1. \A id \in DOMAIN ns : f[id] = Bare(Own(ns[id]), markup) \o FlattenSeq(ListOf(f, ns[id].childs))
    BY <1>1, <1>2
  <2> QED
    BY <1>4, <2>1 DEF Spells
<1> QED
  BY <1>1, <1>3, <1>5 DEF HasNew, IsWithNew, AgreeOn

\* And there is such a text
LEMMA NewNodeSpelled ==
  ASSUME NEW ns, NEW ms, NEW new, NEW cs, Rooted(ns), Adds(ns, ms, new, cs), KeepsOwn(ns, ms),
         Within(ns, cs), NEW markup, Spellable(ns, markup)
  PROVE  Spellable(ms, markup)
<1> USE DEF Spellable
<1>0. PICK f : Spells(ns, f, markup)
  OBVIOUS
<1> DEFINE g == [id \in DOMAIN ms |-> IF id = new
                                      THEN Bare(Own(ms[new]), markup) \o FlattenSeq(ListOf(f, cs))
                                      ELSE f[id]]
<1>1. \A id \in DOMAIN ns : id \in DOMAIN ms /\ id # new /\ g[id] = f[id]
  BY DEF Adds
<1>2. ASSUME NEW id \in DOMAIN ns
      PROVE  g[id] = Bare(Own(ms[id]), markup) \o FlattenSeq(ListOf(g, ms[id].childs))
  <2>1. ms[id].childs = ns[id].childs /\ Own(ms[id]) = Own(ns[id])
    BY DEF Adds, KeepsOwn
  <2>2. ListOf(g, ns[id].childs) = ListOf(f, ns[id].childs)
    BY <1>1 DEF ListOf, Rooted
  <2>3. f[id] = Bare(Own(ns[id]), markup) \o FlattenSeq(ListOf(f, ns[id].childs))
    BY <1>0 DEF Spells
  <2> QED
    BY <1>1, <2>1, <2>2, <2>3
<1>3. g[new] = Bare(Own(ms[new]), markup) \o FlattenSeq(ListOf(g, ms[new].childs))
  <2>1. new \in DOMAIN ms /\ ms[new].childs = cs
    BY DEF Adds
  <2>2. ListOf(g, cs) = ListOf(f, cs)
    BY <1>1 DEF ListOf, Within
  <2>3. g[new] = Bare(Own(ms[new]), markup) \o FlattenSeq(ListOf(f, cs))
    BY <2>1
  <2> QED
    BY <2>1, <2>2, <2>3
<1>4. g = [id \in DOMAIN ms |-> g[id]]
  OBVIOUS
<1> HIDE DEF g
<1>5. \A id \in DOMAIN ms : g[id] = Bare(Own(ms[id]), markup) \o FlattenSeq(ListOf(g, ms[id].childs))
  BY <1>2, <1>3 DEF Adds
<1>6. Spells(ms, g, markup)
  BY <1>4, <1>5 DEF Spells
<1> QED
  BY <1>6

\* A list of children with one more
LEMMA ListGrown ==
  ASSUME NEW ns, NEW f, Textual(ns, f), NEW cs \in Seq(DOMAIN ns), NEW c \in DOMAIN ns,
         NEW own \in Seq(Letters)
  PROVE  own \o FlattenSeq(ListOf(f, Append(cs, c))) = (own \o FlattenSeq(ListOf(f, cs))) \o f[c]
<1> DEFINE n  == Len(cs)
           ds == Append(cs, c)
           l  == ListOf(f, cs)
           m  == ListOf(f, ds)
<1>1. /\ ds \in Seq(DOMAIN ns) /\ Len(ds) = n + 1 /\ ds[n + 1] = c
      /\ \A k \in 1..n : ds[k] = cs[k]
  BY AppendProperties
<1>2. n \in Nat
  OBVIOUS
<1> HIDE DEF ds
<1>3. l \in Seq(Seq(Letters)) /\ m \in Seq(Seq(Letters)) /\ f[c] \in Seq(Letters)
  BY <1>1, ListTexted DEF Textual
<1>4. Len(l) = n /\ \A k \in 1..n : l[k] = f[cs[k]]
  BY <1>2 DEF ListOf
<1>5. Len(m) = n + 1 /\ \A k \in 1..(n + 1) : m[k] = f[ds[k]]
  BY <1>1, <1>2 DEF ListOf
<1> HIDE DEF l, m, n
<1>6. m = Append(l, f[c])
  <2> DEFINE v == Append(l, f[c])
  <2>1. v \in Seq(Seq(Letters)) /\ Len(v) = n + 1 /\ v[n + 1] = f[c] /\ \A k \in 1..n : v[k] = l[k]
    BY <1>3, <1>4, AppendProperties
  <2> HIDE DEF v
  <2>2. \A k \in 1..Len(m) : m[k] = v[k]
    <3> TAKE k \in 1..Len(m)
    <3>1. CASE k = n + 1
      BY <1>1, <1>2, <1>5, <2>1, <3>1
    <3>2. CASE k # n + 1
      <4>1. k \in 1..n /\ k \in 1..(n + 1)
        BY <1>2, <1>5, <3>2
      <4>2. m[k] = f[ds[k]] /\ v[k] = l[k]
        BY <1>5, <2>1, <4>1
      <4>3. ds[k] = cs[k] /\ l[k] = f[cs[k]]
        BY <1>1, <1>4, <4>1
      <4> QED
        BY <4>2, <4>3
    <3> QED
      BY <3>1, <3>2
  <2>3. m = v
    BY <1>3, <1>5, <2>1, <2>2, SeqEqual
  <2> QED
    BY <2>3 DEF v
<1>7. FlattenSeq(m) = FlattenSeq(l) \o f[c]
  BY <1>3, <1>6, FlattenAppend
<1>8. FlattenSeq(l) \in Seq(Letters)
  BY <1>3, FlattenType
<1>9. Regroups(Letters)
  BY Regroup
<1>10. (own \o FlattenSeq(l)) \o f[c] = own \o (FlattenSeq(l) \o f[c])
  BY <1>3, <1>8, <1>9, Zenon DEF Regroups
<1> QED
  BY <1>7, <1>10 DEF l, m, ds

\* The nodes of ns but p, whose own children grow by c, say in ms what they said
GrowsBy(ns, ms, p, c) ==
  /\ p \in DOMAIN ns /\ c \in DOMAIN ns /\ c # p
  /\ DOMAIN ms = DOMAIN ns
  /\ KeepsOwn(ns, ms)
  /\ \A id \in DOMAIN ns \ {p} : ms[id].childs = ns[id].childs
  /\ ns[p].childs \in Seq(DOMAIN ns)
  /\ ms[p].childs = Append(ns[p].childs, c)
  /\ Own(ns[p]) \in Seq(Letters)
  /\ Rooted(ns)
  /\ \A id \in DOMAIN ns : \A k \in DOMAIN ns[id].childs : ns[id].childs[k] # p

\* g is as some text f of ns, but for p, which also says what c says
IsWithMore(ns, f, g, p, c, markup) ==
  /\ Spells(ns, f, markup)
  /\ AgreeOn(DOMAIN ns \ {p}, f, g)
  /\ g[p] = f[p] \o f[c]

HasMore(ns, g, p, c, markup) == \E f : IsWithMore(ns, f, g, p, c, markup)

AllTextual(ns, markup) == \A f : Spells(ns, f, markup) => Textual(ns, f)

\* Where p is nobody's child, only what p says changes: by what c says
LEMMA GrownSays ==
  ASSUME NEW ns, NEW ms, NEW p, NEW c, GrowsBy(ns, ms, p, c), NEW markup,
         AllTextual(ns, markup), NEW g, Spells(ms, g, markup)
  PROVE  HasMore(ns, g, p, c, markup)
<1> DEFINE own == Bare(Own(ns[p]), markup)
           f == [id \in DOMAIN ns |-> IF id = p THEN own \o FlattenSeq(ListOf(g, ns[p].childs))
                                                ELSE g[id]]
<1>0. p \in DOMAIN ns /\ c \in DOMAIN ns \ {p} /\ DOMAIN ms = DOMAIN ns
  BY DEF GrowsBy
<1>1. (\A id \in DOMAIN ns \ {p} : f[id] = g[id]) /\ f[p] = own \o FlattenSeq(ListOf(g, ns[p].childs))
  BY <1>0
<1>2. f = [id \in DOMAIN ns |-> f[id]]
  OBVIOUS
<1> HIDE DEF f
<1>3. ASSUME NEW id \in DOMAIN ns PROVE ListOf(f, ns[id].childs) = ListOf(g, ns[id].childs)
  <2>1. \A k \in DOMAIN ns[id].childs : ns[id].childs[k] \in DOMAIN ns \ {p}
    BY DEF GrowsBy, Rooted
  <2> QED
    BY <1>1, <2>1 DEF ListOf
<1>4. ASSUME NEW id \in DOMAIN ns
      PROVE  f[id] = Bare(Own(ns[id]), markup) \o FlattenSeq(ListOf(f, ns[id].childs))
  <2>1. CASE id = p
    BY <1>1, <1>3, <2>1
  <2>2. CASE id # p
    <3>1. ms[id].childs = ns[id].childs /\ Own(ms[id]) = Own(ns[id])
      BY <2>2 DEF GrowsBy, KeepsOwn
    <3>2. g[id] = Bare(Own(ms[id]), markup) \o FlattenSeq(ListOf(g, ms[id].childs))
      BY <1>0 DEF Spells
    <3> QED
      BY <1>1, <1>3, <2>2, <3>1, <3>2
  <2> QED
    BY <2>1, <2>2
<1>5. Spells(ns, f, markup)
  BY <1>2, <1>4 DEF Spells
<1>6. Textual(ns, f)
  BY <1>5 DEF AllTextual
<1>7. g[p] = own \o FlattenSeq(ListOf(g, Append(ns[p].childs, c)))
  <2>1. ms[p].childs = Append(ns[p].childs, c) /\ Own(ms[p]) = Own(ns[p])
    BY DEF GrowsBy, KeepsOwn
  <2>2. g[p] = Bare(Own(ms[p]), markup) \o FlattenSeq(ListOf(g, ms[p].childs))
    BY <1>0 DEF Spells
  <2> QED
    BY <2>1, <2>2
<1>8. ns[p].childs \in Seq(DOMAIN ns) /\ Own(ns[p]) \in Seq(Letters)
  BY DEF GrowsBy
<1>9. own \in Seq(Letters)
  BY <1>8, BareType
<1> HIDE DEF own
<1>10. ListOf(g, Append(ns[p].childs, c)) = ListOf(f, Append(ns[p].childs, c))
  <2> DEFINE cs == ns[p].childs
             ds == Append(cs, c)
  <2>1. \A k \in DOMAIN cs : cs[k] \in DOMAIN ns \ {p}
    BY <1>0 DEF GrowsBy, Rooted
  <2>2. cs \in Seq(DOMAIN ns \ {p})
    BY <1>8, <2>1
  <2> HIDE DEF cs
  <2>3. ds \in Seq(DOMAIN ns \ {p})
    BY <1>0, <2>2, AppendProperties
  <2> HIDE DEF ds
  <2>4. \A k \in DOMAIN ds : ds[k] \in DOMAIN ns \ {p}
    BY <2>3
  <2>5. ListOf(g, ds) = ListOf(f, ds)
    BY <1>1, <2>4 DEF ListOf
  <2> QED
    BY <2>5 DEF ds, cs
<1>11. own \o FlattenSeq(ListOf(f, Append(ns[p].childs, c)))
         = (own \o FlattenSeq(ListOf(f, ns[p].childs))) \o f[c]
  <2> DEFINE cs == ns[p].childs
  <2>1. cs \in Seq(DOMAIN ns) /\ c \in DOMAIN ns
    BY <1>0, <1>8
  <2> HIDE DEF cs
  <2>2. own \o FlattenSeq(ListOf(f, Append(cs, c))) = (own \o FlattenSeq(ListOf(f, cs))) \o f[c]
    BY <1>6, <1>9, <2>1, ListGrown
  <2> QED
    BY <2>2 DEF cs
<1>12. g[p] = f[p] \o f[c]
  BY <1>0, <1>1, <1>3, <1>7, <1>10, <1>11
<1> QED
  BY <1>1, <1>5, <1>12 DEF HasMore, IsWithMore, AgreeOn

\* And there is such a text
LEMMA GrownSpelled ==
  ASSUME NEW ns, NEW ms, NEW p, NEW c, GrowsBy(ns, ms, p, c), NEW markup,
         AllTextual(ns, markup), Spellable(ns, markup)
  PROVE  Spellable(ms, markup)
<1>00. PICK f : Spells(ns, f, markup) /\ Textual(ns, f)
  BY DEF Spellable, AllTextual
<1> DEFINE own == Bare(Own(ns[p]), markup)
           g == [id \in DOMAIN ms |-> IF id = p THEN f[p] \o f[c] ELSE f[id]]
<1>0. p \in DOMAIN ns /\ c \in DOMAIN ns \ {p} /\ DOMAIN ms = DOMAIN ns
  BY DEF GrowsBy
<1>1. (\A id \in DOMAIN ns \ {p} : f[id] = g[id]) /\ g[p] = f[p] \o f[c]
  BY <1>0
<1>2. g = [id \in DOMAIN ms |-> g[id]]
  OBVIOUS
<1> HIDE DEF g
<1>3. ASSUME NEW id \in DOMAIN ns PROVE ListOf(f, ns[id].childs) = ListOf(g, ns[id].childs)
  <2>1. \A k \in DOMAIN ns[id].childs : ns[id].childs[k] \in DOMAIN ns \ {p}
    BY DEF GrowsBy, Rooted
  <2> QED
    BY <1>1, <2>1 DEF ListOf
<1>4. ns[p].childs \in Seq(DOMAIN ns) /\ Own(ns[p]) \in Seq(Letters)
  BY DEF GrowsBy
<1>5. own \in Seq(Letters)
  BY <1>4, BareType
<1>6. f[p] = own \o FlattenSeq(ListOf(f, ns[p].childs))
  BY <1>0, <1>00 DEF Spells
<1> HIDE DEF own
<1>7. own \o FlattenSeq(ListOf(f, Append(ns[p].childs, c)))
         = (own \o FlattenSeq(ListOf(f, ns[p].childs))) \o f[c]
  <2> DEFINE cs == ns[p].childs
  <2>1. cs \in Seq(DOMAIN ns) /\ c \in DOMAIN ns
    BY <1>0, <1>4
  <2> HIDE DEF cs
  <2>2. own \o FlattenSeq(ListOf(f, Append(cs, c))) = (own \o FlattenSeq(ListOf(f, cs))) \o f[c]
    BY <1>00, <1>5, <2>1, ListGrown
  <2> QED
    BY <2>2 DEF cs
<1>8. ListOf(g, Append(ns[p].childs, c)) = ListOf(f, Append(ns[p].childs, c))
  <2> DEFINE cs == ns[p].childs
             ds == Append(cs, c)
  <2>1. \A k \in DOMAIN cs : cs[k] \in DOMAIN ns \ {p}
    BY <1>0 DEF GrowsBy, Rooted
  <2>2. cs \in Seq(DOMAIN ns \ {p})
    BY <1>4, <2>1
  <2> HIDE DEF cs
  <2>3. ds \in Seq(DOMAIN ns \ {p})
    BY <1>0, <2>2, AppendProperties
  <2> HIDE DEF ds
  <2>4. \A k \in DOMAIN ds : ds[k] \in DOMAIN ns \ {p}
    BY <2>3
  <2>5. ListOf(g, ds) = ListOf(f, ds)
    BY <1>1, <2>4 DEF ListOf
  <2> QED
    BY <2>5 DEF ds, cs
<1>9. ASSUME NEW id \in DOMAIN ms
      PROVE  g[id] = Bare(Own(ms[id]), markup) \o FlattenSeq(ListOf(g, ms[id].childs))
  <2>1. CASE id = p
    <3>1. ms[p].childs = Append(ns[p].childs, c) /\ Own(ms[p]) = Own(ns[p])
      BY DEF GrowsBy, KeepsOwn
    <3>2. g[p] = own \o FlattenSeq(ListOf(g, Append(ns[p].childs, c)))
      BY <1>1, <1>6, <1>7, <1>8
    <3> QED
      BY <2>1, <3>1, <3>2 DEF own
  <2>2. CASE id # p
    <3>1. ms[id].childs = ns[id].childs /\ Own(ms[id]) = Own(ns[id])
      BY <1>0, <2>2 DEF GrowsBy, KeepsOwn
    <3>2. f[id] = Bare(Own(ns[id]), markup) \o FlattenSeq(ListOf(f, ns[id].childs))
      BY <1>0, <1>00 DEF Spells
    <3> QED
      BY <1>0, <1>1, <1>3, <2>2, <3>1, <3>2
  <2> QED
    BY <2>1, <2>2
<1>10. Spells(ms, g, markup)
  BY <1>2, <1>9 DEF Spells
<1> QED
  BY <1>10 DEF Spellable

-----------------------------------------------------------------------------
(* The steps on the tree, the stack and the token keep what there is to say.   *)

\* What the links of the stack and the token to the tree are
LEMMA LinkedFacts ==
  ASSUME NEW ns, NEW st, NEW tk, Linked(ns, st, tk)
  PROVE  /\ Rooted(ns) /\ OnNodes(ns, st) /\ 0 \notin DOMAIN ns
         /\ tk \in DOMAIN ns \union {0}
  BY DEF Linked, Rooted, OnNodes

\* A token with a new node: its text is taken from what is left
LEMMA LeafTold ==
  ASSUME NEW ns, NEW ms, NEW new, NEW S, NEW st \in Seq(S), Linked(ns, st, 0),
         Adds(ns, ms, new, <<>>), KeepsOwn(ns, ms), NEW markup, NEW all, NEW rest,
         Bare(Own(ms[new]), markup) \in Seq(Letters), NEW left \in Seq(Letters),
         rest = Bare(Own(ms[new]), markup) \o left, Told(ns, st, 0, rest, markup, all)
  PROVE  Told(ms, st, new, left, markup, all)
<1> DEFINE own == Bare(Own(ms[new]), markup)
<1>0. Rooted(ns) /\ OnNodes(ns, st) /\ 0 \notin DOMAIN ns /\ new # 0 /\ new \notin DOMAIN ns
      /\ DOMAIN ms = DOMAIN ns \union {new}
  BY LinkedFacts DEF Adds
<1> DEFINE cs == <<>>
<1>1. Within(ns, cs) /\ Adds(ns, ms, new, cs)
  BY DEF Within
<1>20. ASSUME NEW f PROVE ListOf(f, cs) = <<>>
  BY DEF ListOf
<1> HIDE DEF cs
<1>2. Spellable(ms, markup)
  BY <1>0, <1>1, NewNodeSpelled DEF Told
<1>3. ASSUME NEW g, Spells(ms, g, markup)
      PROVE  SaysAll(ms, g, st, new, left, all)
  <2>0. HasNew(ns, g, new, own, cs, markup)
    BY <1>0, <1>1, <1>3, NewNodeSays
  <2>00. PICK f : IsWithNew(ns, f, g, new, own, cs, markup)
    BY <2>0 DEF HasNew
  <2>1. /\ Spells(ns, f, markup)
        /\ AgreeOn(DOMAIN ns, f, g)
        /\ g[new] = own \o FlattenSeq(ListOf(f, cs))
    BY <2>00 DEF IsWithNew
  <2>2. Textual(ns, f) /\ StackSays(f, st) \o (Says(f, 0) \o rest) = all
    BY <2>1 DEF Told, SaysAll
  <2>3. ListOf(f, cs) = <<>>
    BY <1>20
  <2>4. own \in Seq(Letters)
    OBVIOUS
  <2> HIDE DEF own
  <2>5. g[new] = own
    BY <2>1, <2>3, <2>4, FlattenNone, ConcatEmptySeq
  <2>6. own \o left = rest /\ rest \in Seq(Letters)
    BY <2>4, ConcatProperties DEF own
  <2>7. Says(f, 0) \o rest = rest
    BY <2>6, ConcatEmptySeq DEF Says
  <2>8. StackSays(f, st) = StackSays(g, st)
    BY <1>0, <2>1, SameStack
  <2>9. Textual(ms, g)
    BY <1>0, <2>1, <2>2, <2>4, <2>5 DEF Textual, AgreeOn
  <2>10. Says(g, new) \o left = Says(f, 0) \o rest
    BY <1>0, <2>5, <2>6, <2>7 DEF Says
  <2> QED
    BY <2>2, <2>8, <2>9, <2>10 DEF SaysAll
<1> QED
  BY <1>2, <1>3 DEF Told

\* The items above the h lowest say what the nodes cs say
TakesTexts(ns, st, h, cs) ==
  \A f : Textual(ns, f) =>
    StackSays(f, st) = StackSays(f, SubSeq(st, 1, h)) \o FlattenSeq(ListOf(f, cs))

\* A reduction to a new node says what the items it takes said
LEMMA BlockTold ==
  ASSUME NEW ns, NEW ms, NEW new, NEW cs \in Seq(DOMAIN ns), NEW S, NEW st \in Seq(S), NEW tk,
         Linked(ns, st, tk), Adds(ns, ms, new, cs), KeepsOwn(ns, ms), Own(ms[new]) = <<>>,
         NEW h \in 0..Len(st), TakesTexts(ns, st, h, cs), NEW sym, NEW ts,
         ts = Append(SubSeq(st, 1, h), Item(sym, new)),
         NEW markup, NEW all, NEW rest, Told(ns, st, tk, rest, markup, all)
  PROVE  Told(ms, ts, tk, rest, markup, all)
<1> DEFINE l == SubSeq(st, 1, h)
           x == Item(sym, new)
<1>0. Rooted(ns) /\ OnNodes(ns, st) /\ 0 \notin DOMAIN ns /\ new # 0 /\ new \notin DOMAIN ns
      /\ DOMAIN ms = DOMAIN ns \union {new} /\ tk \in DOMAIN ns \union {0}
  BY LinkedFacts DEF Adds
<1>1. Within(ns, cs)
  BY DEF Within
<1>2. Spellable(ms, markup)
  BY <1>0, <1>1, NewNodeSpelled DEF Told
<1>3. l \in Seq(S) /\ OnNodes(ns, l) /\ OnNodes(ms, l)
  <2>1. l \in Seq(S) /\ Len(l) = h /\ \A k \in 1..h : l[k] = st[k]
    OBVIOUS
  <2> HIDE DEF l
  <2>2. \A k \in DOMAIN l : k \in 1..h /\ k \in DOMAIN st
    BY <2>1
  <2> QED
    BY <1>0, <2>1, <2>2 DEF OnNodes
<1>4. x.node = new /\ x.node \in DOMAIN ms \union {0}
  BY <1>0 DEF Item
<1>5. ASSUME NEW g, Spells(ms, g, markup)
      PROVE  SaysAll(ms, g, ts, tk, rest, all)
  <2> DEFINE own == Bare(Own(ms[new]), markup)
  <2>0. HasNew(ns, g, new, own, cs, markup)
    BY <1>0, <1>1, <1>5, NewNodeSays
  <2>00. PICK f : IsWithNew(ns, f, g, new, own, cs, markup)
    BY <2>0 DEF HasNew
  <2>1. /\ Spells(ns, f, markup)
        /\ AgreeOn(DOMAIN ns, f, g)
        /\ g[new] = own \o FlattenSeq(ListOf(f, cs))
    BY <2>00 DEF IsWithNew
  <2>2. Textual(ns, f) /\ StackSays(f, st) \o (Says(f, tk) \o rest) = all
    BY <2>1 DEF Told, SaysAll
  <2>3. FlattenSeq(ListOf(f, cs)) \in Seq(Letters)
    BY <2>2, ListTexted
  <2>4. g[new] = FlattenSeq(ListOf(f, cs))
    <3>1. Bare(Own(ms[new]), markup) = <<>>
      BY BareNone
    <3> DEFINE t == FlattenSeq(ListOf(f, cs))
    <3> HIDE DEF t
    <3>2. <<>> \o t = t
      BY <2>3, ConcatEmptySeq DEF t
    <3> QED
      BY <2>1, <3>1, <3>2 DEF t
  <2>5. Textual(ms, g)
    BY <1>0, <2>1, <2>2, <2>3, <2>4 DEF Textual, AgreeOn
  <2>6. StackSays(f, l) = StackSays(g, l)
    BY <1>3, <2>1, SameStack
  <2> HIDE DEF l, x
  <2>7. StackSays(g, Append(l, x)) = StackSays(g, l) \o Says(g, x.node)
    BY <1>3, <1>4, <2>5, StackPushed
  <2>8. StackSays(g, ts) = StackSays(f, l) \o FlattenSeq(ListOf(f, cs))
    BY <1>0, <1>4, <2>4, <2>6, <2>7 DEF Says, l, x
  <2>9. StackSays(g, ts) = StackSays(f, st)
    BY <2>2, <2>8 DEF TakesTexts, l
  <2>10. Says(g, tk) = Says(f, tk)
    BY <1>0, <2>1 DEF Says, AgreeOn
  <2> QED
    BY <2>2, <2>5, <2>9, <2>10 DEF SaysAll
<1> QED
  BY <1>2, <1>5 DEF Told

\* c and, under it, p are on top of the stack st, and of ts only p, which is nowhere else
OnTop(st, ts, h, p, c, tk) ==
  /\ Len(st) = h + 2 /\ st[h + 1].node = p /\ st[h + 2].node = c
  /\ \A k \in 1..h : st[k].node # p
  /\ tk # p
  /\ ts = SubSeq(st, 1, h + 1)

\* The child c of p on top of the stack is made the last of p's children
LEMMA ChildTold ==
  ASSUME NEW ns, NEW ms, NEW p, NEW c, GrowsBy(ns, ms, p, c), NEW S, NEW st \in Seq(S), NEW tk,
         Linked(ns, st, tk), NEW h \in Nat, NEW ts, OnTop(st, ts, h, p, c, tk),
         NEW markup, NEW all, NEW rest \in Seq(Letters), Told(ns, st, tk, rest, markup, all)
  PROVE  Told(ms, ts, tk, rest, markup, all)
<1> USE DEF OnTop
<1> DEFINE l == SubSeq(st, 1, h)
<1>0. OnNodes(ns, st) /\ 0 \notin DOMAIN ns /\ tk \in DOMAIN ns \union {0}
      /\ p \in DOMAIN ns /\ c \in DOMAIN ns \ {p} /\ DOMAIN ms = DOMAIN ns
  BY LinkedFacts DEF GrowsBy
<1>1. AllTextual(ns, markup)
  BY DEF Told, SaysAll, AllTextual
<1>2. Spellable(ms, markup)
  BY <1>1, GrownSpelled DEF Told
<1>3. /\ h + 1 \in 1..Len(st) /\ h + 2 \in 1..Len(st) /\ h + 1 - 1 = h /\ h + 2 - 1 = h + 1
      /\ SubSeq(st, 1, h + 2) = st
  <2>1. SubSeq(st, 1, Len(st)) = st
    BY SubSeqFull
  <2> QED
    BY <2>1
<1>4. ts \in Seq(S) /\ OnNodes(ns, ts) /\ l \in Seq(S) /\ OnNodes(ns, l)
      /\ Len(l) = h /\ \A k \in 1..h : l[k] = st[k]
  <2>1. ts \in Seq(S) /\ Len(ts) = h + 1 /\ \A k \in 1..(h + 1) : ts[k] = st[k]
    OBVIOUS
  <2>2. l \in Seq(S) /\ Len(l) = h /\ \A k \in 1..h : l[k] = st[k]
    OBVIOUS
  <2> HIDE DEF l
  <2>3. \A k \in 1..(h + 1) : st[k].node \in DOMAIN ns \union {0}
    BY <1>0 DEF OnNodes
  <2>4. OnNodes(ns, ts)
    BY <2>1, <2>3 DEF OnNodes
  <2>5. OnNodes(ns, l)
    BY <2>2, <2>3 DEF OnNodes
  <2> QED
    BY <2>1, <2>2, <2>4, <2>5
<1>5. ASSUME NEW g, Spells(ms, g, markup)
      PROVE  SaysAll(ms, g, ts, tk, rest, all)
  <2>0. HasMore(ns, g, p, c, markup)
    BY <1>1, <1>5, GrownSays
  <2>00. PICK f : IsWithMore(ns, f, g, p, c, markup)
    BY <2>0 DEF HasMore
  <2>1. /\ Spells(ns, f, markup)
        /\ AgreeOn(DOMAIN ns \ {p}, f, g)
        /\ g[p] = f[p] \o f[c]
    BY <2>00 DEF IsWithMore
  <2>2. Textual(ns, f) /\ StackSays(f, st) \o (Says(f, tk) \o rest) = all
    BY <2>1 DEF Told, SaysAll
  <2>3. f[p] \in Seq(Letters) /\ f[c] \in Seq(Letters)
    BY <1>0, <2>2 DEF Textual
  <2>4. g[p] \in Seq(Letters)
    BY <2>1, <2>3, ConcatProperties
  <2>5. Textual(ms, g)
    BY <1>0, <2>1, <2>2, <2>4 DEF Textual, AgreeOn
  <2>6. Textual(ns, g)
    BY <1>0, <2>5 DEF Textual
  <2>7. StackSays(f, SubSeq(st, 1, h + 2)) = StackSays(f, SubSeq(st, 1, h + 1)) \o Says(f, st[h + 2].node)
    <3> DEFINE k == h + 2
    <3>1. k \in 1..Len(st) /\ k - 1 = h + 1
      BY <1>3
    <3> HIDE DEF k
    <3>2. NextSays(f, st, k)
      BY <1>0, <2>2, <3>1, StackNext
    <3> QED
      BY <3>1, <3>2 DEF k, NextSays
  <2>8. ASSUME NEW e, Textual(ns, e)
        PROVE  StackSays(e, SubSeq(st, 1, h + 1)) = StackSays(e, SubSeq(st, 1, h)) \o Says(e, st[h + 1].node)
    <3> DEFINE k == h + 1
    <3>1. k \in 1..Len(st) /\ k - 1 = h
      BY <1>3
    <3> HIDE DEF k
    <3>2. NextSays(e, st, k)
      BY <1>0, <2>8, <3>1, StackNext
    <3> QED
      BY <3>1, <3>2 DEF k, NextSays
  <2>9. StackSays(f, st) = (StackSays(f, l) \o f[p]) \o f[c]
    <3>1. StackSays(f, SubSeq(st, 1, h + 1)) = StackSays(f, l) \o f[p]
      BY <1>0, <2>2, <2>8 DEF Says
    <3> QED
      BY <1>0, <1>3, <2>7, <3>1 DEF Says
  <2>10. StackSays(g, ts) = StackSays(g, l) \o g[p]
    BY <1>0, <2>6, <2>8 DEF Says
  <2>11. StackSays(g, l) = StackSays(f, l)
    <3> DEFINE bs == DOMAIN ns \ {p}
               ls == [id \in bs |-> ns[id]]
    <3> HIDE DEF l
    <3>1. OnNodes(ls, l)
      <4>1. \A k \in DOMAIN l : k \in 1..h
        BY <1>4
      <4>2. \A k \in DOMAIN l : l[k].node # p
        BY <1>4, <4>1
      <4> QED
        BY <1>4, <4>2 DEF OnNodes
    <3>2. AgreeOn(DOMAIN ls, g, f)
      BY <2>1 DEF AgreeOn
    <3> HIDE DEF ls
    <3> QED
      BY <3>1, <3>2, SameStack
  <2>12. StackSays(f, l) \in Seq(Letters)
    BY <1>4, <2>2, StackTexts
  <2>13. (StackSays(f, l) \o f[p]) \o f[c] = StackSays(f, l) \o (f[p] \o f[c])
    <3>1. Regroups(Letters)
      BY Regroup
    <3> HIDE DEF l
    <3> QED
      BY <2>3, <2>12, <3>1, Zenon DEF Regroups
  <2> HIDE DEF l
  <2>14. StackSays(g, ts) = StackSays(f, st)
    BY <2>1, <2>9, <2>10, <2>11, <2>13
  <2>15. Says(g, tk) = Says(f, tk)
    BY <1>0, <2>1 DEF Says, AgreeOn
  <2> QED
    BY <2>2, <2>5, <2>14, <2>15 DEF SaysAll
<1> QED
  BY <1>2, <1>5 DEF Told

\* The token is shifted
LEMMA ShiftTold ==
  ASSUME NEW ns, NEW S, NEW st \in Seq(S), NEW tk, Linked(ns, st, tk), NEW sym,
         NEW markup, NEW all, NEW rest \in Seq(Letters), Told(ns, st, tk, rest, markup, all)
  PROVE  Told(ns, Append(st, Item(sym, tk)), 0, rest, markup, all)
<1> DEFINE x == Item(sym, tk)
<1>0. OnNodes(ns, st) /\ 0 \notin DOMAIN ns /\ tk \in DOMAIN ns \union {0} /\ x.node = tk
  BY LinkedFacts DEF Item
<1> HIDE DEF x
<1>1. ASSUME NEW f, Spells(ns, f, markup)
      PROVE  SaysAll(ns, f, Append(st, x), 0, rest, all)
  <2>1. Textual(ns, f) /\ StackSays(f, st) \o (Says(f, tk) \o rest) = all
    BY <1>1 DEF Told, SaysAll
  <2>2. StackSays(f, Append(st, x)) = StackSays(f, st) \o Says(f, x.node)
    BY <1>0, <2>1, StackPushed
  <2>3. StackSays(f, st) \in Seq(Letters) /\ Says(f, tk) \in Seq(Letters)
    BY <1>0, <2>1, StackTexts, SaysType
  <2>4. (StackSays(f, st) \o Says(f, tk)) \o rest = StackSays(f, st) \o (Says(f, tk) \o rest)
    <3>1. Regroups(Letters)
      BY Regroup
    <3> QED
      BY <2>3, <3>1, Zenon DEF Regroups
  <2>5. Says(f, 0) \o rest = rest
    BY ConcatEmptySeq DEF Says
  <2> QED
    BY <1>0, <2>1, <2>2, <2>4, <2>5 DEF SaysAll
<1> QED
  BY <1>1 DEF Told, x

\* The top of the stack gets another symbol
LEMMA RenamedTold ==
  ASSUME NEW ns, NEW S, NEW st \in Seq(S), NEW tk, Linked(ns, st, tk), NEW sym,
         NEW k \in 1..Len(st),
         k = Len(st), NEW ts, ts = Append(SubSeq(st, 1, k - 1), Item(sym, st[k].node)),
         NEW markup, NEW all, NEW rest, Told(ns, st, tk, rest, markup, all)
  PROVE  Told(ns, ts, tk, rest, markup, all)
<1> DEFINE l == SubSeq(st, 1, k - 1)
           x == Item(sym, st[k].node)
<1>0. OnNodes(ns, st) /\ x.node = st[k].node /\ x.node \in DOMAIN ns \union {0}
  <2>1. OnNodes(ns, st) /\ k \in DOMAIN st
    BY LinkedFacts
  <2> QED
    BY <2>1 DEF Item, OnNodes
<1>1. l \in Seq(S) /\ OnNodes(ns, l)
  <2>1. l \in Seq(S) /\ Len(l) = k - 1 /\ \A i \in 1..(k - 1) : l[i] = st[i]
    OBVIOUS
  <2> HIDE DEF l
  <2>2. \A i \in DOMAIN l : i \in DOMAIN st /\ l[i] = st[i]
    BY <2>1
  <2>3. OnNodes(ns, st)
    BY <1>0
  <2>4. OnNodes(ns, l)
    BY <2>2, <2>3 DEF OnNodes
  <2> QED
    BY <2>1, <2>4
<1>2. SubSeq(st, 1, k) = st
  BY SubSeqFull
<1>3. ASSUME NEW f, Spells(ns, f, markup)
      PROVE  SaysAll(ns, f, ts, tk, rest, all)
  <2>1. Textual(ns, f) /\ StackSays(f, st) \o (Says(f, tk) \o rest) = all
    BY <1>3 DEF Told, SaysAll
  <2>2. NextSays(f, st, k)
    BY <1>0, <2>1, StackNext
  <2>3. StackSays(f, st) = StackSays(f, l) \o Says(f, st[k].node)
    BY <1>2, <2>2 DEF NextSays
  <2> HIDE DEF l, x
  <2>4. StackSays(f, Append(l, x)) = StackSays(f, l) \o Says(f, x.node)
    BY <1>0, <1>1, <2>1, StackPushed
  <2>5. StackSays(f, ts) = StackSays(f, st)
    BY <1>0, <2>3, <2>4 DEF l, x
  <2> QED
    BY <2>1, <2>5 DEF SaysAll
<1> QED
  BY <1>3 DEF Told

\* A node gets another text that says the same
LEMMA RewordedTold ==
  ASSUME NEW ns, NEW ms, NEW markup, DOMAIN ms = DOMAIN ns,
         \A id \in DOMAIN ns : /\ ms[id].childs = ns[id].childs
                               /\ Bare(Own(ms[id]), markup) = Bare(Own(ns[id]), markup),
         NEW st, NEW tk, NEW all, NEW rest, Told(ns, st, tk, rest, markup, all)
  PROVE  Told(ms, st, tk, rest, markup, all)
<1>1. ASSUME NEW f PROVE Spells(ms, f, markup) <=> Spells(ns, f, markup)
  <2>1. \A id \in DOMAIN ns :
          Bare(Own(ms[id]), markup) \o FlattenSeq(ListOf(f, ms[id].childs))
            = Bare(Own(ns[id]), markup) \o FlattenSeq(ListOf(f, ns[id].childs))
    OBVIOUS
  <2>2. [id \in DOMAIN ms |-> Bare(Own(ms[id]), markup) \o FlattenSeq(ListOf(f, ms[id].childs))]
          = [id \in DOMAIN ns |-> Bare(Own(ns[id]), markup) \o FlattenSeq(ListOf(f, ns[id].childs))]
    BY <2>1
  <2> QED
    BY <2>2 DEF Spells
<1>2. Spellable(ms, markup)
  BY <1>1 DEF Told, Spellable
<1>3. \A f : SaysAll(ns, f, st, tk, rest, all) => SaysAll(ms, f, st, tk, rest, all)
  BY DEF SaysAll, Textual
<1> QED
  BY <1>1, <1>2, <1>3 DEF Told

\* An item without a node says nothing
LEMMA Mute ==
  ASSUME NEW ns, NEW f, Textual(ns, f), NEW S, NEW st \in Seq(S), OnNodes(ns, st),
         NEW k \in 1..Len(st), st[k].node = 0
  PROVE  StackSays(f, SubSeq(st, 1, k)) = StackSays(f, SubSeq(st, 1, k - 1))
<1> DEFINE l == SubSeq(st, 1, k - 1)
<1>1. NextSays(f, st, k)
  BY StackNext
<1>2. l \in Seq(S) /\ OnNodes(ns, l)
  <2>1. l \in Seq(S) /\ Len(l) = k - 1 /\ \A i \in 1..(k - 1) : l[i] = st[i]
    OBVIOUS
  <2> HIDE DEF l
  <2>2. \A i \in DOMAIN l : i \in DOMAIN st
    BY <2>1
  <2> QED
    BY <2>1, <2>2 DEF OnNodes
<1>3. StackSays(f, SubSeq(st, 1, k)) = StackSays(f, l) \o <<>>
  BY <1>1 DEF NextSays, Says
<1> HIDE DEF l
<1>4. StackSays(f, l) \in Seq(Letters)
  BY <1>2, StackTexts
<1> DEFINE s == StackSays(f, l)
<1> HIDE DEF s
<1>5. s \o <<>> = s
  BY <1>4, ConcatEmptySeq DEF s
<1> QED
  BY <1>3, <1>5 DEF l, s

\* Item k says s
ItemSays(f, st, k, s) ==
  StackSays(f, SubSeq(st, 1, k)) = StackSays(f, SubSeq(st, 1, k - 1)) \o s

\* An item with a node says what the node says
LEMMA Voiced ==
  ASSUME NEW ns, NEW f, Textual(ns, f), NEW S, NEW st \in Seq(S), OnNodes(ns, st),
         0 \notin DOMAIN ns,
         NEW k \in 1..Len(st), NEW c \in DOMAIN ns, st[k].node = c
  PROVE  ItemSays(f, st, k, f[c])
<1>1. NextSays(f, st, k)
  BY StackNext
<1>2. Says(f, st[k].node) = f[c]
  BY DEF Says
<1> QED
  BY <1>1, <1>2 DEF NextSays, ItemSays

\* A list of two is a list of one with one more
LEMMA AppendToOne ==
  ASSUME NEW T, NEW x \in T, NEW y \in T
  PROVE  <<x>> \in Seq(T) /\ Append(<<x>>, y) = <<x, y>>
<1> DEFINE s == Append(<<x>>, y)
           t == <<x, y>>
<1>1. s \in Seq(T) /\ Len(s) = 2 /\ s[1] = x /\ s[2] = y
  <2>1. <<x>> \in Seq(T) /\ Len(<<x>>) = 1 /\ <<x>>[1] = x
    OBVIOUS
  <2> QED
    BY <2>1, AppendProperties
<1>2. t \in Seq(T) /\ Len(t) = 2 /\ t[1] = x /\ t[2] = y
  OBVIOUS
<1> HIDE DEF s, t
<1>3. \A i \in 1..Len(s) : s[i] = t[i]
  BY <1>1, <1>2
<1>4. s = t
  BY <1>1, <1>2, <1>3, SeqEqual
<1> QED
  BY <1>4 DEF s, t

\* What one node and what two nodes say
LEMMA ListOfOne ==
  ASSUME NEW ns, NEW f, Textual(ns, f), NEW c \in DOMAIN ns
  PROVE  FlattenSeq(ListOf(f, <<c>>)) = f[c]
<1>1. ListOf(f, <<c>>) = <<f[c]>> /\ f[c] \in Seq(Letters)
  BY DEF ListOf, Textual
<1> QED
  BY <1>1, FlattenOne

\* What a list of two children says
LEMMA ListOfTwo ==
  ASSUME NEW ns, NEW f, Textual(ns, f), NEW c \in DOMAIN ns, NEW d \in DOMAIN ns
  PROVE  FlattenSeq(ListOf(f, <<c, d>>)) = f[c] \o f[d]
<1>1. ListOf(f, <<c, d>>) = <<f[c], f[d]>> /\ f[c] \in Seq(Letters) /\ f[d] \in Seq(Letters)
  BY DEF ListOf, Textual
<1>2. <<f[c]>> \in Seq(Seq(Letters)) /\ Append(<<f[c]>>, f[d]) = <<f[c], f[d]>>
  <2> DEFINE T == Seq(Letters)
             x == f[c]
             y == f[d]
  <2>2. x \in T /\ y \in T
    BY <1>1
  <2> HIDE DEF T, x, y
  <2>3. <<x>> \in Seq(T) /\ Append(<<x>>, y) = <<x, y>>
    BY <2>2, AppendToOne
  <2> QED
    BY <2>3 DEF T, x, y
<1>3. FlattenSeq(Append(<<f[c]>>, f[d])) = FlattenSeq(<<f[c]>>) \o f[d]
  BY <1>1, <1>2, FlattenAppend
<1>4. FlattenSeq(<<f[c]>>) = f[c]
  BY <1>1, FlattenOne
<1> QED
  BY <1>1, <1>2, <1>3, <1>4

\* One item with a node, alone
LEMMA TakesItem ==
  ASSUME NEW ns, NEW S, NEW st \in Seq(S), NEW tk, Linked(ns, st, tk), NEW h \in Nat,
         Len(st) = h + 1, NEW c \in DOMAIN ns, st[h + 1].node = c
  PROVE  TakesTexts(ns, st, h, <<c>>)
<1> SUFFICES ASSUME NEW f, Textual(ns, f)
             PROVE  StackSays(f, st) = StackSays(f, SubSeq(st, 1, h)) \o FlattenSeq(ListOf(f, <<c>>))
  BY DEF TakesTexts
<1>1. OnNodes(ns, st) /\ 0 \notin DOMAIN ns
  BY LinkedFacts
<1> DEFINE k == h + 1
<1>2. k \in 1..Len(st) /\ k - 1 = h /\ SubSeq(st, 1, k) = st /\ st[k].node = c
  BY SubSeqFull
<1> HIDE DEF k
<1>3. StackSays(f, SubSeq(st, 1, k)) = StackSays(f, SubSeq(st, 1, k - 1)) \o f[c]
  <2>1. ItemSays(f, st, k, f[c])
    BY <1>1, <1>2, Voiced
  <2> QED
    BY <2>1 DEF ItemSays
<1>4. FlattenSeq(ListOf(f, <<c>>)) = f[c]
  BY ListOfOne
<1> QED
  BY <1>2, <1>3, <1>4

\* A name between brackets
LEMMA TakesName ==
  ASSUME NEW ns, NEW S, NEW st \in Seq(S), NEW tk, Linked(ns, st, tk), NEW h \in Nat,
         Len(st) = h + 3, NEW c \in DOMAIN ns,
         st[h + 1].node = 0, st[h + 2].node = c, st[h + 3].node = 0
  PROVE  TakesTexts(ns, st, h, <<c>>)
<1> SUFFICES ASSUME NEW f, Textual(ns, f)
             PROVE  StackSays(f, st) = StackSays(f, SubSeq(st, 1, h)) \o FlattenSeq(ListOf(f, <<c>>))
  BY DEF TakesTexts
<1>1. OnNodes(ns, st) /\ 0 \notin DOMAIN ns
  BY LinkedFacts
<1> DEFINE i == h + 1
           j == h + 2
           k == h + 3
<1>2. /\ i \in 1..Len(st) /\ j \in 1..Len(st) /\ k \in 1..Len(st)
      /\ i - 1 = h /\ j - 1 = i /\ k - 1 = j /\ SubSeq(st, 1, k) = st
      /\ st[i].node = 0 /\ st[j].node = c /\ st[k].node = 0
  BY SubSeqFull
<1> HIDE DEF i, j, k
<1>3. StackSays(f, SubSeq(st, 1, k)) = StackSays(f, SubSeq(st, 1, k - 1))
  BY <1>1, <1>2, Mute
<1>4. StackSays(f, SubSeq(st, 1, j)) = StackSays(f, SubSeq(st, 1, j - 1)) \o f[c]
  <2>1. ItemSays(f, st, j, f[c])
    BY <1>1, <1>2, Voiced
  <2> QED
    BY <2>1 DEF ItemSays
<1>5. StackSays(f, SubSeq(st, 1, i)) = StackSays(f, SubSeq(st, 1, i - 1))
  BY <1>1, <1>2, Mute
<1>6. FlattenSeq(ListOf(f, <<c>>)) = f[c]
  BY ListOfOne
<1> QED
  BY <1>2, <1>3, <1>4, <1>5, <1>6

\* A name and a list that follow one another between brackets
LEMMA TakesBoth ==
  ASSUME NEW ns, NEW S, NEW st \in Seq(S), NEW tk, Linked(ns, st, tk), NEW h \in Nat,
         Len(st) = h + 4, NEW c \in DOMAIN ns, NEW d \in DOMAIN ns,
         st[h + 1].node = 0, st[h + 2].node = c, st[h + 3].node = d, st[h + 4].node = 0
  PROVE  TakesTexts(ns, st, h, <<c, d>>)
<1> SUFFICES ASSUME NEW f, Textual(ns, f)
             PROVE  StackSays(f, st) = StackSays(f, SubSeq(st, 1, h)) \o FlattenSeq(ListOf(f, <<c, d>>))
  BY DEF TakesTexts
<1>1. OnNodes(ns, st) /\ 0 \notin DOMAIN ns
  BY LinkedFacts
<1> DEFINE i == h + 1
           j == h + 2
           k == h + 3
           m == h + 4
<1>2. /\ i \in 1..Len(st) /\ j \in 1..Len(st) /\ k \in 1..Len(st) /\ m \in 1..Len(st)
      /\ i - 1 = h /\ j - 1 = i /\ k - 1 = j /\ m - 1 = k /\ SubSeq(st, 1, m) = st
      /\ st[i].node = 0 /\ st[j].node = c /\ st[k].node = d /\ st[m].node = 0
  BY SubSeqFull
<1> HIDE DEF i, j, k, m
<1>3. StackSays(f, SubSeq(st, 1, m)) = StackSays(f, SubSeq(st, 1, m - 1))
  BY <1>1, <1>2, Mute
<1>4. StackSays(f, SubSeq(st, 1, k)) = StackSays(f, SubSeq(st, 1, k - 1)) \o f[d]
  <2>1. ItemSays(f, st, k, f[d])
    BY <1>1, <1>2, Voiced
  <2> QED
    BY <2>1 DEF ItemSays
<1>5. StackSays(f, SubSeq(st, 1, j)) = StackSays(f, SubSeq(st, 1, j - 1)) \o f[c]
  <2>1. ItemSays(f, st, j, f[c])
    BY <1>1, <1>2, Voiced
  <2> QED
    BY <2>1 DEF ItemSays
<1>6. StackSays(f, SubSeq(st, 1, i)) = StackSays(f, SubSeq(st, 1, i - 1))
  BY <1>1, <1>2, Mute
<1> DEFINE s == StackSays(f, SubSeq(st, 1, h))
<1>7. StackSays(f, st) = (s \o f[c]) \o f[d]
  BY <1>2, <1>3, <1>4, <1>5, <1>6
<1>8. s \in Seq(Letters)
  <2> DEFINE l == SubSeq(st, 1, h)
  <2>1. l \in Seq(S) /\ Len(l) = h /\ \A n \in 1..h : l[n] = st[n]
    OBVIOUS
  <2> HIDE DEF l
  <2>2. \A n \in DOMAIN l : n \in DOMAIN st
    BY <2>1
  <2>3. OnNodes(ns, l)
    BY <1>1, <2>1, <2>2 DEF OnNodes
  <2> QED
    BY <2>1, <2>3, StackTexts DEF l
<1> HIDE DEF s
<1>9. (s \o f[c]) \o f[d] = s \o (f[c] \o f[d])
  <2>1. f[c] \in Seq(Letters) /\ f[d] \in Seq(Letters) /\ Regroups(Letters)
    BY Regroup DEF Textual
  <2> QED
    BY <1>8, <2>1, Zenon DEF Regroups
<1>10. FlattenSeq(ListOf(f, <<c, d>>)) = f[c] \o f[d]
  BY ListOfTwo
<1> QED
  BY <1>7, <1>9, <1>10 DEF s

\* A name, a colon and a list between brackets
LEMMA TakesDefinition ==
  ASSUME NEW ns, NEW S, NEW st \in Seq(S), NEW tk, Linked(ns, st, tk), NEW h \in Nat,
         Len(st) = h + 5, NEW c \in DOMAIN ns, NEW d \in DOMAIN ns,
         st[h + 1].node = 0, st[h + 2].node = c, st[h + 3].node = 0, st[h + 4].node = d,
         st[h + 5].node = 0
  PROVE  TakesTexts(ns, st, h, <<c, d>>)
<1> SUFFICES ASSUME NEW f, Textual(ns, f)
             PROVE  StackSays(f, st) = StackSays(f, SubSeq(st, 1, h)) \o FlattenSeq(ListOf(f, <<c, d>>))
  BY DEF TakesTexts
<1>1. OnNodes(ns, st) /\ 0 \notin DOMAIN ns
  BY LinkedFacts
<1> DEFINE i == h + 1
           j == h + 2
           k == h + 3
           m == h + 4
           n == h + 5
<1>2. /\ i \in 1..Len(st) /\ j \in 1..Len(st) /\ k \in 1..Len(st) /\ m \in 1..Len(st) /\ n \in 1..Len(st)
      /\ i - 1 = h /\ j - 1 = i /\ k - 1 = j /\ m - 1 = k /\ n - 1 = m /\ SubSeq(st, 1, n) = st
      /\ st[i].node = 0 /\ st[j].node = c /\ st[k].node = 0 /\ st[m].node = d /\ st[n].node = 0
  BY SubSeqFull
<1> HIDE DEF i, j, k, m, n
<1>3. StackSays(f, SubSeq(st, 1, n)) = StackSays(f, SubSeq(st, 1, n - 1))
  BY <1>1, <1>2, Mute
<1>4. StackSays(f, SubSeq(st, 1, m)) = StackSays(f, SubSeq(st, 1, m - 1)) \o f[d]
  <2>1. ItemSays(f, st, m, f[d])
    BY <1>1, <1>2, Voiced
  <2> QED
    BY <2>1 DEF ItemSays
<1>5. StackSays(f, SubSeq(st, 1, k)) = StackSays(f, SubSeq(st, 1, k - 1))
  BY <1>1, <1>2, Mute
<1>6. StackSays(f, SubSeq(st, 1, j)) = StackSays(f, SubSeq(st, 1, j - 1)) \o f[c]
  <2>1. ItemSays(f, st, j, f[c])
    BY <1>1, <1>2, Voiced
  <2> QED
    BY <2>1 DEF ItemSays
<1>7. StackSays(f, SubSeq(st, 1, i)) = StackSays(f, SubSeq(st, 1, i - 1))
  BY <1>1, <1>2, Mute
<1> DEFINE s == StackSays(f, SubSeq(st, 1, h))
<1>8. StackSays(f, st) = (s \o f[c]) \o f[d]
  BY <1>2, <1>3, <1>4, <1>5, <1>6, <1>7
<1>9. s \in Seq(Letters)
  <2> DEFINE l == SubSeq(st, 1, h)
  <2>1. l \in Seq(S) /\ Len(l) = h /\ \A o \in 1..h : l[o] = st[o]
    OBVIOUS
  <2> HIDE DEF l
  <2>2. \A o \in DOMAIN l : o \in DOMAIN st
    BY <2>1
  <2>3. OnNodes(ns, l)
    BY <1>1, <2>1, <2>2 DEF OnNodes
  <2> QED
    BY <2>1, <2>3, StackTexts DEF l
<1> HIDE DEF s
<1>10. (s \o f[c]) \o f[d] = s \o (f[c] \o f[d])
  <2>1. f[c] \in Seq(Letters) /\ f[d] \in Seq(Letters) /\ Regroups(Letters)
    BY Regroup DEF Textual
  <2> QED
    BY <1>9, <2>1, Zenon DEF Regroups
<1>11. FlattenSeq(ListOf(f, <<c, d>>)) = f[c] \o f[d]
  BY ListOfTwo
<1> QED
  BY <1>8, <1>10, <1>11 DEF s
-----------------------------------------------------------------------------
(* The scanner says what it reads.                                             *)

\* What the scanner has still to say: the buffered text and the rest of the source
LeftOf(buffer, src, markup) == Bare(buffer, markup) \o Bare(src, markup)

(* The stack, the token and what is left, without the markup, are the program. *)
SpellInv ==
  Told(nodes, stack, token.node, LeftOf(textBuffer, source, Markup), Markup, Bare(program, Markup))

\* The marks of escapes and literals count as markup when there are any to come
MarksInv == (\E i \in DOMAIN source : source[i] \in {"\\", "{"}) => {"\\", "{", "#", "}"} \subseteq Markup

\* The texts of the scanner are texts of letters
LEMMA SourceLetters ==
  ASSUME LexTypes
  PROVE  /\ source \in Seq(Letters) /\ textBuffer \in Seq(Letters) /\ Len(source) \in Nat
         /\ Bare(source, Markup) \in Seq(Letters) /\ Bare(textBuffer, Markup) \in Seq(Letters)
<1>1. source \in Seq(Letters) /\ textBuffer \in Seq(Letters) /\ Len(source) \in Nat
  BY DEF LexTypes, Letters
<1> QED
  BY <1>1, BareType

\* ast_add_node leaves the texts of the other nodes alone
LEMMA AppendKeepsOwn ==
  ASSUME NEW ns, Tree(ns), NEW n
  PROVE  KeepsOwn(ns, Append(ns, n)) /\ Append(ns, n)[Len(ns) + 1] = n
<1> DEFINE ms == Append(ns, n)
<1>1. ns \in Seq(NodeRecord \union {n}) /\ n \in NodeRecord \union {n} /\ Len(ns) \in Nat
  BY DEF Tree
<1>2. /\ Len(ms) = Len(ns) + 1
      /\ \A i \in 1..Len(ns) : ms[i] = ns[i]
      /\ ms[Len(ns) + 1] = n
  BY <1>1, AppendProperties
<1>3. DOMAIN ns = 1..Len(ns)
  BY <1>1
<1> HIDE DEF ms
<1>4. KeepsOwn(ns, ms)
  BY <1>2, <1>3 DEF KeepsOwn
<1> QED
  BY <1>2, <1>4 DEF ms

\* Markup that makes no token with a node is skipped
LEMMA SkippedTold ==
  ASSUME LexTypes, SpellInv, Scanning, nodes' = nodes, stack' = stack, program' = program,
         textBuffer' = textBuffer, token'.node = 0,
         NEW n \in Nat, n <= Len(source), source' = Drop(n), \A i \in 1..n : source[i] \in Markup
  PROVE  SpellInv'
<1>1. source \in Seq(Letters) /\ Len(source) \in Nat /\ Bare(source, Markup) \in Seq(Letters)
  BY SourceLetters
<1> DEFINE l == SubSeq(source, 1, n)
           r == SubSeq(source, n + 1, Len(source))
<1>2. n \in 0..Len(source)
  BY <1>1
<1>3. l \in Seq(Letters) /\ r \in Seq(Letters) /\ Bare(source, Markup) = Bare(l, Markup) \o Bare(r, Markup)
  BY <1>1, <1>2, BareCut
<1>4. Len(l) = n /\ \A i \in 1..n : l[i] = source[i]
  BY <1>1, <1>2
<1>5. Bare(l, Markup) = <<>>
  <2> HIDE DEF l
  <2>1. \A i \in 1..Len(l) : l[i] \in Markup
    BY <1>4
  <2> QED
    BY <1>3, <2>1, BareMarkup
<1>6. Bare(r, Markup) \in Seq(Letters)
  BY <1>3, BareType
<1>7. Bare(source, Markup) = Bare(r, Markup)
  BY <1>3, <1>5, <1>6, ConcatEmptySeq
<1>8. source' = r
  BY DEF Drop
<1>9. token.node = 0
  BY DEF Scanning, NoToken
<1>10. Markup' = Markup
  BY DEF Markup
<1> HIDE DEF l, r
<1>11. LeftOf(textBuffer', source', Markup) = LeftOf(textBuffer, source, Markup)
  BY <1>7, <1>8 DEF LeftOf
<1> QED
  BY <1>9, <1>10, <1>11 DEF SpellInv

\* A rule that makes a node takes from the source what the node says
LEMMA MadeTold ==
  ASSUME ParserInv, SpellInv, Scanning, stack' = stack, program' = program, textBuffer' = <<>>,
         NEW type, NEW text, NEW n \in Nat, n <= Len(source), ReturnNode(type, text, n),
         NEW own \in Seq(Letters), Own([type |-> type, text |-> text, childs |-> <<>>]) = own,
         Bare(textBuffer, Markup) \o Bare(Take(n), Markup) = Bare(own, Markup)
  PROVE  SpellInv'
<1> DEFINE rec == [type |-> type, text |-> text, childs |-> <<>>]
           new == Len(nodes) + 1
           l == SubSeq(source, 1, n)
           r == SubSeq(source, n + 1, Len(source))
           b == Bare(textBuffer, Markup)
           bl == Bare(l, Markup)
           br == Bare(r, Markup)
           bo == Bare(own, Markup)
           all == Bare(program, Markup)
           rest == LeftOf(textBuffer, source, Markup)
<1>1. LexTypes /\ token.node = 0 /\ Tree(nodes) /\ stack \in Seq(StackItem) /\ Linked(nodes, stack, 0)
  BY LinkedNow DEF Scanning, NoToken, ParserInv, StackInv
<1>2. source \in Seq(Letters) /\ Len(source) \in Nat /\ b \in Seq(Letters)
  BY <1>1, SourceLetters
<1>3. n \in 0..Len(source)
  BY <1>2
<1>4. l \in Seq(Letters) /\ r \in Seq(Letters) /\ Bare(source, Markup) = bl \o br
  BY <1>2, <1>3, BareCut
<1>5. bl \in Seq(Letters) /\ br \in Seq(Letters) /\ bo \in Seq(Letters)
  BY <1>4, BareType
<1>6. nodes' = Append(nodes, rec) /\ token' = [kind |-> type, node |-> new] /\ source' = r
      /\ rec.childs = <<>>
  BY DEF ReturnNode, NewNode, Drop
<1>7. Adds(nodes, nodes', new, rec.childs) /\ KeepsOwn(nodes, nodes') /\ nodes'[new] = rec
  <2> HIDE DEF rec
  <2> QED
    BY <1>1, <1>6, AppendAdds, AppendKeepsOwn
<1>8. Own(nodes'[new]) = own
  BY <1>7
<1>9. b \o bl = bo
  BY DEF Take
<1>10. rest = bo \o br
  <2>1. rest = b \o (bl \o br)
    BY <1>4 DEF LeftOf
  <2>2. (b \o bl) \o br = b \o (bl \o br)
    <3> HIDE DEF b, bl, br
    <3>1. Regroups(Letters)
      BY Regroup
    <3>2. b \in Seq(Letters) /\ bl \in Seq(Letters) /\ br \in Seq(Letters)
      BY <1>2, <1>5
    <3> QED
      BY <3>1, <3>2, Zenon DEF Regroups
  <2> QED
    BY <1>9, <2>1, <2>2
<1>11. Told(nodes, stack, 0, rest, Markup, all)
  BY <1>1 DEF SpellInv
<1>12. Adds(nodes, nodes', new, <<>>)
  BY <1>6, <1>7
<1> HIDE DEF rec, new, l, r, b, bl, br, all, rest
<1>13. Told(nodes', stack, new, br, Markup, all)
  BY <1>1, <1>5, <1>7, <1>8, <1>10, <1>11, <1>12, LeafTold
<1>14. LeftOf(textBuffer', source', Markup) = br
  <2>1. Bare(<<>>, Markup) = <<>>
    BY BareNone
  <2>2. <<>> \o br = br
    BY <1>5, ConcatEmptySeq
  <2> QED
    BY <1>6, <2>1, <2>2 DEF LeftOf, br, r
<1>15. Markup' = Markup /\ token'.node = new
  BY <1>6 DEF Markup
<1> QED
  BY <1>13, <1>14, <1>15 DEF SpellInv, all

\* Taking all of a run of blanks, or one blank
LEMMA BlanksTold ==
  ASSUME ParserInv, SpellInv, Lex, stack' = stack, program' = program,
         SkipBlanks \/ OpenBlock \/ CloseBlock \/ Colon \/ NameEnds \/ EndOfSource
  PROVE  SpellInv'
<1>1. LexTypes /\ source \in Seq(Characters) /\ Len(source) \in Nat
  BY DEF ParserInv, LexTypes
<1>2. Blanks \subseteq Markup /\ {"[", "]", ":"} \subseteq Markup
  BY DEF Markup
<1> DEFINE blanks == RunLength(source, Blanks)
<1>3. blanks \in 0..Len(source) /\ \A i \in 1..blanks : source[i] \in Blanks
  BY <1>1, RunLengthFacts
<1>4. blanks \in Nat /\ blanks <= Len(source)
  BY <1>1, <1>3
<1> HIDE DEF blanks
<1>5. Punctuation("[").node = 0 /\ Punctuation("]").node = 0 /\ Punctuation(":").node = 0
      /\ Punctuation("EOF").node = 0 /\ NoToken.node = 0
  BY DEF Punctuation, NoToken
<1>6. First(source) \notin {"end"} => Len(source) >= 1 /\ First(source) = source[1]
  BY <1>1 DEF First
<1>7. Drop(0) = source
  BY <1>1, SubSeqFull DEF Drop
<1>8. CASE SkipBlanks
  <2>1. /\ Scanning /\ nodes' = nodes /\ textBuffer' = textBuffer /\ token' = token
        /\ source' = Drop(blanks)
    BY <1>8 DEF SkipBlanks, blanks
  <2>2. token'.node = 0
    BY <1>5, <2>1 DEF Scanning
  <2>3. \A i \in 1..blanks : source[i] \in Markup
    BY <1>2, <1>3
  <2> QED
    BY <1>1, <1>4, <2>1, <2>2, <2>3, SkippedTold
<1>9. CASE OpenBlock \/ CloseBlock
  <2>1. /\ Scanning /\ nodes' = nodes /\ textBuffer' = textBuffer /\ token'.node = 0
        /\ source' = Drop(1) /\ First(source) \in {"[", "]"}
    BY <1>5, <1>9 DEF OpenBlock, CloseBlock
  <2>2. 1 <= Len(source) /\ source[1] \in {"[", "]"}
    BY <1>1, <1>6, <2>1
  <2>3. \A i \in 1..1 : source[i] \in Markup
    BY <1>2, <2>2
  <2> QED
    BY <1>1, <2>1, <2>2, <2>3, SkippedTold
<1>10. CASE Colon
  <2> DEFINE n == blanks + 1
  <2>1. /\ Scanning /\ nodes' = nodes /\ textBuffer' = textBuffer /\ token'.node = 0
        /\ source' = Drop(n) /\ First(Drop(blanks)) = ":"
    BY <1>5, <1>10 DEF Colon, blanks
  <2>2. n \in Nat /\ n <= Len(source) /\ source[n] = ":"
    <3> DEFINE d == Drop(blanks)
    <3>1. d \in Seq(Characters) /\ Len(d) = Len(source) - blanks /\ (blanks < Len(source) => d[1] = source[blanks + 1])
      BY <1>1, <1>4 DEF Drop
    <3> HIDE DEF d
    <3>2. d # <<>> /\ d[1] = ":"
      BY <2>1 DEF First, d
    <3>3. Len(d) # 0
      BY <3>1, <3>2, EmptySeq
    <3> QED
      BY <1>1, <1>4, <3>1, <3>2, <3>3
  <2>3. \A i \in 1..n : source[i] \in Markup
    <3> TAKE i \in 1..n
    <3>1. i = n \/ i \in 1..blanks
      BY <1>4
    <3> QED
      BY <1>2, <1>3, <2>2, <3>1
  <2> HIDE DEF n
  <2> QED
    BY <1>1, <2>1, <2>2, <2>3, SkippedTold
<1>11. CASE NameEnds
  <2>1. /\ Scanning /\ nodes' = nodes /\ textBuffer' = textBuffer /\ token' = token
        /\ source' = IF First(source) \in Blanks THEN Drop(1) ELSE source
        /\ First(source) # "end"
    BY <1>11 DEF NameEnds
  <2>2. token'.node = 0
    BY <1>5, <2>1 DEF Scanning
  <2>3. CASE First(source) \in Blanks
    <3>1. source' = Drop(1) /\ 1 <= Len(source) /\ source[1] \in Markup
      BY <1>1, <1>2, <1>6, <2>1, <2>3
    <3>2. \A i \in 1..1 : source[i] \in Markup
      BY <3>1
    <3> QED
      BY <1>1, <2>1, <2>2, <3>1, <3>2, SkippedTold
  <2>4. CASE First(source) \notin Blanks
    <3>1. source' = Drop(0) /\ 0 <= Len(source) /\ 0 \in Nat /\ \A i \in 1..0 : source[i] \in Markup
      BY <1>1, <1>7, <2>1, <2>4
    <3> QED
      BY <1>1, <2>1, <2>2, <3>1, SkippedTold
  <2> QED
    BY <2>3, <2>4
<1>12. CASE EndOfSource
  <2>1. /\ Scanning /\ nodes' = nodes /\ textBuffer' = textBuffer /\ token'.node = 0
        /\ source' = Drop(0)
    BY <1>5, <1>7, <1>12 DEF EndOfSource
  <2>2. 0 <= Len(source) /\ 0 \in Nat /\ \A i \in 1..0 : source[i] \in Markup
    BY <1>1
  <2> QED
    BY <1>1, <2>1, <2>2, SkippedTold
<1> QED
  BY <1>8, <1>9, <1>10, <1>11, <1>12

\* A part of a text cut in two
LEMMA BareSplit ==
  ASSUME NEW s \in Seq(Letters), NEW m \in 1..(Len(s) + 1), NEW k \in (m - 1)..Len(s),
         NEW n \in k..Len(s),
         NEW markup
  PROVE  /\ SubSeq(s, m, n) \in Seq(Letters) /\ SubSeq(s, m, k) \in Seq(Letters) /\ SubSeq(s, k + 1, n) \in Seq(Letters)
         /\ Bare(SubSeq(s, m, n), markup) = Bare(SubSeq(s, m, k), markup) \o Bare(SubSeq(s, k + 1, n), markup)
<1> DEFINE l == SubSeq(s, m, k)
           r == SubSeq(s, k + 1, n)
           w == SubSeq(s, m, n)
<1>1. l \in Seq(Letters) /\ r \in Seq(Letters) /\ w \in Seq(Letters)
  <2>1. /\ \A i \in m..k : s[i] \in Letters
        /\ \A i \in (k + 1)..n : s[i] \in Letters
        /\ \A i \in m..n : s[i] \in Letters
    OBVIOUS
  <2> QED
    BY <2>1, SubSeqProperties
<1>2. l \o r = w
  BY ConcatAdjacentSubSeq
<1> HIDE DEF l, r, w
<1>3. l \in Seq(Letters) /\ r \in Seq(Letters)
  BY <1>1
<1>4. Bare(l \o r, markup) = Bare(l, markup) \o Bare(r, markup)
  BY <1>3, BareConcat, Zenon
<1> QED
  BY <1>1, <1>2, <1>4 DEF l, r, w

\* A part of a text that is all markup
LEMMA PartMarkup ==
  ASSUME NEW s \in Seq(Letters), NEW m \in 1..(Len(s) + 1), NEW n \in (m - 1)..Len(s), NEW markup,
         \A i \in m..n : s[i] \in markup
  PROVE  Bare(SubSeq(s, m, n), markup) = <<>>
<1> DEFINE w == SubSeq(s, m, n)
<1>1. w \in Seq(Letters) /\ Len(w) = n - m + 1 /\ \A i \in 1..(n - m + 1) : w[i] = s[m + i - 1]
  <2>1. \A i \in m..n : s[i] \in Letters
    OBVIOUS
  <2>2. w \in Seq(Letters)
    BY <2>1, SubSeqProperties
  <2>3. Len(w) = n - m + 1
    <3>1. m <= n + 1
      OBVIOUS
    <3> QED
      BY SubSeqProperties
  <2>4. \A i \in 1..(n - m + 1) : w[i] = s[m + i - 1]
    BY <2>1, SubSeqProperties
  <2> QED
    BY <2>2, <2>3, <2>4
<1> HIDE DEF w
<1>2. \A i \in 1..Len(w) : w[i] \in markup
  <2> TAKE i \in 1..Len(w)
  <2>1. m + i - 1 \in m..n /\ w[i] = s[m + i - 1]
    BY <1>1
  <2> QED
    BY <2>1
<1> QED
  BY <1>1, <1>2, BareMarkup DEF w

\* A text that starts with markup
LEMMA BareAfter ==
  ASSUME NEW s \in Seq(Letters), NEW k \in 0..Len(s), NEW n \in k..Len(s), NEW markup,
         \A i \in 1..k : s[i] \in markup
  PROVE  Bare(SubSeq(s, 1, n), markup) = Bare(SubSeq(s, k + 1, n), markup)
<1> DEFINE l == SubSeq(s, 1, k)
           r == SubSeq(s, k + 1, n)
           w == SubSeq(s, 1, n)
<1>1. 1 \in 1..(Len(s) + 1) /\ k \in (1 - 1)..Len(s)
  OBVIOUS
<1>2. r \in Seq(Letters) /\ Bare(w, markup) = Bare(l, markup) \o Bare(r, markup)
  BY <1>1, BareSplit
<1>3. Bare(l, markup) = <<>>
  BY <1>1, PartMarkup
<1>4. Bare(r, markup) \in Seq(Letters)
  BY <1>2, BareType
<1> HIDE DEF l, r, w
<1>5. Bare(w, markup) = Bare(r, markup)
  BY <1>2, <1>3, <1>4, ConcatEmptySeq
<1> QED
  BY <1>5 DEF r, w

\* The characters of two that the source starts with
LEMMA StartsWithTwo ==
  ASSUME source \in Seq(Characters), NEW a, NEW b, StartsWith(<<a, b>>)
  PROVE  2 <= Len(source) /\ source[1] = a /\ source[2] = b /\ Take(2) = <<a, b>>
<1>1. Len(<<a, b>>) = 2 /\ SubSeq(<<a, b>>, 1, 2) = <<a, b>> /\ Len(source) \in Nat
  <2> DEFINE p == <<a, b>>
  <2>1. p \in Seq({a, b}) /\ Len(p) = 2
    OBVIOUS
  <2> HIDE DEF p
  <2>2. SubSeq(p, 1, Len(p)) = p
    BY <2>1, SubSeqFull
  <2> QED
    BY <2>1, <2>2 DEF p
<1>2. 2 <= Len(source) /\ SubSeq(source, 1, 2) = <<a, b>>
  BY <1>1 DEF StartsWith, IsPrefix
<1>3. SubSeq(source, 1, 2)[1] = source[1] /\ SubSeq(source, 1, 2)[2] = source[2]
  <2>1. 1 \in 1..2 /\ 2 \in 1..2 /\ 2 - 1 + 1 = 2
    OBVIOUS
  <2> QED
    BY <1>1, <1>2
<1>4. source[1] = a /\ source[2] = b
  <2>1. <<a, b>>[1] = a /\ <<a, b>>[2] = b
    OBVIOUS
  <2> QED
    BY <1>2, <1>3, <2>1
<1> QED
  BY <1>2, <1>4 DEF Take

\* A rule that makes a node of characters while no text is in the buffer
LEMMA TakenTold ==
  ASSUME ParserInv, SpellInv, Scanning, stack' = stack, program' = program, textBuffer = <<>>,
         textBuffer' = textBuffer,
         NEW type, NEW text, NEW n \in Nat, n <= Len(source), ReturnNode(type, text, n),
         NEW own \in Seq(Letters), Own([type |-> type, text |-> text, childs |-> <<>>]) = own,
         Bare(Take(n), Markup) = Bare(own, Markup)
  PROVE  SpellInv'
<1>1. Bare(own, Markup) \in Seq(Letters) /\ Bare(textBuffer, Markup) = <<>>
  BY BareType, BareNone
<1>2. <<>> \o Bare(own, Markup) = Bare(own, Markup)
  BY <1>1, ConcatEmptySeq
<1>3. Bare(textBuffer, Markup) \o Bare(Take(n), Markup) = Bare(own, Markup)
  BY <1>1, <1>2
<1>4. textBuffer' = <<>>
  OBVIOUS
<1> QED
  BY <1>3, <1>4, MadeTold

\* The rules whose text is the part of the source that they match
LEMMA RunTold ==
  ASSUME ParserInv, SpellInv, BufferInv, Lex, stack' = stack, program' = program,
         InitialText \/ Symbol
  PROVE  SpellInv'
<1>1. LexTypes /\ source \in Seq(Characters) /\ Len(source) \in Nat
  BY DEF ParserInv, LexTypes
<1>2. ASSUME NEW S, NEW n, n = RunLength(source, S)
      PROVE  /\ n \in Nat /\ n <= Len(source) /\ Take(n) \in Seq(Letters)
  <2>1. n \in 0..Len(source) /\ Take(n) \in Seq(Characters)
    BY <1>1, <1>2, RunLengthFacts, RunPart
  <2> QED
    BY <1>1, <2>1 DEF Letters
<1>3. ASSUME NEW type \in {"TEXT", "SYMBOL"}, NEW S, ReturnNode(type, Take(RunLength(source, S)), RunLength(source, S)),
             textBuffer' = textBuffer, Scanning, Cond # "CONTENT"
      PROVE  SpellInv'
  <2> DEFINE n == RunLength(source, S)
             text == Take(n)
  <2>1. n \in Nat /\ n <= Len(source) /\ text \in Seq(Letters)
    BY <1>2
  <2>2. ReturnNode(type, text, n)
    BY <1>3
  <2>3. textBuffer = <<>>
    BY <1>3 DEF BufferInv
  <2> HIDE DEF n
  <2>4. Own([type |-> type, text |-> text, childs |-> <<>>]) = text
    BY DEF Own
  <2>5. Bare(Take(n), Markup) = Bare(text, Markup)
    OBVIOUS
  <2> HIDE DEF text
  <2> QED
    BY <1>3, <2>1, <2>2, <2>3, <2>4, <2>5, TakenTold
<1>4. CASE InitialText
  <2> DEFINE S == NotBracket(source)
  <2>1. ReturnNode("TEXT", Take(RunLength(source, S)), RunLength(source, S)) /\ textBuffer' = textBuffer
        /\ Scanning /\ Cond # "CONTENT"
    BY <1>4 DEF InitialText
  <2> HIDE DEF S
  <2> QED
    BY <1>3, <2>1
<1>5. CASE Symbol
  <2> DEFINE S == NotBracket(source) \ (Blanks \union {":"})
  <2>1. ReturnNode("SYMBOL", Take(RunLength(source, S)), RunLength(source, S)) /\ textBuffer' = textBuffer
        /\ Scanning /\ Cond # "CONTENT"
    BY <1>5 DEF Symbol
  <2> HIDE DEF S
  <2> QED
    BY <1>3, <2>1
<1> QED
  BY <1>4, <1>5

\* <CONTENT>"$*"
LEMMA ArgRefTold ==
  ASSUME ParserInv, SpellInv, BufferInv, stack' = stack, program' = program, ArgRef
  PROVE  SpellInv'
<1>1. source \in Seq(Characters)
  BY DEF ParserInv, LexTypes
<1>2. /\ ReturnNode("ARG_REF_ALL_ARGS", NoText, 2) /\ Scanning /\ textBuffer' = textBuffer
      /\ StartsWith(<<"$", "*">>)
  BY DEF ArgRef, InContent
<1>3. 2 <= Len(source) /\ Take(2) = <<"$", "*">>
  BY <1>1, <1>2, StartsWithTwo
<1>4. textBuffer = <<>>
  BY <1>2 DEF BufferInv, TextEnds, StartsWith
<1> DEFINE own == <<"$", "*">>
<1>5. own \in Seq(Letters)
  BY DEF Letters
<1>6. Own([type |-> "ARG_REF_ALL_ARGS", text |-> NoText, childs |-> <<>>]) = own
  BY DEF Own
<1>7. Bare(Take(2), Markup) = Bare(own, Markup) /\ 2 \in Nat
  BY <1>3
<1> HIDE DEF own
<1> QED
  BY <1>2, <1>3, <1>4, <1>5, <1>6, <1>7, TakenTold

\* The literals
LEMMA LiteralTold ==
  ASSUME ParserInv, SpellInv, BufferInv, MarksInv, stack' = stack, program' = program, Literal
  PROVE  SpellInv'
<1>1. source \in Seq(Characters) /\ LexTypes
  BY DEF ParserInv, LexTypes
<1>2. Scanning /\ textBuffer' = textBuffer /\ StartsWith(<<"{", "#">>)
  BY DEF Literal, InContent
<1>3. 2 <= Len(source)
  BY <1>1, <1>2, StartsWithTwo
<1>30. source[1] = "{" /\ source[2] = "#"
  BY <1>1, <1>2, StartsWithTwo
<1>4. textBuffer = <<>>
  BY <1>2 DEF BufferInv, TextEnds, StartsWith
<1>5. source \in Seq(Letters) /\ Len(source) \in Nat
  BY <1>1, SourceLetters
<1>6. {"\\", "{", "#", "}"} \subseteq Markup
  <2>1. 1 \in DOMAIN source
    BY <1>3, <1>5
  <2> QED
    BY <1>30, <2>1 DEF MarksInv
<1>7. \A i \in 1..2 : source[i] \in Markup
  <2>1. source[1] \in Markup /\ source[2] \in Markup
    BY <1>6, <1>30
  <2> QED
    BY <2>1
<1>8. CASE Len(source) = 2
  <2>1. source' = <<>> /\ nodes' = nodes /\ token' = token
    BY <1>8 DEF Literal
  <2>2. source' = Drop(2)
    <3>1. SubSeq(source, 2 + 1, 2) = <<>>
      BY <1>5, SubSeqEmpty
    <3> QED
      BY <1>8, <2>1, <3>1 DEF Drop
  <2>3. token'.node = 0 /\ 2 \in Nat
    BY <1>2, <2>1 DEF Scanning, NoToken
  <2> QED
    BY <1>1, <1>2, <1>3, <1>7, <2>1, <2>2, <2>3, SkippedTold
<1>9. CASE Len(source) # 2 /\ LiteralEnds # {}
  <2> DEFINE e == Min(LiteralEnds)
             text == SubSeq(source, 3, e - 1)
             n == e + 1
  <2>1. ReturnNode("LITERAL", text, n)
    BY <1>9 DEF Literal
  <2>2. e \in 3..(Len(source) - 1) /\ source[e] \in Markup /\ source[e + 1] \in Markup
    <3>1. \A k \in LiteralEnds : k \in 3..(Len(source) - 1)
      BY DEF LiteralEnds
    <3>2. LiteralEnds \in SUBSET Nat
      BY <1>5, <3>1
    <3>3. e \in LiteralEnds
      BY <1>9, <3>2, MinFacts
    <3>4. source[e] = "#" /\ source[e + 1] = "}"
      BY <3>3 DEF LiteralEnds
    <3> QED
      BY <1>6, <3>1, <3>3, <3>4
  <2> HIDE DEF e
  <2>3. n \in Nat /\ n <= Len(source)
    BY <1>5, <2>2
  <2> DEFINE k == e - 1
  <2>4. /\ 1 \in 1..(Len(source) + 1) /\ k \in (1 - 1)..Len(source) /\ n \in k..Len(source)
        /\ k + 1 \in 1..(Len(source) + 1) /\ n \in (k + 1 - 1)..Len(source)
        /\ 2 \in 0..Len(source) /\ k \in 2..Len(source) /\ \A i \in (k + 1)..n : i = e \/ i = e + 1
    BY <1>3, <1>5, <2>2
  <2> HIDE DEF n
  <2>5. Take(n) = SubSeq(source, 1, n) /\ text = SubSeq(source, 2 + 1, k)
    BY DEF Take
  <2> HIDE DEF k, text
  <2>6. /\ SubSeq(source, 1, k) \in Seq(Letters)
        /\ Bare(SubSeq(source, 1, n), Markup) = Bare(SubSeq(source, 1, k), Markup) \o Bare(SubSeq(source, k + 1, n), Markup)
    <3> DEFINE m == 1
    <3>1. m \in 1..(Len(source) + 1) /\ k \in (m - 1)..Len(source) /\ n \in k..Len(source)
      BY <2>4
    <3> HIDE DEF m
    <3>2. /\ SubSeq(source, m, k) \in Seq(Letters)
          /\ Bare(SubSeq(source, m, n), Markup) = Bare(SubSeq(source, m, k), Markup) \o Bare(SubSeq(source, k + 1, n), Markup)
      BY <1>5, <3>1, BareSplit
    <3> QED
      BY <3>2 DEF m
  <2>7. \A i \in (k + 1)..n : source[i] \in Markup
    BY <2>2, <2>4
  <2>8. Bare(SubSeq(source, k + 1, n), Markup) = <<>>
    BY <1>5, <2>4, <2>7, PartMarkup
  <2>9. Bare(SubSeq(source, 1, k), Markup) = Bare(SubSeq(source, 2 + 1, k), Markup)
    BY <1>5, <1>7, <2>4, BareAfter
  <2>10. Bare(SubSeq(source, 1, k), Markup) \in Seq(Letters)
    BY <2>6, BareType
  <2>11. Bare(Take(n), Markup) = Bare(text, Markup)
    BY <2>5, <2>6, <2>8, <2>9, <2>10, ConcatEmptySeq
  <2>12. text \in Seq(Letters)
    <3>1. \A i \in 3..k : source[i] \in Letters
      BY <1>5, <2>4
    <3> QED
      BY <1>5, <2>4, <2>5, <3>1, SubSeqProperties
  <2>13. Own([type |-> "LITERAL", text |-> text, childs |-> <<>>]) = text
    BY DEF Own
  <2> QED
    BY <1>2, <1>4, <2>1, <2>3, <2>11, <2>12, <2>13, TakenTold
<1>10. CASE Len(source) # 2 /\ LiteralEnds = {}
  <2> DEFINE text == Drop(2)
             n == Len(source)
  <2>1. ReturnNode("LITERAL", text, n)
    BY <1>10 DEF Literal
  <2>2. 2 \in 0..n /\ n \in 2..n /\ n \in Nat /\ n <= n
    BY <1>3, <1>5
  <2>3. Bare(SubSeq(source, 1, n), Markup) = Bare(SubSeq(source, 2 + 1, n), Markup)
    BY <1>5, <1>7, <2>2, BareAfter
  <2>4. Bare(Take(n), Markup) = Bare(text, Markup)
    BY <2>3 DEF Take, Drop
  <2>5. text \in Seq(Letters)
    <3>1. text \in Seq(Characters)
      BY <1>1, DropType
    <3> QED
      BY <3>1 DEF Letters
  <2> HIDE DEF text, n
  <2>6. Own([type |-> "LITERAL", text |-> text, childs |-> <<>>]) = text
    BY DEF Own
  <2>7. n <= Len(source)
    BY <2>2 DEF n
  <2> QED
    BY <1>2, <1>4, <2>1, <2>2, <2>4, <2>5, <2>6, <2>7, TakenTold
<1> QED
  BY <1>8, <1>9, <1>10

\* The first character of a text, or the first two where the first is an escape
LEMMA CharTold ==
  ASSUME source \in Seq(Letters), textBuffer \in Seq(Letters), MarksInv, source # <<>>,
         NEW n, n = IF First(source) = "\\" /\ Len(source) > 1 THEN 2 ELSE 1
  PROVE  /\ n \in Nat /\ n <= Len(source)
         /\ Append(textBuffer, source[n]) \in Seq(Letters)
         /\ Bare(textBuffer, Markup) \o Bare(Take(n), Markup) = Bare(Append(textBuffer, source[n]), Markup)
<1> DEFINE c == source[n]
           k == n - 1
<1>1. Len(source) \in Nat /\ Len(source) >= 1 /\ First(source) = source[1]
  BY DEF First
<1>2. n \in 1..2 /\ n <= Len(source) /\ c \in Letters
  BY <1>1
<1>3. \A i \in 1..k : source[i] \in Markup
  <2> SUFFICES ASSUME NEW i \in 1..k PROVE source[i] \in Markup
    OBVIOUS
  <2>1. i = 1 /\ n = 2
    BY <1>2
  <2>2. source[1] = "\\" /\ 1 \in DOMAIN source
    BY <1>1, <2>1
  <2>3. source[1] \in Markup
    BY <2>2 DEF MarksInv
  <2> QED
    BY <2>1, <2>3
<1>4. k \in 0..Len(source) /\ n \in k..Len(source) /\ k + 1 = n /\ n \in 1..Len(source)
  BY <1>1, <1>2
<1> HIDE DEF k
<1>5. Bare(SubSeq(source, 1, n), Markup) = Bare(SubSeq(source, k + 1, n), Markup)
  BY <1>3, <1>4, BareAfter
<1>6. SubSeq(source, n, n) = <<c>>
  <2> DEFINE s == SubSeq(source, n, n)
             u == <<c>>
  <2>1. s \in Seq(Letters) /\ Len(s) = 1 /\ s[1] = c
    BY <1>1, <1>4
  <2>2. u \in Seq(Letters) /\ Len(u) = 1 /\ u[1] = c
    BY <1>2
  <2> HIDE DEF s, u
  <2>3. \A i \in 1..Len(s) : s[i] = u[i]
    BY <2>1, <2>2
  <2>4. s = u
    BY <2>1, <2>2, <2>3, SeqEqual
  <2> QED
    BY <2>4 DEF s, u
<1>7. Bare(Take(n), Markup) = Bare(<<c>>, Markup)
  BY <1>4, <1>5, <1>6 DEF Take
<1>8. Append(textBuffer, c) = textBuffer \o <<c>> /\ <<c>> \in Seq(Letters) /\ Append(textBuffer, c) \in Seq(Letters)
  <2>1. <<c>> \in Seq(Letters)
    BY <1>2
  <2> HIDE DEF c
  <2>2. Append(textBuffer, c) = textBuffer \o <<c>>
    BY <1>2, AppendIsConcat
  <2>3. Append(textBuffer, c) \in Seq(Letters)
    BY <1>2, AppendProperties
  <2> QED
    BY <2>1, <2>2, <2>3
<1> HIDE DEF c
<1>9. Bare(textBuffer \o <<c>>, Markup) = Bare(textBuffer, Markup) \o Bare(<<c>>, Markup)
  BY <1>8, BareConcat, Zenon
<1>10. Bare(textBuffer, Markup) \o Bare(Take(n), Markup) = Bare(Append(textBuffer, c), Markup)
  BY <1>7, <1>8, <1>9
<1>11. n \in Nat /\ n <= Len(source)
  BY <1>2
<1> QED
  BY <1>8, <1>10, <1>11 DEF c

\* A character of a text is put in the buffer, or the text is yielded
LEMMA TextCharTold ==
  ASSUME ParserInv, SpellInv, MarksInv, stack' = stack, program' = program, TextChar
  PROVE  SpellInv'
<1> DEFINE n == IF First(source) = "\\" /\ Len(source) > 1 THEN 2 ELSE 1
           buffer == Append(textBuffer, source[n])
<1>1. LexTypes /\ Scanning /\ source # <<>>
  BY DEF ParserInv, TextChar, InContent, First
<1>2. /\ source \in Seq(Letters) /\ textBuffer \in Seq(Letters) /\ Len(source) \in Nat
      /\ Bare(textBuffer, Markup) \in Seq(Letters)
  BY <1>1, SourceLetters
<1>3. /\ n \in Nat /\ n <= Len(source) /\ buffer \in Seq(Letters)
      /\ Bare(textBuffer, Markup) \o Bare(Take(n), Markup) = Bare(buffer, Markup)
  <2> HIDE DEF n
  <2>1. n = IF First(source) = "\\" /\ Len(source) > 1 THEN 2 ELSE 1
    BY DEF n
  <2> QED
    BY <1>1, <1>2, <2>1, CharTold
<1>4. CASE TextEnds(Drop(n))
  <2>1. ReturnNode("TEXT", buffer, n) /\ textBuffer' = <<>>
    BY <1>4 DEF TextChar
  <2> HIDE DEF n, buffer
  <2>2. Own([type |-> "TEXT", text |-> buffer, childs |-> <<>>]) = buffer
    BY DEF Own
  <2> QED
    BY <1>1, <1>3, <2>1, <2>2, MadeTold
<1>5. CASE ~ TextEnds(Drop(n))
  <2>1. source' = Drop(n) /\ textBuffer' = buffer /\ token' = token /\ nodes' = nodes
    BY <1>5 DEF TextChar
  <2> HIDE DEF n, buffer
  <2> DEFINE b == Bare(textBuffer, Markup)
             l == SubSeq(source, 1, n)
             r == SubSeq(source, n + 1, Len(source))
             bl == Bare(l, Markup)
             br == Bare(r, Markup)
  <2>2. n \in 0..Len(source)
    BY <1>2, <1>3
  <2>3. l \in Seq(Letters) /\ r \in Seq(Letters) /\ Bare(source, Markup) = bl \o br
    BY <1>2, <2>2, BareCut
  <2>4. b \in Seq(Letters) /\ bl \in Seq(Letters) /\ br \in Seq(Letters)
    BY <1>2, <2>3, BareType
  <2>5. (b \o bl) \o br = b \o (bl \o br)
    <3> HIDE DEF b, bl, br
    <3>1. Regroups(Letters)
      BY Regroup
    <3> QED
      BY <2>4, <3>1, Zenon DEF Regroups
  <2>6. LeftOf(textBuffer', source', Markup) = LeftOf(textBuffer, source, Markup)
    BY <1>3, <2>1, <2>3, <2>5 DEF LeftOf, Take, Drop
  <2>7. Markup' = Markup
    BY DEF Markup
  <2> QED
    BY <2>1, <2>6, <2>7 DEF SpellInv
<1> QED
  BY <1>4, <1>5

\* Every rule of the scanner
LEMMA LexTold ==
  ASSUME ParserInv, SpellInv, BufferInv, MarksInv, Lex, stack' = stack, program' = program
  PROVE  SpellInv'
<1>1. CASE SkipBlanks \/ OpenBlock \/ CloseBlock \/ Colon \/ NameEnds \/ EndOfSource
  BY <1>1, BlanksTold
<1>2. CASE InitialText \/ Symbol
  BY <1>2, RunTold
<1>3. CASE ArgRef
  BY <1>3, ArgRefTold
<1>4. CASE Literal
  BY <1>4, LiteralTold
<1>5. CASE TextChar
  BY <1>5, TextCharTold
<1> QED
  BY <1>1, <1>2, <1>3, <1>4, <1>5 DEF Lex

\* What is left of the source is a part of it
LEMMA LexMarks ==
  ASSUME LexTypes, MarksInv, Lex, program' = program
  PROVE  MarksInv'
<1>1. source \in Seq(Characters) /\ Len(source) \in Nat
  BY DEF LexTypes
<1>2. Markup' = Markup
  BY DEF Markup
<1>20. ASSUME \A i \in DOMAIN source' : \E j \in DOMAIN source : source[j] = source'[i]
       PROVE  MarksInv'
  BY <1>2, <1>20 DEF MarksInv
<1>3. ASSUME NEW n \in Nat, source' = Drop(n)
      PROVE  MarksInv'
  <2> SUFFICES ASSUME NEW i \in DOMAIN source'
               PROVE  \E j \in DOMAIN source : source[j] = source'[i]
    BY <1>20
  <2>1. source' = SubSeq(source, n + 1, Len(source))
    BY <1>3 DEF Drop
  <2>2. n + i \in DOMAIN source /\ source'[i] = source[n + i]
    BY <1>1, <2>1
  <2> QED
    BY <2>2
<1>4. source' = <<>> \/ source' = source \/ \E n \in Nat : source' = Drop(n)
  <2>1. CASE SkipBlanks \/ Colon
    <3> DEFINE blanks == RunLength(source, Blanks)
    <3>1. blanks \in Nat
      BY RunPart
    <3>2. source' = Drop(blanks) \/ source' = Drop(blanks + 1)
      BY <2>1 DEF SkipBlanks, Colon
    <3> HIDE DEF blanks
    <3> QED
      BY <3>1, <3>2
  <2>2. CASE InitialText \/ Symbol
    <3> DEFINE S == NotBracket(source)
               V == NotBracket(source) \ (Blanks \union {":"})
    <3>1. RunLength(source, S) \in Nat /\ RunLength(source, V) \in Nat
      BY RunPart
    <3>2. source' = Drop(RunLength(source, S)) \/ source' = Drop(RunLength(source, V))
      BY <2>2 DEF InitialText, Symbol, ReturnNode
    <3> QED
      BY <3>1, <3>2
  <2>3. CASE OpenBlock \/ CloseBlock \/ NameEnds \/ ArgRef \/ EndOfSource
    <3>1. source' \in {source, Drop(1), Drop(2)}
      BY <2>3 DEF OpenBlock, CloseBlock, NameEnds, ArgRef, EndOfSource, ReturnNode
    <3> QED
      BY <3>1
  <2>4. CASE Literal
    <3>1. CASE Len(source) = 2
      BY <2>4, <3>1 DEF Literal
    <3>2. CASE Len(source) # 2 /\ LiteralEnds # {}
      <4> DEFINE e == Min(LiteralEnds)
      <4>1. source' = Drop(e + 1)
        BY <2>4, <3>2 DEF Literal, ReturnNode
      <4>2. e \in Nat
        <5>1. \A k \in LiteralEnds : k \in 3..(Len(source) - 1)
          BY DEF LiteralEnds
        <5>2. LiteralEnds \in SUBSET Nat
          BY <1>1, <5>1
        <5> QED
          BY <3>2, <5>2, MinFacts
      <4> HIDE DEF e
      <4> QED
        BY <4>1, <4>2
    <3>3. CASE Len(source) # 2 /\ LiteralEnds = {}
      BY <1>1, <2>4, <3>3 DEF Literal, ReturnNode
    <3> QED
      BY <3>1, <3>2, <3>3
  <2>5. CASE TextChar
    <3> DEFINE n == IF First(source) = "\\" /\ Len(source) > 1 THEN 2 ELSE 1
    <3>1. source' = Drop(n) /\ n \in Nat
      BY <2>5 DEF TextChar, ReturnNode
    <3> QED
      BY <3>1
  <2> QED
    BY <2>1, <2>2, <2>3, <2>4, <2>5 DEF Lex
<1>5. CASE source' = <<>> \/ source' = source
  <2>1. \A i \in DOMAIN source' : \E j \in DOMAIN source : source[j] = source'[i]
    BY <1>5
  <2> QED
    BY <1>20, <2>1
<1> QED
  BY <1>3, <1>4, <1>5
-----------------------------------------------------------------------------
(* The parser says what it is given.                                           *)

\* What the scanner has still to say is a text
LEMMA LeftType ==
  ASSUME LexTypes
  PROVE  LeftOf(textBuffer, source, Markup) \in Seq(Letters)
<1>1. Bare(source, Markup) \in Seq(Letters) /\ Bare(textBuffer, Markup) \in Seq(Letters)
  BY SourceLetters
<1> QED
  BY <1>1, ConcatProperties DEF LeftOf

\* What a reduction leaves to say
LEMMA ReductionTold ==
  ASSUME Reduce, program' = program,
         Told(nodes', stack', token.node, LeftOf(textBuffer, source, Markup), Markup, Bare(program, Markup))
  PROVE  SpellInv'
<1>1. token' = token /\ textBuffer' = textBuffer /\ source' = source /\ Markup' = Markup
  BY DEF Reduce, Markup
<1> QED
  BY <1>1 DEF SpellInv

\* A reduction to a new node
LEMMA NewTold ==
  ASSUME ParserInv, SpellInv, Reduce, program' = program, NEW n, nodes' = Append(nodes, n),
         Own(n) = <<>>, n.childs \in Seq(DOMAIN nodes), NEW m \in 0..Height, NEW sym,
         stack' = Reduced(m, sym, Len(nodes) + 1),
         TakesTexts(nodes, stack, Height - m, n.childs)
  PROVE  SpellInv'
<1> DEFINE new == Len(nodes) + 1
           h == Height - m
           cs == n.childs
           tk == token.node
           rest == LeftOf(textBuffer, source, Markup)
           all == Bare(program, Markup)
<1>1. /\ Linked(nodes, stack, tk) /\ Tree(nodes) /\ stack \in Seq(StackItem)
      /\ Height = Len(stack) /\ Height \in Nat
  BY LinkedNow DEF ParserInv, StackInv, Height
<1>2. h \in 0..Len(stack) /\ stack' = Append(SubSeq(stack, 1, h), Item(sym, new))
  BY <1>1 DEF Reduced
<1>3. Adds(nodes, nodes', new, cs) /\ KeepsOwn(nodes, nodes') /\ nodes'[new] = n
  BY <1>1, AppendAdds, AppendKeepsOwn
<1>4. Own(nodes'[new]) = <<>> /\ cs \in Seq(DOMAIN nodes) /\ TakesTexts(nodes, stack, h, cs)
  BY <1>3
<1>5. Told(nodes, stack, tk, rest, Markup, all)
  BY DEF SpellInv
<1> HIDE DEF new, h, cs, tk, rest, all
<1>6. Told(nodes', stack', tk, rest, Markup, all)
  BY <1>1, <1>2, <1>3, <1>4, <1>5, BlockTold
<1> QED
  BY <1>6, ReductionTold DEF tk, rest, all

\* program: %empty
LEMMA EmptyProgramTold ==
  ASSUME ParserInv, SpellInv, ReduceEmptyProgram, program' = program
  PROVE  SpellInv'
<1> DEFINE n == [type |-> "PROGRAM", text |-> NoText, childs |-> <<>>]
           new == Len(nodes) + 1
<1>1. Reduce /\ stack = <<>> /\ stack' = <<Item("program", new)>> /\ nodes' = Append(nodes, n)
  BY DEF ReduceEmptyProgram, NewNode
<1>2. Height = 0
  BY <1>1 DEF Height
<1>3. stack' = Reduced(0, "program", new)
  BY <1>1, <1>2, SubSeqEmpty DEF Reduced
<1>4. n.childs = <<>> /\ Own(n) = <<>>
  BY DEF Own, NoText
<1> HIDE DEF n
<1>5. TakesTexts(nodes, stack, 0, <<>>)
  <2> DEFINE cs == <<>>
  <2> SUFFICES ASSUME NEW f
               PROVE  StackSays(f, stack) = StackSays(f, SubSeq(stack, 1, 0)) \o FlattenSeq(ListOf(f, cs))
    BY DEF TakesTexts
  <2>1. StackSays(f, <<>>) = <<>>
    <3>1. [k \in DOMAIN <<>> |-> Says(f, <<>>[k].node)] = <<>>
      OBVIOUS
    <3> QED
      BY <3>1, FlattenNone DEF StackSays
  <2>2. FlattenSeq(ListOf(f, cs)) = <<>>
    <3>1. ListOf(f, cs) = <<>>
      BY DEF ListOf
    <3> QED
      BY <3>1, FlattenNone
  <2>3. SubSeq(stack, 1, 0) = <<>>
    BY <1>1, SubSeqEmpty
  <2>4. <<>> \o <<>> = <<>>
    OBVIOUS
  <2> QED
    BY <1>1, <2>1, <2>2, <2>3, <2>4
<1>6. 0 \in 0..Height /\ Height - 0 = 0 /\ n.childs \in Seq(DOMAIN nodes)
  BY <1>2, <1>4
<1>7. TakesTexts(nodes, stack, Height - 0, n.childs)
  BY <1>4, <1>5, <1>6
<1> QED
  BY <1>1, <1>3, <1>4, <1>6, <1>7, NewTold

\* A reduction of the top to a new node over it
LEMMA WrapTold ==
  ASSUME ParserInv, SpellInv, Reduce, program' = program, TopSym \in Nonterminals,
         NEW type \in NodeTypes \ {"ARG_REF_ALL_ARGS"}, NEW sym,
         nodes' = AddChild(NewNode(nodes, type, NoText), Len(nodes) + 1, Node(Height)),
         stack' = Reduced(1, sym, Len(nodes) + 1)
  PROVE  SpellInv'
<1>1. Height \in Nat /\ Height = Len(stack) /\ StackInv /\ Tree(nodes) /\ stack \in Seq(StackItem)
  BY DEF ParserInv, StackInv, Height
<1>2. Stands(nodes, TopSym, Node(Height)) /\ Height \in 1..Height
  BY <1>1, SymFacts DEF TopSym, Nonterminals
<1> DEFINE c == Node(Height)
           n == [type |-> type, text |-> NoText, childs |-> <<c>>]
           new == Len(nodes) + 1
           tk == token.node
           h == Height - 1
<1>3. c \in DOMAIN nodes /\ c \in Nat
  BY <1>1, <1>2 DEF Stands, HasNode, Tree
<1>4. nodes' = Append(nodes, n)
  BY <1>1, <1>3, NewWithChild
<1>5. n.childs = <<c>> /\ Own(n) = <<>> /\ n.childs \in Seq(DOMAIN nodes)
  BY <1>3 DEF Own, NoText
<1>6. Linked(nodes, stack, tk)
  BY LinkedNow
<1>7. h \in Nat /\ Len(stack) = h + 1 /\ stack[h + 1].node = c /\ 1 \in 0..Height
  BY <1>1, <1>2 DEF Node
<1> HIDE DEF c, n, h, tk
<1>8. TakesTexts(nodes, stack, h, <<c>>)
  BY <1>1, <1>3, <1>6, <1>7, TakesItem
<1>9. TakesTexts(nodes, stack, Height - 1, n.childs)
  BY <1>5, <1>8 DEF h
<1> QED
  BY <1>4, <1>5, <1>7, <1>9, NewTold

\* args: args_child, and symbol: block
LEMMA WrapStepsTold ==
  ASSUME ParserInv, SpellInv, ReduceFirstArg \/ ReduceComputedName, program' = program
  PROVE  SpellInv'
<1>1. CASE ReduceFirstArg
  <2>1. /\ TopSym = "args_child" /\ Reduce
        /\ nodes' = AddChild(NewNode(nodes, "ARGS", NoText), Len(nodes) + 1, Node(Height))
        /\ stack' = Reduced(1, "args", Len(nodes) + 1)
    BY <1>1 DEF ReduceFirstArg
  <2>2. "args_child" \in Nonterminals /\ "ARGS" \in NodeTypes \ {"ARG_REF_ALL_ARGS"}
    BY DEF Nonterminals, NodeTypes
  <2> QED
    BY <2>1, <2>2, WrapTold
<1>2. CASE ReduceComputedName
  <2>1. /\ TopSym = "block" /\ Reduce
        /\ nodes' = AddChild(NewNode(nodes, "SYMBOL", NoText), Len(nodes) + 1, Node(Height))
        /\ stack' = Reduced(1, "symbol", Len(nodes) + 1)
    BY <1>2 DEF ReduceComputedName
  <2>2. "block" \in Nonterminals /\ "SYMBOL" \in NodeTypes \ {"ARG_REF_ALL_ARGS"}
    BY DEF Nonterminals, NodeTypes
  <2> QED
    BY <2>1, <2>2, WrapTold
<1> QED
  BY <1>1, <1>2

\* What stands for no node on the stack holds none
LEMMA NoNode ==
  ASSUME OnceInv, ParserInv, NEW k \in 1..Height, Sym(k) \in {"[", "]", ":"}
  PROVE  stack[k].node = 0
<1>1. k \in DOMAIN stack
  BY DEF ParserInv, StackInv, Height
<1>2. stack[k].sym \notin HasNode
  BY <1>1 DEF Sym, HasNode, Nonterminals, Leaves
<1> QED
  BY <1>1, <1>2 DEF OnceInv, Vacant

\* block: '[' symbol ':' args ']'
LEMMA AssignmentTold ==
  ASSUME ParserInv, SpellInv, OnceInv, ReduceAssignment, program' = program
  PROVE  SpellInv'
<1>1. Height \in Nat /\ Height = Len(stack) /\ stack \in Seq(StackItem)
  BY DEF ParserInv, StackInv, Height
<1>2. /\ Reduce /\ Sym(Height) = "]" /\ Sym(Height - 2) = ":"
      /\ nodes' = NewBlock("ASSIGNMENT", <<Node(Height - 3), Node(Height - 1)>>)
      /\ stack' = Reduced(5, "block", Len(nodes) + 1)
  BY DEF ReduceAssignment, TopSym
<1>3. Sym(Height - 3) = "symbol" /\ Node(Height - 3) \in DOMAIN nodes
  <2>1. Height - 2 \in Int /\ Height - 3 \in Int /\ (Height - 2) - 1 = Height - 3
    BY <1>1
  <2> QED
    BY <1>2, <2>1, NamesAndLists
<1>4. Sym(Height - 1) = "args" /\ Node(Height - 1) \in DOMAIN nodes
  <2>1. Sym(Height - 1) \in {"symbol", "args"}
    <3>1. Height \in Int /\ Sym(Height) = "]"
      BY <1>1, <1>2
    <3> QED
      BY <3>1, NamesAndLists
  <2>2. Height - 1 \in Int /\ (Height - 1) - 1 = Height - 2
    BY <1>1
  <2>3. Sym(Height - 1) = "args"
    BY <1>2, <2>1, <2>2, NamesAndLists
  <2> QED
    BY <2>2, <2>3, NamesAndLists
<1>5. Sym(Height - 4) = "[" /\ Height - 4 \in 1..Height
  <2>1. Height - 3 \in Int /\ Height - 4 \in Int /\ (Height - 3) - 1 = Height - 4
    BY <1>1
  <2>2. Sym(Height - 4) = "["
    BY <1>3, <2>1, NamesAndLists
  <2> QED
    BY <2>1, <2>2, NamesAndLists
<1> DEFINE h == Height - 5
           c == Node(Height - 3)
           d == Node(Height - 1)
           tk == token.node
           n == [type |-> "ASSIGNMENT", text |-> NoText, childs |-> <<c, d>>]
<1>6. /\ h \in Nat /\ Len(stack) = h + 5 /\ 5 \in 0..Height
      /\ Height - 4 = h + 1 /\ Height - 3 = h + 2 /\ Height - 2 = h + 3 /\ Height - 1 = h + 4 /\ Height = h + 5
      /\ Height - 2 \in 1..Height /\ Height \in 1..Height
  BY <1>1, <1>5
<1>7. stack[h + 1].node = 0 /\ stack[h + 3].node = 0 /\ stack[h + 5].node = 0
  <2>1. stack[Height - 4].node = 0 /\ stack[Height - 2].node = 0 /\ stack[Height].node = 0
    BY <1>2, <1>5, <1>6, NoNode
  <2> QED
    BY <1>6, <2>1
<1>8. stack[h + 2].node = c /\ stack[h + 4].node = d
  <2>1. stack[Height - 3].node = c /\ stack[Height - 1].node = d
    BY DEF Node
  <2> QED
    BY <1>6, <2>1
<1>9. n.childs = <<c, d>> /\ Own(n) = <<>> /\ n.childs \in Seq(DOMAIN nodes)
  BY <1>3, <1>4 DEF Own, NoText
<1>10. nodes' = Append(nodes, n)
  BY <1>2 DEF NewBlock
<1>11. Linked(nodes, stack, tk)
  BY LinkedNow
<1>12. c \in DOMAIN nodes /\ d \in DOMAIN nodes
  BY <1>3, <1>4
<1> HIDE DEF h, c, d, tk, n
<1>13. TakesTexts(nodes, stack, h, <<c, d>>)
  BY <1>1, <1>6, <1>7, <1>8, <1>11, <1>12, TakesDefinition
<1>14. TakesTexts(nodes, stack, Height - 5, n.childs)
  BY <1>9, <1>13 DEF h
<1> QED
  BY <1>2, <1>6, <1>9, <1>10, <1>14, NewTold

\* block: '[' symbol args ']'
LEMMA CallWithArgsTold ==
  ASSUME ParserInv, SpellInv, OnceInv, ReduceCallWithArgs, program' = program
  PROVE  SpellInv'
<1>1. Height \in Nat /\ Height = Len(stack) /\ stack \in Seq(StackItem)
  BY DEF ParserInv, StackInv, Height
<1>2. /\ Reduce /\ Sym(Height) = "]" /\ Sym(Height - 1) = "args" /\ Sym(Height - 2) = "symbol"
      /\ nodes' = NewBlock("CALL", <<Node(Height - 2), Node(Height - 1)>>)
      /\ stack' = Reduced(4, "block", Len(nodes) + 1)
  BY DEF ReduceCallWithArgs, TopSym
<1>3. Node(Height - 2) \in DOMAIN nodes /\ Node(Height - 1) \in DOMAIN nodes
  <2>1. Height - 2 \in Int /\ Height - 1 \in Int
    BY <1>1
  <2> QED
    BY <1>2, <2>1, NamesAndLists
<1>5. Sym(Height - 3) = "[" /\ Height - 3 \in 1..Height
  <2>1. Height - 2 \in Int /\ Height - 3 \in Int /\ (Height - 2) - 1 = Height - 3
    BY <1>1
  <2>2. Sym(Height - 3) = "["
    BY <1>2, <2>1, NamesAndLists
  <2> QED
    BY <2>1, <2>2, NamesAndLists
<1> DEFINE h == Height - 4
           c == Node(Height - 2)
           d == Node(Height - 1)
           tk == token.node
           n == [type |-> "CALL", text |-> NoText, childs |-> <<c, d>>]
<1>6. /\ h \in Nat /\ Len(stack) = h + 4 /\ 4 \in 0..Height
      /\ Height - 3 = h + 1 /\ Height - 2 = h + 2 /\ Height - 1 = h + 3 /\ Height = h + 4
      /\ Height \in 1..Height
  BY <1>1, <1>5
<1>7. stack[h + 1].node = 0 /\ stack[h + 4].node = 0
  <2>1. stack[Height - 3].node = 0 /\ stack[Height].node = 0
    BY <1>2, <1>5, <1>6, NoNode
  <2> QED
    BY <1>6, <2>1
<1>8. stack[h + 2].node = c /\ stack[h + 3].node = d
  <2>1. stack[Height - 2].node = c /\ stack[Height - 1].node = d
    BY DEF Node
  <2> QED
    BY <1>6, <2>1
<1>9. n.childs = <<c, d>> /\ Own(n) = <<>> /\ n.childs \in Seq(DOMAIN nodes)
  BY <1>3 DEF Own, NoText
<1>10. nodes' = Append(nodes, n)
  BY <1>2 DEF NewBlock
<1>11. Linked(nodes, stack, tk)
  BY LinkedNow
<1>12. c \in DOMAIN nodes /\ d \in DOMAIN nodes
  BY <1>3
<1> HIDE DEF h, c, d, tk, n
<1>13. TakesTexts(nodes, stack, h, <<c, d>>)
  BY <1>1, <1>6, <1>7, <1>8, <1>11, <1>12, TakesBoth
<1>14. TakesTexts(nodes, stack, Height - 4, n.childs)
  BY <1>9, <1>13 DEF h
<1> QED
  BY <1>2, <1>6, <1>9, <1>10, <1>14, NewTold

\* block: '[' symbol ']'
LEMMA CallTold ==
  ASSUME ParserInv, SpellInv, OnceInv, ReduceCall, program' = program
  PROVE  SpellInv'
<1>1. Height \in Nat /\ Height = Len(stack) /\ stack \in Seq(StackItem)
  BY DEF ParserInv, StackInv, Height
<1>2. /\ Reduce /\ Sym(Height) = "]" /\ Sym(Height - 1) = "symbol"
      /\ nodes' = NewBlock("CALL", <<Node(Height - 1)>>)
      /\ stack' = Reduced(3, "block", Len(nodes) + 1)
  BY DEF ReduceCall, TopSym
<1>3. Node(Height - 1) \in DOMAIN nodes /\ Sym(Height - 2) = "[" /\ Height - 2 \in 1..Height
  <2>1. Height - 1 \in Int /\ Height - 2 \in Int /\ (Height - 1) - 1 = Height - 2
    BY <1>1
  <2>2. Node(Height - 1) \in DOMAIN nodes /\ Sym(Height - 2) = "["
    BY <1>2, <2>1, NamesAndLists
  <2> QED
    BY <2>1, <2>2, NamesAndLists
<1> DEFINE h == Height - 3
           c == Node(Height - 1)
           tk == token.node
           n == [type |-> "CALL", text |-> NoText, childs |-> <<c>>]
<1>6. /\ h \in Nat /\ Len(stack) = h + 3 /\ 3 \in 0..Height
      /\ Height - 2 = h + 1 /\ Height - 1 = h + 2 /\ Height = h + 3
      /\ Height \in 1..Height
  BY <1>1, <1>3
<1>7. stack[h + 1].node = 0 /\ stack[h + 3].node = 0
  <2>1. stack[Height - 2].node = 0 /\ stack[Height].node = 0
    BY <1>2, <1>3, <1>6, NoNode
  <2> QED
    BY <1>6, <2>1
<1>8. stack[h + 2].node = c
  <2>1. stack[Height - 1].node = c
    BY DEF Node
  <2> QED
    BY <1>6, <2>1
<1>9. n.childs = <<c>> /\ Own(n) = <<>> /\ n.childs \in Seq(DOMAIN nodes)
  BY <1>3 DEF Own, NoText
<1>10. nodes' = Append(nodes, n)
  BY <1>2 DEF NewBlock
<1>11. Linked(nodes, stack, tk)
  BY LinkedNow
<1>12. c \in DOMAIN nodes
  BY <1>3
<1> HIDE DEF h, c, tk, n
<1>13. TakesTexts(nodes, stack, h, <<c>>)
  BY <1>1, <1>6, <1>7, <1>8, <1>11, <1>12, TakesName
<1>14. TakesTexts(nodes, stack, Height - 3, n.childs)
  BY <1>9, <1>13 DEF h
<1> QED
  BY <1>2, <1>6, <1>9, <1>10, <1>14, NewTold

\* The token is shifted
LEMMA StepShiftTold ==
  ASSUME ParserInv, SpellInv, Shift, program' = program
  PROVE  SpellInv'
<1> DEFINE kind == token.kind
           tk == token.node
           rest == LeftOf(textBuffer, source, Markup)
           all == Bare(program, Markup)
<1>1. /\ stack' = Append(stack, Item(kind, tk)) /\ token'.node = 0 /\ nodes' = nodes
      /\ source' = source /\ textBuffer' = textBuffer /\ Markup' = Markup
  BY DEF Shift, NoToken, Markup
<1>2. Linked(nodes, stack, tk) /\ stack \in Seq(StackItem) /\ LexTypes
  BY LinkedNow DEF ParserInv, StackInv
<1>3. rest \in Seq(Letters) /\ Told(nodes, stack, tk, rest, Markup, all)
  BY <1>2, LeftType DEF SpellInv
<1> HIDE DEF kind, tk, rest, all
<1>4. Told(nodes, Append(stack, Item(kind, tk)), 0, rest, Markup, all)
  BY <1>2, <1>3, ShiftTold
<1> QED
  BY <1>1, <1>4 DEF SpellInv, rest, all

\* A reduction that keeps the node, in a tree that says the same
LEMMA KeptTold ==
  ASSUME ParserInv, Reduce, program' = program, TopSym # "bottom",
         Linked(nodes', stack, token.node), NEW sym, stack' = Reduced(1, sym, Node(Height)),
         Told(nodes', stack, token.node, LeftOf(textBuffer, source, Markup), Markup, Bare(program, Markup))
  PROVE  SpellInv'
<1> DEFINE k == Height
           tk == token.node
           rest == LeftOf(textBuffer, source, Markup)
           all == Bare(program, Markup)
<1>1. Height \in Nat /\ Height = Len(stack) /\ stack \in Seq(StackItem) /\ StackInv
  BY DEF ParserInv, StackInv, Height
<1>2. k \in 1..Len(stack) /\ k = Len(stack)
  BY <1>1, SymFacts DEF TopSym
<1>3. stack' = Append(SubSeq(stack, 1, k - 1), Item(sym, stack[k].node))
  BY DEF Reduced, Node
<1>4. Linked(nodes', stack, tk) /\ Told(nodes', stack, tk, rest, Markup, all)
  OBVIOUS
<1> HIDE DEF k, tk, rest, all
<1>5. Told(nodes', stack', tk, rest, Markup, all)
  BY <1>1, <1>2, <1>3, <1>4, RenamedTold
<1> QED
  BY <1>5, ReductionTold DEF tk, rest, all

\* args_child: TEXT | LITERAL | ARG_REF_ALL_ARGS | block
LEMMA ArgsChildTold ==
  ASSUME ParserInv, SpellInv, ReduceArgsChild, program' = program
  PROVE  SpellInv'
<1>1. /\ TopSym # "bottom" /\ Reduce /\ nodes' = nodes
      /\ stack' = Reduced(1, "args_child", Node(Height))
  BY DEF ReduceArgsChild, Leaves
<1>2. Linked(nodes', stack, token.node)
  BY <1>1, LinkedNow
<1>3. Told(nodes', stack, token.node, LeftOf(textBuffer, source, Markup), Markup, Bare(program, Markup))
  BY <1>1 DEF SpellInv
<1> QED
  BY <1>1, <1>2, <1>3, KeptTold

Smalls == {"a", "b", "f"}

\* The letters that to_lower looks at and makes are not markup
LEMMA MarkupLetters == \A c \in Markup : c \notin UpperCase /\ c \notin Smalls
<1>1. \A c \in Blanks \union {"[", "]", ":"} : c \notin UpperCase /\ c \notin Smalls
  BY DEF Blanks, UpperCase, Smalls
<1>2. \A c \in {"\\", "{", "#", "}"} : c \notin UpperCase /\ c \notin Smalls
  BY Zenon DEF UpperCase, Smalls
<1>3. ASSUME NEW c \in Markup PROVE c \in Blanks \union {"[", "]", ":"} \/ c \in {"\\", "{", "#", "}"}
  BY <1>3, Zenon DEF Markup
<1> QED
  BY <1>1, <1>2, <1>3, Zenon

\* Lowercase: of capitals small letters, of others themselves, and once is enough
LEMMA LowerLetters ==
  /\ \A c : c \in UpperCase => ToLower(c) \in Smalls
  /\ \A c : c \notin UpperCase => ToLower(c) = c
  /\ \A c : ToLower(ToLower(c)) = ToLower(c)
<1>1. \A c : c \in UpperCase => ToLower(c) \in Smalls
  BY DEF ToLower, UpperCase, Smalls
<1>2. \A c : c \notin UpperCase => ToLower(c) = c
  BY DEF ToLower, UpperCase
<1>3. \A c \in Smalls : c \notin UpperCase
  BY DEF UpperCase, Smalls
<1> QED
  BY <1>1, <1>2, <1>3

\* Of a letter and of its lowercase the same is kept
LEMMA KeptLower ==
  ASSUME NEW c
  PROVE  Kept(ToLower(c), Markup) = Kept(c, Markup)
<1>1. ToLower(c) \in Markup <=> c \in Markup
  BY MarkupLetters, LowerLetters
<1>2. ToLower(ToLower(c)) = ToLower(c)
  BY LowerLetters
<1> QED
  BY <1>1, <1>2 DEF Kept

\* A name says the same in lower case
LEMMA BareLower ==
  ASSUME NEW s \in Seq(Characters)
  PROVE  Bare(Lower(s), Markup) = Bare(s, Markup)
<1>1. DOMAIN Lower(s) = DOMAIN s /\ \A i \in DOMAIN s : Lower(s)[i] = ToLower(s[i])
  BY DEF Lower
<1>2. [i \in DOMAIN Lower(s) |-> Kept(Lower(s)[i], Markup)] = [i \in DOMAIN s |-> Kept(s[i], Markup)]
  BY <1>1, KeptLower
<1> QED
  BY <1>2 DEF Bare

\* symbol: SYMBOL, which is made lower case
LEMMA NameTold ==
  ASSUME ParserInv, SpellInv, ReduceName, program' = program
  PROVE  SpellInv'
<1> DEFINE top == Node(Height)
           text == Lower(nodes[top].text)
           tk == token.node
           rest == LeftOf(textBuffer, source, Markup)
           all == Bare(program, Markup)
<1>1. /\ TopSym = "SYMBOL" /\ Reduce /\ nodes' = [nodes EXCEPT ![top].text = text]
      /\ stack' = Reduced(1, "symbol", top)
  BY DEF ReduceName, SetText
<1>2. nodes \in Seq(NodeRecord) /\ Height \in Nat /\ StackInv
  BY DEF ParserInv, Tree, StackInv, Height
<1>3. top \in DOMAIN nodes /\ nodes[top].type = "SYMBOL"
  <2>1. Stands(nodes, TopSym, top)
    BY <1>1, <1>2, SymFacts DEF TopSym
  <2> QED
    BY <1>1, <2>1 DEF Stands, HasNode, TypesOf, Leaves
<1>4. \A id \in DOMAIN nodes : nodes[id] \in NodeRecord
  BY <1>2
<1>5. Bare(text, Markup) = Bare(nodes[top].text, Markup)
  <2>1. nodes[top].text \in Seq(Characters)
    BY <1>3, <1>4 DEF NodeRecord
  <2> QED
    BY <2>1, BareLower
<1> HIDE DEF text
<1>6. DOMAIN nodes' = DOMAIN nodes
  BY <1>1, <1>2
<1>7. ASSUME NEW id \in DOMAIN nodes
      PROVE  nodes'[id].childs = nodes[id].childs /\ Bare(Own(nodes'[id]), Markup) = Bare(Own(nodes[id]), Markup)
  <2>1. CASE id = top
    <3> DEFINE n == nodes[id]
    <3>1. nodes'[id] = [n EXCEPT !.text = text]
      BY <1>1, <2>1
    <3>2. n \in NodeRecord
      BY <1>4
    <3> HIDE DEF n
    <3>3. nodes'[id].childs = n.childs /\ nodes'[id].type = n.type /\ nodes'[id].text = text
      BY <3>1, <3>2 DEF NodeRecord
    <3>4. Own(nodes'[id]) = text /\ Own(nodes[id]) = nodes[top].text
      BY <1>3, <2>1, <3>3 DEF Own, n
    <3> QED
      BY <1>5, <3>3, <3>4 DEF n
  <2>2. CASE id # top
    <3>1. nodes'[id] = nodes[id]
      BY <1>1, <2>2
    <3> QED
      BY <3>1
  <2> QED
    BY <2>1, <2>2
<1>8. Told(nodes, stack, tk, rest, Markup, all)
  BY DEF SpellInv
<1>9. Told(nodes', stack, tk, rest, Markup, all)
  <2> HIDE DEF tk, rest, all, top
  <2> QED
    BY <1>6, <1>7, <1>8, RewordedTold
<1>10. Linked(nodes', stack, tk)
  <2>1. Linked(nodes, stack, tk)
    BY LinkedNow
  <2> HIDE DEF tk, top
  <2> QED
    BY <1>6, <1>7, <2>1 DEF Linked
<1>11. TopSym # "bottom"
  BY <1>1
<1> QED
  BY <1>1, <1>9, <1>10, <1>11, KeptTold

\* A list with one more child at the end says the rest of what it said
LEMMA ListGrows ==
  ASSUME ParserInv, OnceInv, ReduceAppendChild, NEW p, p = Node(Height - 1), NEW c, c = Node(Height)
  PROVE  GrowsBy(nodes, nodes', p, c)
<1>1. Tree(nodes) /\ StackInv /\ nodes \in Seq(NodeRecord) /\ stack \in Seq(StackItem)
  BY DEF ParserInv, Tree, StackInv
<1>2. /\ TopSym = "args_child" /\ Sym(Height - 1) \in {"program", "args"}
      /\ nodes' = [nodes EXCEPT ![p].childs = Append(@, c)]
  BY DEF ReduceAppendChild, AddChild
<1>3. Height \in Nat /\ Height - 1 \in Int /\ Height = Len(stack) /\ Height \in Int
  BY <1>1 DEF StackInv, Height
<1>4. Stands(nodes, Sym(Height - 1), p) /\ Height - 1 \in 1..Height
  BY <1>1, <1>2, <1>3, SymFacts
<1>5. p \in DOMAIN nodes /\ nodes[p].type \in {"PROGRAM", "ARGS"}
  BY <1>2, <1>4 DEF Stands, HasNode, Nonterminals, TypesOf, Leaves
<1>6. c \in DOMAIN nodes
  <2>1. Stands(nodes, TopSym, c)
    BY <1>1, <1>2, <1>3, SymFacts DEF TopSym
  <2> QED
    BY <1>2, <2>1 DEF Stands, HasNode, Nonterminals
<1>7. \A id \in DOMAIN nodes : nodes[id] \in NodeRecord
  BY <1>1
<1>8. DOMAIN nodes' = DOMAIN nodes /\ \A id \in DOMAIN nodes \ {p} : nodes'[id] = nodes[id]
  BY <1>1, <1>2
<1>9. nodes'[p].childs = Append(nodes[p].childs, c) /\ Own(nodes'[p]) = Own(nodes[p]) /\ Own(nodes[p]) \in Seq(Letters)
  <2> DEFINE n == nodes[p]
  <2>1. n \in NodeRecord /\ nodes'[p] = [n EXCEPT !.childs = Append(@, c)]
    BY <1>1, <1>2, <1>5, <1>7
  <2>2. n.type # "ARG_REF_ALL_ARGS"
    BY <1>5
  <2> HIDE DEF n
  <2>3. nodes'[p].type = n.type /\ nodes'[p].text = n.text /\ nodes'[p].childs = Append(n.childs, c)
    BY <2>1 DEF NodeRecord
  <2>4. Own(nodes'[p]) = n.text /\ Own(n) = n.text
    BY <2>2, <2>3 DEF Own
  <2>5. n.text \in Seq(Characters)
    BY <2>1 DEF NodeRecord
  <2>6. n.text \in Seq(Letters)
    BY <2>5 DEF Letters
  <2> QED
    BY <2>3, <2>4, <2>6 DEF n
<1>10. KeepsOwn(nodes, nodes')
  BY <1>8, <1>9 DEF KeepsOwn
<1> DEFINE tk == token.node
           h == Height - 1
<1>11. h \in Nat /\ h \in DOMAIN stack /\ stack[h].node = p /\ Height \in DOMAIN stack /\ Height # h /\ stack[Height].node = c
  BY <1>1, <1>3, <1>4 DEF Node
<1>12. Linked(nodes, stack, tk) /\ Placed(nodes, stack, tk, p)
  BY <1>5, LinkedNow DEF OnceInv, Once
<1> HIDE DEF tk, h
<1>13. OnlyAt(nodes, stack, tk, p, 0, h)
  <2>1. Holds(nodes, stack, tk, 0, h, p) /\ 0 \in Nat
    BY <1>11 DEF Holds
  <2> QED
    BY <1>11, <1>12, <2>1, NowhereElse
<1>14. c # p
  <2>1. ASSUME c = p PROVE Holds(nodes, stack, tk, 0, Height, p)
    BY <1>11, <2>1 DEF Holds
  <2> QED
    BY <1>3, <1>11, <1>13, <2>1 DEF OnlyAt
<1>15. Rooted(nodes) /\ DOMAIN nodes \subseteq Nat \ {0}
  BY <1>12, LinkedFacts DEF Linked
<1>16. \A id \in DOMAIN nodes : \A k \in DOMAIN nodes[id].childs : nodes[id].childs[k] # p
  <2> SUFFICES ASSUME NEW id \in DOMAIN nodes, NEW k \in DOMAIN nodes[id].childs, nodes[id].childs[k] = p
               PROVE  FALSE
    OBVIOUS
  <2>1. Holds(nodes, stack, tk, id, k, p)
    BY DEF Holds
  <2>2. id \in Nat \ {0} /\ k \in Nat
    BY <1>12 DEF Linked
  <2> QED
    BY <1>13, <2>1, <2>2 DEF OnlyAt
<1>17. nodes[p].childs \in Seq(DOMAIN nodes)
  <2> DEFINE cs == nodes[p].childs
  <2>1. cs \in Seq(Nat)
    BY <1>5, <1>7 DEF NodeRecord
  <2>2. \A k \in DOMAIN cs : cs[k] \in DOMAIN nodes
    BY <1>5, <1>15 DEF Rooted
  <2> HIDE DEF cs
  <2>3. cs \in Seq(DOMAIN nodes)
    BY <2>1, <2>2
  <2> QED
    BY <2>3 DEF cs
<1>18. \A id \in DOMAIN nodes \ {p} : nodes'[id].childs = nodes[id].childs
  BY <1>8
<1> QED
  BY <1>5, <1>6, <1>8, <1>9, <1>10, <1>14, <1>15, <1>16, <1>17, <1>18 DEF GrowsBy

\* program: program args_child, and args: args args_child
LEMMA AppendChildTold ==
  ASSUME ParserInv, SpellInv, OnceInv, ReduceAppendChild, program' = program
  PROVE  SpellInv'
<1> DEFINE p == Node(Height - 1)
           c == Node(Height)
           h == Height - 2
           tk == token.node
           rest == LeftOf(textBuffer, source, Markup)
           all == Bare(program, Markup)
<1>1. stack \in Seq(StackItem) /\ Height \in Nat /\ Height = Len(stack) /\ LexTypes
      /\ Linked(nodes, stack, tk) /\ StackInv
  BY LinkedNow DEF ParserInv, StackInv, Height
<1>2. GrowsBy(nodes, nodes', p, c)
  BY ListGrows
<1>3. Reduce /\ stack' = Front(stack) /\ Sym(Height - 1) \in {"program", "args"}
  BY DEF ReduceAppendChild
<1>4. Height - 1 \in 1..Height
  <2>1. Height - 1 \in Int
    BY <1>1
  <2> QED
    BY <1>1, <1>3, <2>1, SymFacts
<1>5. /\ h \in Nat /\ Len(stack) = h + 2 /\ h + 1 = Height - 1 /\ h + 2 = Height
      /\ h + 1 \in Nat /\ h + 1 \in DOMAIN stack
  BY <1>1, <1>4
<1>6. stack[h + 1].node = p /\ stack[h + 2].node = c
  BY <1>5 DEF Node
<1>7. stack' = SubSeq(stack, 1, h + 1)
  BY <1>1, <1>3, <1>5 DEF Front
<1>8. rest \in Seq(Letters) /\ Told(nodes, stack, tk, rest, Markup, all)
  BY <1>1, LeftType DEF SpellInv
<1> HIDE DEF p, c, h, tk, rest, all
<1>9. OnlyAt(nodes, stack, tk, p, 0, h + 1)
  <2>1. Holds(nodes, stack, tk, 0, h + 1, p) /\ 0 \in Nat
    BY <1>5, <1>6 DEF Holds
  <2>2. p \in DOMAIN nodes
    BY <1>2 DEF GrowsBy
  <2>3. Placed(nodes, stack, tk, p)
    BY <2>2 DEF OnceInv, Once, tk
  <2> QED
    BY <1>5, <2>1, <2>3, NowhereElse
<1>10. \A k \in 1..h : stack[k].node # p
  <2> SUFFICES ASSUME NEW k \in 1..h, stack[k].node = p PROVE FALSE
    OBVIOUS
  <2>1. k \in Nat /\ k # h + 1 /\ k \in DOMAIN stack
    BY <1>1, <1>5
  <2>2. Holds(nodes, stack, tk, 0, k, p)
    BY <2>1 DEF Holds
  <2> QED
    BY <1>9, <2>1, <2>2 DEF OnlyAt
<1>11. tk # p
  <2>1. ASSUME tk = p PROVE Holds(nodes, stack, tk, 0, 0, p)
    BY <2>1 DEF Holds
  <2>2. h + 1 # 0
    BY <1>5
  <2> QED
    BY <1>9, <2>1, <2>2 DEF OnlyAt
<1>12. Told(nodes', stack', tk, rest, Markup, all)
  <2>1. stack \in Seq(StackItem) /\ Linked(nodes, stack, tk) /\ h \in Nat
    BY <1>1, <1>5
  <2>2. OnTop(stack, stack', h, p, c, tk)
    BY <1>5, <1>6, <1>7, <1>10, <1>11 DEF OnTop
  <2> QED
    BY <1>2, <1>8, <2>1, <2>2, ChildTold
<1> QED
  BY <1>3, <1>12, ReductionTold DEF tk, rest, all
-----------------------------------------------------------------------------
(* The program at the bottom of the stack.                                     *)

(* There is one program, the first node made, at the bottom of the stack; the  *)
(* end is returned when nothing is left, and accepted after the program alone. *)
RootInv ==
  /\ IF stack = <<>> THEN nodes = <<>> /\ token = NoToken ELSE stack[1] = Item("program", 1)
  /\ \A k \in DOMAIN stack : stack[k].sym = "program" => k = 1
  /\ token.kind = "EOF" => source = <<>>
  /\ parsing = "accepted" => token.kind = "EOF" /\ TopSym = "program"

\* A reduction above the program
LEMMA ReducedRoot ==
  ASSUME ParserInv, RootInv, Reduce, NEW m \in 1..Height, Sym(Height - m + 1) # "program",
         NEW sym, sym # "program", NEW node, stack' = Reduced(m, sym, node)
  PROVE  RootInv'
<1> DEFINE h == Height - m
<1>1. stack \in Seq(StackItem) /\ Height \in Nat /\ Height = Len(stack) /\ DOMAIN stack = 1..Height
  BY DEF ParserInv, StackInv, Height
<1>2. stack # <<>> /\ stack[1] = Item("program", 1)
  <2>1. stack # <<>>
    BY <1>1
  <2> QED
    BY <2>1 DEF RootInv
<1>3. h \in Nat \ {0} /\ h \in 0..Height
  <2>1. h \in 0..Height
    BY <1>1
  <2>2. ASSUME h = 0 PROVE FALSE
    <3>1. Height - m + 1 = 1 /\ 1 \in DOMAIN stack
      BY <1>1, <2>2
    <3> QED
      BY <1>2, <3>1 DEF Sym, Item
  <2> QED
    BY <2>1, <2>2
<1>4. Pushed(stack, stack', h, sym, node)
  <2>1. m \in 0..Height /\ StackInv
    BY <1>1 DEF ParserInv
  <2> QED
    BY <1>1, <2>1, ReducedPushes
<1> HIDE DEF h
<1>5. /\ \A k \in 1..h : stack'[k] = stack[k]
      /\ stack'[h + 1] = Item(sym, node)
      /\ Len(stack') = h + 1
  BY <1>4 DEF Pushed
<1>6. DOMAIN stack' = 1..(h + 1)
  <2> DEFINE l == SubSeq(stack, 1, h)
             x == Item(sym, node)
  <2>1. stack' = Append(l, x)
    BY DEF Reduced, h
  <2>2. l \in Seq(StackItem) /\ Len(l) = h
    BY <1>1, <1>3
  <2> HIDE DEF l, x
  <2>3. l \in Seq(StackItem \union {x})
    BY <2>2
  <2>4. DOMAIN Append(l, x) = 1..(h + 1)
    BY <1>3, <2>2, <2>3
  <2> QED
    BY <2>1, <2>4
<1>7. stack' # <<>> /\ stack'[1] = Item("program", 1)
  BY <1>2, <1>3, <1>5, <1>6
<1>8. \A k \in DOMAIN stack' : stack'[k].sym = "program" => k = 1
  <2> SUFFICES ASSUME NEW k \in DOMAIN stack', stack'[k].sym = "program" PROVE k = 1
    OBVIOUS
  <2>1. CASE k = h + 1
    BY <1>5, <2>1 DEF Item
  <2>2. CASE k \in 1..h
    <3>1. k \in DOMAIN stack /\ stack[k].sym = "program"
      BY <1>1, <1>3, <1>5, <2>2
    <3> QED
      BY <3>1 DEF RootInv
  <2> QED
    BY <1>3, <1>6, <2>1, <2>2
<1>9. token' = token /\ source' = source /\ parsing = "running" /\ parsing' = parsing
  BY DEF Reduce
<1>10. (token.kind = "EOF" => source = <<>>)'
  BY <1>9 DEF RootInv
<1> QED
  BY <1>7, <1>8, <1>9, <1>10 DEF RootInv

\* The scanner leaves the stack alone, and returns the end when nothing is left
LEMMA ReadTokenRoot ==
  ASSUME ParserInv, RootInv, ReadToken
  PROVE  RootInv'
<1>1. NeedsToken /\ Lex /\ stack' = stack /\ parsing' = parsing /\ parsing = "running"
  BY DEF ReadToken, parserVars, NeedsToken
<1>2. stack # <<>>
  <2>1. ASSUME stack = <<>> PROVE Acceptable = {}
    BY <2>1 DEF Acceptable, TopSym, Sym, Height
  <2> QED
    BY <1>1, <2>1 DEF NeedsToken
<1>3. token'.kind = "EOF" => source' = <<>>
  <2>0. \A type, text, n : ReturnNode(type, text, n) => token'.kind = type
    BY DEF ReturnNode
  <2>1. CASE EndOfSource
    BY <2>1 DEF EndOfSource
  <2>2. CASE SkipBlanks \/ NameEnds \/ OpenBlock \/ CloseBlock \/ Colon
    BY <2>2 DEF SkipBlanks, NameEnds, OpenBlock, CloseBlock, Colon, Scanning, NoToken, Punctuation
  <2>3. CASE InitialText \/ Symbol \/ ArgRef
    <3>1. token'.kind \in {"TEXT", "SYMBOL", "ARG_REF_ALL_ARGS"}
      BY <2>0, <2>3, Zenon DEF InitialText, Symbol, ArgRef
    <3> QED
      BY <3>1
  <2>4. CASE Literal \/ TextChar
    <3>1. token' = token \/ token'.kind \in {"TEXT", "LITERAL"}
      BY <2>0, <2>4, Zenon DEF Literal, TextChar
    <3>2. token = NoToken
      BY <2>4 DEF Literal, TextChar, InContent, Scanning
    <3> QED
      BY <3>1, <3>2 DEF NoToken
  <2> QED
    BY <1>1, <2>1, <2>2, <2>3, <2>4 DEF Lex
<1> QED
  BY <1>1, <1>2, <1>3 DEF RootInv

\* A shift above the program
LEMMA ShiftRoot ==
  ASSUME ParserInv, RootInv, Shift
  PROVE  RootInv'
<1> DEFINE x == Item(token.kind, token.node)
           h == Height
<1>1. stack \in Seq(StackItem) /\ h \in Nat /\ h = Len(stack)
  BY DEF ParserInv, StackInv, Height
<1>2. /\ stack' = Append(stack, x) /\ token' = NoToken /\ parsing = "running" /\ parsing' = parsing
      /\ token.kind \in Acceptable \ {"EOF"}
  BY DEF Shift, HasToken, NeedsToken
<1>3. stack # <<>> /\ token.kind # "program"
  <2>1. ASSUME stack = <<>> PROVE Acceptable = {}
    BY <2>1 DEF Acceptable, TopSym, Sym, Height
  <2>2. "program" \notin Acceptable
    BY DEF Acceptable, Leaves
  <2> QED
    BY <1>2, <2>1, <2>2
<1>4. stack[1] = Item("program", 1)
  BY <1>3 DEF RootInv
<1>5. x.sym # "program"
  BY <1>3 DEF Item
<1>6. h >= 1
  BY <1>1, <1>3
<1> HIDE DEF x, h
<1>7. /\ DOMAIN stack' = 1..(h + 1) /\ stack'[h + 1] = x
      /\ \A k \in 1..h : stack'[k] = stack[k]
  BY <1>1, <1>2
<1>8. stack' # <<>> /\ stack'[1] = Item("program", 1)
  BY <1>1, <1>4, <1>6, <1>7
<1>9. \A k \in DOMAIN stack' : stack'[k].sym = "program" => k = 1
  <2> SUFFICES ASSUME NEW k \in DOMAIN stack', stack'[k].sym = "program" PROVE k = 1
    OBVIOUS
  <2>1. k # h + 1
    BY <1>5, <1>7
  <2>2. k \in 1..h /\ k \in DOMAIN stack /\ stack[k].sym = "program"
    BY <1>1, <1>7, <2>1
  <2> QED
    BY <2>2 DEF RootInv
<1> QED
  BY <1>2, <1>8, <1>9 DEF RootInv, NoToken

\* The list on the stack keeps its place when its child is taken off
LEMMA AppendChildRoot ==
  ASSUME ParserInv, RootInv, ReduceAppendChild
  PROVE  RootInv'
<1>1. stack \in Seq(StackItem) /\ Height \in Nat /\ Height = Len(stack) /\ StackInv
  BY DEF ParserInv, StackInv, Height
<1>2. Reduce /\ stack' = Front(stack) /\ Sym(Height - 1) \in {"program", "args"}
  BY DEF ReduceAppendChild
<1> DEFINE h == Height - 1
<1>3. h \in 1..Height /\ h \in Nat
  <2>1. Height - 1 \in Int
    BY <1>1
  <2> QED
    BY <1>1, <1>2, <2>1, SymFacts
<1>4. DOMAIN stack' = 1..h /\ \A k \in 1..h : stack'[k] = stack[k]
  <2>1. stack' = SubSeq(stack, 1, h)
    BY <1>1, <1>2 DEF Front
  <2> HIDE DEF h
  <2> QED
    BY <1>1, <1>3, <2>1
<1>5. stack # <<>>
  BY <1>1, <1>3
<1>6. stack[1] = Item("program", 1)
  BY <1>5 DEF RootInv
<1> HIDE DEF h
<1>7. stack' # <<>> /\ stack'[1] = Item("program", 1)
  BY <1>3, <1>4, <1>6
<1>8. \A k \in DOMAIN stack' : stack'[k].sym = "program" => k = 1
  <2> SUFFICES ASSUME NEW k \in DOMAIN stack', stack'[k].sym = "program" PROVE k = 1
    OBVIOUS
  <2>1. k \in DOMAIN stack /\ stack[k].sym = "program"
    BY <1>1, <1>3, <1>4
  <2> QED
    BY <2>1 DEF RootInv
<1>9. token' = token /\ source' = source /\ parsing = "running" /\ parsing' = parsing
  BY <1>2 DEF Reduce
<1>10. (token.kind = "EOF" => source = <<>>)'
  BY <1>9 DEF RootInv
<1> QED
  BY <1>7, <1>8, <1>9, <1>10 DEF RootInv

\* program: %empty
LEMMA EmptyProgramRoot ==
  ASSUME RootInv, ReduceEmptyProgram
  PROVE  RootInv'
<1>1. Reduce /\ stack = <<>> /\ stack' = <<Item("program", Len(nodes) + 1)>>
  BY DEF ReduceEmptyProgram
<1>2. nodes = <<>> /\ token = NoToken
  BY <1>1 DEF RootInv
<1>3. stack' = <<Item("program", 1)>>
  BY <1>1, <1>2
<1>4. token' = token /\ parsing' = "running"
  BY <1>1 DEF Reduce
<1>5. stack' # <<>> /\ stack'[1] = Item("program", 1) /\ DOMAIN stack' = {1}
  BY <1>3
<1> QED
  BY <1>2, <1>4, <1>5 DEF RootInv, NoToken

\* The reductions to a name, a list, a child and a block
LEMMA ReduceRoot ==
  ASSUME ParserInv, RootInv,
         \/ ReduceFirstArg \/ ReduceArgsChild \/ ReduceName \/ ReduceComputedName
         \/ ReduceAssignment \/ ReduceCallWithArgs \/ ReduceCall
  PROVE  RootInv'
<1>1. Height \in Nat /\ StackInv
  BY DEF ParserInv, StackInv, Height
<1>2. Height - 1 + 1 = Height /\ Height - 5 + 1 = Height - 4 /\ Height - 4 + 1 = Height - 3 /\ Height - 3 + 1 = Height - 2
  BY <1>1
<1>3. TopSym # "bottom" /\ Reduce
  BY DEF ReduceFirstArg, ReduceArgsChild, ReduceName, ReduceComputedName,
         ReduceAssignment, ReduceCallWithArgs, ReduceCall, Leaves
<1>4. Height \in 1..Height
  BY <1>1, <1>3, SymFacts DEF TopSym
<1>5. CASE ReduceFirstArg \/ ReduceArgsChild \/ ReduceName \/ ReduceComputedName
  <2>1. PICK sym, node : sym \in {"args", "args_child", "symbol"} /\ stack' = Reduced(1, sym, node)
    BY <1>5 DEF ReduceFirstArg, ReduceArgsChild, ReduceName, ReduceComputedName
  <2>2. Sym(Height) # "program"
    BY <1>5 DEF ReduceFirstArg, ReduceArgsChild, ReduceName, ReduceComputedName, Leaves, TopSym
  <2>3. Sym(Height - 1 + 1) # "program"
    BY <1>2, <2>2
  <2>4. 1 \in 1..Height /\ sym # "program"
    BY <1>4, <2>1
  <2> QED
    BY <1>3, <2>1, <2>3, <2>4, ReducedRoot
<1>6. CASE ReduceAssignment
  <2>1. Sym(Height - 2) = ":" /\ stack' = Reduced(5, "block", Len(nodes) + 1)
    BY <1>6 DEF ReduceAssignment
  <2>2. Sym(Height - 3) = "symbol"
    <3>1. Height - 2 \in Int /\ (Height - 2) - 1 = Height - 3
      BY <1>1
    <3> QED
      BY <2>1, <3>1, NamesAndLists
  <2>3. Sym(Height - 4) = "[" /\ 5 \in 1..Height
    <3>1. Height - 3 \in Int /\ Height - 4 \in Int /\ (Height - 3) - 1 = Height - 4
      BY <1>1
    <3>2. Sym(Height - 4) = "["
      BY <2>2, <3>1, NamesAndLists
    <3>3. Height - 4 \in 1..Height
      BY <3>1, <3>2, NamesAndLists
    <3> QED
      BY <1>1, <3>2, <3>3
  <2>4. Sym(Height - 5 + 1) # "program"
    BY <1>2, <2>3
  <2> QED
    BY <1>3, <2>1, <2>3, <2>4, ReducedRoot
<1>7. CASE ReduceCallWithArgs
  <2>1. Sym(Height - 2) = "symbol" /\ stack' = Reduced(4, "block", Len(nodes) + 1)
    BY <1>7 DEF ReduceCallWithArgs
  <2>2. Sym(Height - 3) = "[" /\ 4 \in 1..Height
    <3>1. Height - 2 \in Int /\ Height - 3 \in Int /\ (Height - 2) - 1 = Height - 3
      BY <1>1
    <3>2. Sym(Height - 3) = "["
      BY <2>1, <3>1, NamesAndLists
    <3>3. Height - 3 \in 1..Height
      BY <3>1, <3>2, NamesAndLists
    <3> QED
      BY <1>1, <3>2, <3>3
  <2>3. Sym(Height - 4 + 1) # "program"
    BY <1>2, <2>2
  <2> QED
    BY <1>3, <2>1, <2>2, <2>3, ReducedRoot
<1>8. CASE ReduceCall
  <2>1. Sym(Height - 1) = "symbol" /\ stack' = Reduced(3, "block", Len(nodes) + 1)
    BY <1>8 DEF ReduceCall
  <2>2. Sym(Height - 2) = "[" /\ 3 \in 1..Height
    <3>1. Height - 1 \in Int /\ Height - 2 \in Int /\ (Height - 1) - 1 = Height - 2
      BY <1>1
    <3>2. Sym(Height - 2) = "["
      BY <2>1, <3>1, NamesAndLists
    <3>3. Height - 2 \in 1..Height
      BY <3>1, <3>2, NamesAndLists
    <3> QED
      BY <1>1, <3>2, <3>3
  <2>3. Sym(Height - 3 + 1) # "program"
    BY <1>2, <2>2
  <2> QED
    BY <1>3, <2>1, <2>2, <2>3, ReducedRoot
<1> QED
  BY <1>5, <1>6, <1>7, <1>8

-----------------------------------------------------------------------------
(* The whole source is in the tree.                                            *)

\* What holds from one step of the reader to the next
WholeInv == BufferInv /\ OnceInv /\ MarksInv /\ RootInv /\ SpellInv

\* Only the scanner consumes the source
LEMMA NextMarks ==
  ASSUME IInv, MarksInv, [Next]_vars
  PROVE  MarksInv'
<1>1. program' = program
  BY DEF Next, Returned, vars
<1>2. CASE ReadToken
  BY <1>1, <1>2, LexMarks DEF ReadToken, IInv, ParserInv
<1>3. CASE source' = source
  <2>1. Markup' = Markup
    BY <1>1 DEF Markup
  <2> QED
    BY <1>3, <2>1, Zenon DEF MarksInv
<1>4. ReadToken \/ source' = source
  BY Zenon DEF Next, ParseStep, Shift, Accept, SyntaxError, Reduce, Returned, vars, lexVars,
     ReduceEmptyProgram, ReduceAppendChild, ReduceFirstArg, ReduceArgsChild, ReduceName,
     ReduceComputedName, ReduceAssignment, ReduceCallWithArgs, ReduceCall
<1> QED
  BY <1>2, <1>3, <1>4

\* Every step keeps the program at the bottom of the stack
LEMMA NextRoot ==
  ASSUME IInv, RootInv, [Next]_vars
  PROVE  RootInv'
<1>1. ParserInv
  BY DEF IInv
<1>2. CASE ReadToken
  BY <1>1, <1>2, ReadTokenRoot
<1>3. CASE Shift
  BY <1>1, <1>3, ShiftRoot
<1>4. CASE Accept
  <2>1. "EOF" \in Acceptable /\ token.kind = "EOF" /\ UNCHANGED <<source, token, nodes, stack>>
    BY <1>4 DEF Accept
  <2>2. TopSym = "program"
    BY <2>1 DEF Acceptable, Leaves
  <2>3. TopSym' = TopSym
    BY <2>1 DEF TopSym, Sym, Height
  <2> QED
    BY <2>1, <2>2, <2>3 DEF RootInv
<1>5. CASE SyntaxError
  BY <1>5 DEF SyntaxError, RootInv
<1>6. CASE ReduceEmptyProgram
  BY <1>6, EmptyProgramRoot
<1>7. CASE ReduceAppendChild
  BY <1>1, <1>7, AppendChildRoot
<1>8. CASE \/ ReduceFirstArg \/ ReduceArgsChild \/ ReduceName \/ ReduceComputedName
           \/ ReduceAssignment \/ ReduceCallWithArgs \/ ReduceCall
  BY <1>1, <1>8, ReduceRoot
<1>9. CASE UNCHANGED vars
  <2>1. UNCHANGED <<source, token, nodes, stack, parsing>>
    BY <1>9 DEF vars, lexVars, parserVars
  <2>2. TopSym' = TopSym
    BY <2>1 DEF TopSym, Sym, Height
  <2> QED
    BY <2>1, <2>2 DEF RootInv
<1>10. Returned => UNCHANGED vars
  BY DEF Returned
<1> QED
  BY <1>2, <1>3, <1>4, <1>5, <1>6, <1>7, <1>8, <1>9, <1>10, Zenon DEF Next, ParseStep

\* Every step keeps all there is to say
LEMMA NextSpell ==
  ASSUME IInv, BufferInv, OnceInv, MarksInv, SpellInv, [Next]_vars
  PROVE  SpellInv'
<1>1. ParserInv /\ program' = program
  BY DEF IInv, Next, Returned, vars
<1>2. CASE ReadToken
  <2>1. Lex /\ stack' = stack
    BY <1>2 DEF ReadToken, parserVars
  <2> QED
    BY <1>1, <2>1, LexTold
<1>3. CASE Shift
  BY <1>1, <1>3, StepShiftTold
<1>4. CASE UNCHANGED <<source, textBuffer, token, nodes, stack>>
  <2>1. Markup' = Markup
    BY <1>1 DEF Markup
  <2> QED
    BY <1>1, <1>4, <2>1 DEF SpellInv
<1>5. Accept \/ SyntaxError \/ UNCHANGED vars \/ Returned
        => UNCHANGED <<source, textBuffer, token, nodes, stack>>
  BY DEF Accept, SyntaxError, Returned, vars, lexVars, parserVars
<1>6. CASE ReduceEmptyProgram
  BY <1>1, <1>6, EmptyProgramTold
<1>7. CASE ReduceAppendChild
  BY <1>1, <1>7, AppendChildTold
<1>8. CASE ReduceFirstArg \/ ReduceComputedName
  BY <1>1, <1>8, WrapStepsTold
<1>9. CASE ReduceArgsChild
  BY <1>1, <1>9, ArgsChildTold
<1>10. CASE ReduceName
  BY <1>1, <1>10, NameTold
<1>11. CASE ReduceAssignment
  BY <1>1, <1>11, AssignmentTold
<1>12. CASE ReduceCallWithArgs
  BY <1>1, <1>12, CallWithArgsTold
<1>13. CASE ReduceCall
  BY <1>1, <1>13, CallTold
<1> QED
  BY <1>2, <1>3, <1>4, <1>5, <1>6, <1>7, <1>8, <1>9, <1>10, <1>11, <1>12, <1>13, Zenon
  DEF Next, ParseStep

\* At first all there is to say is the source
LEMMA InitWhole ==
  ASSUME Init
  PROVE  WholeInv
<1>1. /\ source = program /\ textBuffer = <<>> /\ token = NoToken /\ token.node = 0 /\ nodes = <<>> /\ stack = <<>>
      /\ parsing = "running" /\ program \in Seq(Characters)
  BY SourcesAssumption DEF Init, ParserInit, NoToken
<1>2. BufferInv
  BY <1>1 DEF BufferInv
<1>3. OnceInv
  BY <1>1 DEF OnceInv, Once, Vacant, NoToken
<1>4. MarksInv
  <2>1. ASSUME NEW i \in DOMAIN source, source[i] \in {"\\", "{"} PROVE {"\\", "{", "#", "}"} \subseteq Markup
    BY <1>1, <2>1, Zenon DEF Markup
  <2> QED
    BY <2>1, Zenon DEF MarksInv
<1>5. RootInv
  BY <1>1 DEF RootInv, NoToken
<1> DEFINE markup == Markup
           all == Bare(program, Markup)
           rest == LeftOf(textBuffer, source, Markup)
<1>6. all \in Seq(Letters)
  <2>1. program \in Seq(Letters)
    BY <1>1 DEF Letters
  <2> QED
    BY <2>1, BareType
<1>7. rest = all
  <2>1. Bare(<<>>, markup) = <<>>
    BY BareNone
  <2>2. <<>> \o all = all
    BY <1>6, ConcatEmptySeq
  <2> QED
    BY <1>1, <2>1, <2>2 DEF LeftOf
<1>8. Spellable(<<>>, markup)
  <2> DEFINE f == [id \in {} |-> id]
  <2>1. DOMAIN <<>> = {}
    OBVIOUS
  <2>2. Spells(<<>>, f, markup)
    <3>1. f = [id \in DOMAIN <<>> |-> Bare(Own(<<>>[id]), markup) \o FlattenSeq(ListOf(f, <<>>[id].childs))]
      BY <2>1
    <3> QED
      BY <3>1 DEF Spells
  <2> HIDE DEF f
  <2> QED
    BY <2>2 DEF Spellable
<1> HIDE DEF markup, all, rest
<1>9. ASSUME NEW f, Spells(<<>>, f, markup)
      PROVE  SaysAll(<<>>, f, <<>>, 0, rest, all)
  <2>1. Textual(<<>>, f)
    BY DEF Textual
  <2>2. StackSays(f, <<>>) = <<>>
    <3>1. [k \in DOMAIN <<>> |-> Says(f, <<>>[k].node)] = <<>>
      OBVIOUS
    <3> QED
      BY <3>1, FlattenNone DEF StackSays
  <2>3. <<>> \o rest = rest
    BY <1>6, <1>7, ConcatEmptySeq
  <2>4. Says(f, 0) = <<>>
    BY DEF Says
  <2>5. StackSays(f, <<>>) \o (Says(f, 0) \o rest) = all
    BY <1>7, <2>2, <2>3, <2>4
  <2> QED
    BY <2>1, <2>5 DEF SaysAll
<1>10. Told(<<>>, <<>>, 0, rest, markup, all)
  BY <1>8, <1>9 DEF Told
<1>11. SpellInv
  BY <1>1, <1>10 DEF SpellInv, rest, markup, all
<1> QED
  BY <1>2, <1>3, <1>4, <1>5, <1>11 DEF WholeInv

\* A stack of the program alone says what the program says
LEMMA ProgramSays ==
  ASSUME ParserInv, stack = <<Item("program", 1)>>, NEW f, Textual(nodes, f)
  PROVE  StackSays(f, stack) = f[1] /\ f[1] \in Seq(Letters)
<1>1. Linked(nodes, stack, token.node) /\ stack \in Seq(StackItem)
  BY LinkedNow DEF ParserInv, StackInv
<1>2. Len(stack) = 1 /\ 1 \in DOMAIN stack /\ stack[1].sym = "program" /\ stack[1].node = 1
  BY DEF Item
<1>3. 1 \in DOMAIN nodes
  <2>1. Stands(nodes, stack[1].sym, stack[1].node)
    BY <1>2 DEF ParserInv, StackInv
  <2> QED
    BY <1>2, <2>1 DEF Stands, HasNode, Nonterminals
<1>4. OnNodes(nodes, stack) /\ 0 \notin DOMAIN nodes
  BY <1>1, LinkedFacts
<1>5. StackSays(f, SubSeq(stack, 1, 1)) = StackSays(f, SubSeq(stack, 1, 1 - 1)) \o f[1]
  <2> DEFINE k == 1
             c == 1
  <2>1. k \in 1..Len(stack) /\ c \in DOMAIN nodes /\ stack[k].node = c
    BY <1>2, <1>3
  <2> HIDE DEF k, c
  <2>2. ItemSays(f, stack, k, f[c])
    BY <1>1, <1>4, <2>1, Voiced
  <2> QED
    BY <2>2 DEF ItemSays, k, c
<1>6. SubSeq(stack, 1, 1) = stack
  BY <1>1, <1>2, SubSeqFull
<1>7. SubSeq(stack, 1, 1 - 1) = <<>>
  BY <1>1, SubSeqEmpty
<1>8. StackSays(f, <<>>) = <<>>
  <2>1. [k \in DOMAIN <<>> |-> Says(f, <<>>[k].node)] = <<>>
    OBVIOUS
  <2> QED
    BY <2>1, FlattenNone DEF StackSays
<1>9. f[1] \in Seq(Letters)
  BY <1>3 DEF Textual
<1>10. <<>> \o f[1] = f[1]
  BY <1>9, ConcatEmptySeq
<1> QED
  BY <1>5, <1>6, <1>7, <1>8, <1>9, <1>10

\* When the source is accepted, all there is to say is in the tree
LEMMA AcceptedSpells ==
  ASSUME IInv, WholeInv
  PROVE  TreeSpellsSource
<1> SUFFICES ASSUME parsing = "accepted"
             PROVE  Spelled(nodes, Markup)[1] = Bare(program, Markup)
  BY DEF TreeSpellsSource
<1>1. ParserInv /\ BufferInv /\ OnceInv /\ RootInv /\ SpellInv
  BY DEF IInv, WholeInv
<1>2. token.kind = "EOF" /\ source = <<>> /\ TopSym = "program"
  BY <1>1 DEF RootInv
<1>3. token.node = 0
  BY <1>1, <1>2 DEF OnceInv, HasNode, Nonterminals, Leaves
<1>4. textBuffer = <<>>
  BY <1>1, <1>2 DEF BufferInv, NoToken
<1>5. stack = <<Item("program", 1)>>
  <2>1. stack \in Seq(StackItem) /\ Height = Len(stack) /\ Height \in DOMAIN stack /\ stack[Height].sym = "program"
    BY <1>1, <1>2 DEF ParserInv, StackInv, Height, TopSym, Sym
  <2>2. Height = 1 /\ stack # <<>>
    BY <1>1, <2>1 DEF RootInv
  <2>3. stack[1] = Item("program", 1)
    BY <1>1, <2>2 DEF RootInv
  <2> DEFINE x == Item("program", 1)
  <2>4. <<x>> \in Seq(StackItem) /\ Len(<<x>>) = 1 /\ <<x>>[1] = x
    <3>1. x \in StackItem
      BY <2>1, <2>2, <2>3
    <3> HIDE DEF x
    <3> QED
      BY <3>1
  <2> HIDE DEF x
  <2>5. \A i \in 1..Len(stack) : stack[i] = <<x>>[i]
    BY <2>1, <2>2, <2>3, <2>4 DEF x
  <2>6. stack = <<x>>
    BY <2>1, <2>2, <2>4, <2>5, SeqEqual
  <2> QED
    BY <2>6 DEF x
<1> DEFINE markup == Markup
           all == Bare(program, Markup)
           f == Spelled(nodes, Markup)
<1>6. Told(nodes, stack, 0, LeftOf(<<>>, <<>>, markup), markup, all)
  BY <1>1, <1>2, <1>3, <1>4 DEF SpellInv
<1>7. LeftOf(<<>>, <<>>, markup) = <<>>
  <2>1. Bare(<<>>, markup) = <<>> /\ <<>> \o <<>> = <<>>
    BY BareNone
  <2> QED
    BY <2>1 DEF LeftOf
<1>8. Spells(nodes, f, markup)
  <2>1. PICK h : Spells(nodes, h, markup)
    BY <1>6 DEF Told, Spellable
  <2>2. f = CHOOSE g : Spells(nodes, g, markup)
    BY DEF Spelled, Spells, ListOf
  <2> QED
    BY <2>1, <2>2
<1> HIDE DEF markup, all, f
<1>9. SaysAll(nodes, f, stack, 0, <<>>, all)
  BY <1>6, <1>7, <1>8 DEF Told
<1>10. Textual(nodes, f) /\ StackSays(f, stack) \o (Says(f, 0) \o <<>>) = all
  BY <1>9 DEF SaysAll
<1>11. StackSays(f, stack) = f[1] /\ f[1] \in Seq(Letters)
  BY <1>1, <1>5, <1>10, ProgramSays
<1>12. Says(f, 0) = <<>> /\ <<>> \o <<>> = <<>>
  BY DEF Says
<1>13. f[1] \o <<>> = f[1]
  BY <1>11, ConcatEmptySeq
<1>14. f[1] = all
  BY <1>10, <1>11, <1>12, <1>13
<1> QED
  BY <1>14 DEF f, all

(* An accepted source is all in the tree, left to right: no rule of dry_flex.l *)
(* and no production of dry_bison.y drops a word or takes it twice, however     *)
(* blocks, escapes, literals and references to arguments are mixed.            *)
THEOREM TreeSpelled == Spec => []TreeSpellsSource
<1>1. Init => WholeInv
  BY InitWhole
<1>2. IInv /\ WholeInv /\ [Next]_vars => WholeInv'
  <2> SUFFICES ASSUME IInv, WholeInv, [Next]_vars PROVE WholeInv'
    OBVIOUS
  <2>1. BufferInv /\ OnceInv /\ MarksInv /\ RootInv /\ SpellInv
    BY DEF WholeInv
  <2>2. BufferInv'
    BY <2>1, NextBufferInv
  <2>3. OnceInv'
    BY <2>1, NextOnce
  <2>4. MarksInv'
    BY <2>1, NextMarks
  <2>5. RootInv'
    BY <2>1, NextRoot
  <2>6. SpellInv'
    BY <2>1, NextSpell
  <2> QED
    BY <2>2, <2>3, <2>4, <2>5, <2>6 DEF WholeInv
<1>3. IInv /\ WholeInv => TreeSpellsSource
  BY AcceptedSpells
<1> QED
  BY <1>1, <1>2, <1>3, Invariant, PTL DEF Spec
=============================================================================
