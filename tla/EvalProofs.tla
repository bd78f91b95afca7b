----------------------------- MODULE EvalProofs -----------------------------
(* What the operators that the evaluator is built from return and keep: texts, *)
(* the lookup of names, the list of frames, the nodes.                         *)
EXTENDS Compiler, ParserProofs, FiniteSetTheorems

-----------------------------------------------------------------------------
(* Texts.                                                                      *)

\* No two blanks together, and none at the start
Tight(text) == \A i \in DOMAIN text : Blank(text[i]) => i > 1 /\ ~ Blank(text[i - 1])

\* A part of a text that has been trimmed
LEMMA TrimLeftType ==
  ASSUME NEW s \in Seq(Characters)
  PROVE  TrimLeft(s) \in Seq(Characters)
<1>1. RunLength(s, Blanks) \in 0..Len(s) /\ Len(s) \in Nat
  BY RunLengthFacts
<1>2. \A i \in (RunLength(s, Blanks) + 1)..Len(s) : s[i] \in Characters
  BY <1>1
<1> QED
  BY <1>1, <1>2, SubSeqProperties DEF TrimLeft

\* A text read backwards is a text
LEMMA ReverseType ==
  ASSUME NEW s \in Seq(Characters)
  PROVE  Reverse(s) \in Seq(Characters)
<1>1. \A i \in 1..Len(s) : s[(Len(s) - i) + 1] \in Characters
  OBVIOUS
<1> QED
  BY <1>1 DEF Reverse

\* A text trimmed on the right is a text
LEMMA TrimRightType ==
  ASSUME NEW s \in Seq(Characters)
  PROVE  TrimRight(s) \in Seq(Characters)
BY ReverseType, TrimLeftType DEF TrimRight

\* One character of the loop keeps a text tight
LEMMA PutReducedFacts ==
  ASSUME NEW to \in Seq(Characters), Tight(to), NEW c \in Characters
  PROVE  PutReduced(to, c) \in Seq(Characters) /\ Tight(PutReduced(to, c))
<1>1. CASE c \notin Blanks
  <2>1. PutReduced(to, c) = Append(to, c)
    BY <1>1 DEF PutReduced
  <2>2. Tight(Append(to, c))
    BY <1>1 DEF Tight, Blank
  <2> QED
    BY <2>1, <2>2
<1>2. CASE c \in Blanks /\ (to = <<>> \/ to[Len(to)] \in Blanks)
  BY <1>2 DEF PutReduced
<1>3. CASE c \in Blanks /\ to # <<>> /\ to[Len(to)] \notin Blanks
  <2>1. PutReduced(to, c) = Append(to, c)
    <3>1. c = " "
      BY <1>3 DEF Blanks
    <3> QED
      BY <1>3, <3>1 DEF PutReduced
  <2> DEFINE s == Append(to, c)
  <2>3. /\ s \in Seq(Characters) /\ DOMAIN s = 1..(Len(to) + 1)
        /\ \A i \in 1..Len(to) : s[i] = to[i]
        /\ Len(to) \in Nat /\ Len(to) >= 1 /\ DOMAIN to = 1..Len(to)
    <3>1. Len(to) \in Nat /\ Len(to) >= 1 /\ DOMAIN to = 1..Len(to)
      BY <1>3
    <3>2. s \in Seq(Characters) /\ Len(s) = Len(to) + 1 /\ \A i \in 1..Len(to) : s[i] = to[i]
      BY AppendProperties
    <3> HIDE DEF s
    <3>3. DOMAIN s = 1..(Len(to) + 1)
      BY <3>1, <3>2
    <3> QED
      BY <3>1, <3>2, <3>3
  <2> HIDE DEF s
  <2>4. ASSUME NEW i \in 1..(Len(to) + 1), Blank(s[i])
        PROVE  i > 1 /\ ~ Blank(s[i - 1])
    <3>1. CASE i = Len(to) + 1
      BY <1>3, <2>3, <3>1 DEF Blank
    <3>2. CASE i \in 1..Len(to)
      <4>1. i > 1 /\ ~ Blank(to[i - 1])
        BY <2>3, <2>4, <3>2 DEF Tight
      <4> QED
        BY <2>3, <3>2, <4>1
    <3> QED
      BY <2>3, <3>1, <3>2
  <2>5. Tight(s)
    BY <2>3, <2>4 DEF Tight
  <2> QED
    BY <2>1, <2>3, <2>5 DEF s
<1> QED
  BY <1>1, <1>2, <1>3

(* The loop of vut_str_put_blank_reduced_sv, as the recursive function of      *)
(* PutBlankReduced: it exists, and what it puts is tight.                      *)
Loop(g, to, t, n) ==
  g = [m \in 0..n |-> IF m = 0 THEN to ELSE PutReduced(g[m - 1], t[m])]

\* The recursive function exists, for every length
LEMMA LoopExists ==
  ASSUME NEW to, NEW t, NEW n \in Nat
  PROVE  \E g : Loop(g, to, t, n)
<1> DEFINE Bad == {m \in Nat : ~ \E g : Loop(g, to, t, m)}
<1>1. SUFFICES Bad = {}
  OBVIOUS
<1>2. SUFFICES ASSUME Bad # {} PROVE FALSE
  OBVIOUS
<1> DEFINE m == Min(Bad)
<1>3. m \in Bad /\ \A y \in Bad : m <= y
  BY <1>2, MinFacts
<1> HIDE DEF m
<1>4. m \in Nat /\ ~ \E g : Loop(g, to, t, m)
  BY <1>3
<1>5. CASE m = 0
  <2>1. Loop([k \in 0..0 |-> to], to, t, 0)
    BY DEF Loop
  <2> QED
    BY <1>4, <1>5, <2>1
<1>6. CASE m # 0
  <2>1. m - 1 \in Nat /\ m - 1 \notin Bad
    BY <1>3, <1>4, <1>6
  <2>2. PICK g : Loop(g, to, t, m - 1)
    BY <2>1
  <2> DEFINE h == [k \in 0..m |-> IF k = m THEN PutReduced(g[m - 1], t[m]) ELSE g[k]]
  <2>3. \A k \in 0..m : h[k] = IF k = 0 THEN to ELSE PutReduced(h[k - 1], t[k])
    <3> TAKE k \in 0..m
    <3>1. CASE k = m
      BY <1>4, <1>6, <3>1
    <3>2. CASE k # m
      <4>1. k \in 0..(m - 1) /\ h[k] = g[k]
        BY <1>4, <3>2
      <4>2. g[k] = IF k = 0 THEN to ELSE PutReduced(g[k - 1], t[k])
        BY <2>2, <4>1 DEF Loop
      <4>3. k # 0 => k - 1 \in 0..m /\ k - 1 # m /\ h[k - 1] = g[k - 1]
        BY <1>4, <4>1
      <4> QED
        BY <4>1, <4>2, <4>3
    <3> QED
      BY <3>1, <3>2
  <2>4. h = [k \in 0..m |-> h[k]]
    OBVIOUS
  <2> HIDE DEF h
  <2>5. Loop(h, to, t, m)
    BY <2>3, <2>4 DEF Loop
  <2> QED
    BY <1>4, <2>5
<1> QED
  BY <1>5, <1>6

\* Every value of it is a tight text
LEMMA LoopFacts ==
  ASSUME NEW to \in Seq(Characters), Tight(to), NEW t \in Seq(Characters),
         NEW g, Loop(g, to, t, Len(t)), NEW n \in 0..Len(t)
  PROVE  g[n] \in Seq(Characters) /\ Tight(g[n])
<1> DEFINE Bad == {k \in 0..Len(t) : ~ (g[k] \in Seq(Characters) /\ Tight(g[k]))}
<1>1. SUFFICES ASSUME Bad # {} PROVE FALSE
  OBVIOUS
<1>2. Bad \in SUBSET Nat
  OBVIOUS
<1> DEFINE m == Min(Bad)
<1>3. m \in Bad /\ \A y \in Bad : m <= y
  BY <1>1, <1>2, MinFacts
<1> HIDE DEF m
<1>4. m \in 0..Len(t) /\ Len(t) \in Nat
  BY <1>3
<1>5. g[m] = IF m = 0 THEN to ELSE PutReduced(g[m - 1], t[m])
  BY <1>4 DEF Loop
<1>6. CASE m = 0
  BY <1>3, <1>5, <1>6
<1>7. CASE m # 0
  <2>1. m - 1 \in 0..Len(t) /\ m - 1 \notin Bad
    BY <1>3, <1>4, <1>7
  <2>2. g[m - 1] \in Seq(Characters) /\ Tight(g[m - 1]) /\ t[m] \in Characters
    BY <1>4, <1>7, <2>1
  <2> QED
    BY <1>3, <1>5, <1>7, <2>2, PutReducedFacts
<1> QED
  BY <1>6, <1>7

\* What vut_str_put_blank_reduced_sv leaves has no two blanks together
LEMMA PutBlankReducedFacts ==
  ASSUME NEW to \in Seq(Characters), Tight(to), NEW from \in Seq(Characters), NEW l, NEW r
  PROVE  /\ PutBlankReduced(to, from, l, r) \in Seq(Characters)
         /\ Tight(PutBlankReduced(to, from, l, r))
<1> DEFINE left == IF l THEN TrimLeft(from) ELSE from
           t    == IF r THEN TrimRight(left) ELSE left
           put  == CHOOSE g : g = [n \in 0..Len(t) |-> IF n = 0 THEN to ELSE PutReduced(g[n - 1], t[n])]
<1>1. PutBlankReduced(to, from, l, r) = put[Len(t)]
  BY DEF PutBlankReduced
<1>2. t \in Seq(Characters)
  <2>1. left \in Seq(Characters)
    BY TrimLeftType
  <2> HIDE DEF left
  <2> QED
    BY <2>1, TrimRightType
<1> HIDE DEF t
<1>3. put = CHOOSE g : Loop(g, to, t, Len(t))
  BY DEF Loop
<1> HIDE DEF put
<1>4. Len(t) \in Nat
  BY <1>2
<1>5. Loop(put, to, t, Len(t))
  <2>1. \E g : Loop(g, to, t, Len(t))
    BY <1>4, LoopExists
  <2> QED
    BY <1>3, <2>1, Zenon
<1> QED
  BY <1>1, <1>2, <1>4, <1>5, LoopFacts

-----------------------------------------------------------------------------
(* The lookup of names and scopes.                                             *)

EntryType == [name : Seq(Characters), type : ExternKinds \union {"internal"},
              body : Nat, target : Seq(Characters)]

ScopeRecord == [father : Nat, node : Nat, childs : Seq(Nat), namespace : Seq(EntryType)]

\* Fathers come before their children
FathersFirst == \A s \in DOMAIN scopes : scopes[s].father \in 0..(s - 1)

\* namespace_find_name gives an entry of the namespace, or none
LEMMA FindNameFacts ==
  ASSUME NEW namespace \in Seq(EntryType), NEW name
  PROVE  \/ FindName(namespace, name) = NoEntry
         \/ \E i \in DOMAIN namespace : FindName(namespace, name) = namespace[i]
<1> DEFINE found == {i \in DOMAIN namespace : namespace[i].name = name}
<1>1. CASE found = {}
  BY <1>1 DEF FindName
<1>2. CASE found # {}
  <2>1. found \in SUBSET Nat
    OBVIOUS
  <2>2. Min(found) \in found
    BY <1>2, <2>1, MinFacts
  <2>3. FindName(namespace, name) = namespace[Min(found)]
    BY <1>2 DEF FindName
  <2>4. Min(found) \in DOMAIN namespace
    BY <2>2
  <2> QED
    BY <2>3, <2>4
<1> QED
  BY <1>1, <1>2

\* The recursive function of FindSymbol on the scopes up to n
Climb(g, name, n) ==
  g = [s \in 0..n |->
         IF s = 0 THEN NoEntry
         ELSE IF FindName(scopes[s].namespace, name) # NoEntry
              THEN FindName(scopes[s].namespace, name) ELSE g[scopes[s].father]]

\* It exists, fathers being numbered below their children
LEMMA ClimbExists ==
  ASSUME scopes \in Seq(ScopeRecord), FathersFirst, NEW name
  PROVE  \E g : Climb(g, name, Len(scopes))
<1> DEFINE Bad == {m \in 0..Len(scopes) : ~ \E g : Climb(g, name, m)}
<1>0. Len(scopes) \in 0..Len(scopes)
  OBVIOUS
<1>1. SUFFICES ASSUME Bad # {} PROVE FALSE
  <2>1. CASE Bad = {}
    <3>1. Len(scopes) \notin Bad
      BY <2>1
    <3> QED
      BY <1>0, <3>1
  <2> QED
    BY <2>1
<1>2. Bad \in SUBSET Nat
  OBVIOUS
<1> DEFINE m == Min(Bad)
<1>3. m \in Bad /\ \A y \in Bad : m <= y
  BY <1>1, <1>2, MinFacts
<1> HIDE DEF m
<1>4. m \in 0..Len(scopes) /\ Len(scopes) \in Nat /\ ~ \E g : Climb(g, name, m)
  BY <1>3
<1>5. CASE m = 0
  <2>1. Climb([s \in 0..0 |-> NoEntry], name, 0)
    BY DEF Climb
  <2> QED
    BY <1>4, <1>5, <2>1
<1>6. CASE m # 0
  <2>1. m - 1 \in 0..Len(scopes) /\ m - 1 \notin Bad
    BY <1>3, <1>4, <1>6
  <2>2. PICK g : Climb(g, name, m - 1)
    BY <2>1
  <2> DEFINE up(s)   == FindName(scopes[s].namespace, name)
             h       == [s \in 0..m |-> IF s = m THEN IF up(m) # NoEntry THEN up(m) ELSE g[scopes[m].father]
                                                 ELSE g[s]]
  <2>3. \A s \in 1..m : scopes[s].father \in 0..(s - 1)
    BY <1>4 DEF FathersFirst
  <2>4. \A s \in 0..(m - 1) :
          g[s] = IF s = 0 THEN NoEntry ELSE IF up(s) # NoEntry THEN up(s) ELSE g[scopes[s].father]
    BY <2>2 DEF Climb
  <2>5. \A s \in 0..m :
          h[s] = IF s = 0 THEN NoEntry ELSE IF up(s) # NoEntry THEN up(s) ELSE h[scopes[s].father]
    <3> HIDE DEF up
    <3> TAKE s \in 0..m
    <3>1. CASE s = m
      <4>1. scopes[m].father \in 0..(m - 1)
        BY <1>4, <1>6, <2>3
      <4>2. h[scopes[m].father] = g[scopes[m].father]
        BY <1>4, <4>1
      <4> QED
        BY <1>4, <1>6, <3>1, <4>2
    <3>2. CASE s # m
      <4>1. s \in 0..(m - 1) /\ h[s] = g[s]
        BY <1>4, <3>2
      <4>2. CASE s = 0
        BY <2>4, <4>1, <4>2
      <4>3. CASE s # 0
        <5>1. scopes[s].father \in 0..(m - 1)
          BY <1>4, <2>3, <4>1, <4>3
        <5>2. h[scopes[s].father] = g[scopes[s].father]
          BY <1>4, <5>1
        <5> QED
          BY <2>4, <4>1, <4>3, <5>2
      <4> QED
        BY <4>2, <4>3
    <3> QED
      BY <3>1, <3>2
  <2>6. h = [s \in 0..m |-> h[s]]
    OBVIOUS
  <2> HIDE DEF h
  <2>7. Climb(h, name, m)
    BY <2>5, <2>6 DEF Climb
  <2> QED
    BY <1>4, <2>7
<1> QED
  BY <1>5, <1>6

\* find_symbol_on_scopes climbs up the fathers
LEMMA SymbolClimbs ==
  ASSUME scopes \in Seq(ScopeRecord), FathersFirst, NEW from, NEW name
  PROVE  \E g : Climb(g, name, Len(scopes)) /\ FindSymbol(from, name) = g[from]
<1> DEFINE find == CHOOSE g : g = [s \in 0..Len(scopes) |->
                     IF s = 0 THEN NoEntry
                     ELSE LET entry == FindName(scopes[s].namespace, name)
                          IN  IF entry # NoEntry THEN entry ELSE g[scopes[s].father]]
<1>1. FindSymbol(from, name) = find[from]
  BY DEF FindSymbol
<1>2. find = CHOOSE g : Climb(g, name, Len(scopes))
  BY DEF Climb
<1> HIDE DEF find
<1>3. \E g : Climb(g, name, Len(scopes))
  BY ClimbExists
<1>4. Climb(find, name, Len(scopes))
  BY <1>2, <1>3, Zenon
<1> QED
  BY <1>1, <1>4

\* It gives the first entry of the name in some scope, or none
LEMMA SymbolScope ==
  ASSUME scopes \in Seq(ScopeRecord), FathersFirst, NEW from \in 0..Len(scopes), NEW name
  PROVE  \/ FindSymbol(from, name) = NoEntry
         \/ \E s \in DOMAIN scopes : FindSymbol(from, name) = FindName(scopes[s].namespace, name)
<1>1. PICK find : Climb(find, name, Len(scopes)) /\ FindSymbol(from, name) = find[from]
  BY SymbolClimbs
<1> DEFINE Found(e) == e = NoEntry \/ \E s \in DOMAIN scopes : e = FindName(scopes[s].namespace, name)
           Bad == {s \in 0..Len(scopes) : ~ Found(find[s])}
<1>2. Bad = {}
  <2>1. SUFFICES ASSUME Bad # {} PROVE FALSE
    OBVIOUS
  <2>2. Bad \in SUBSET Nat
    OBVIOUS
  <2> DEFINE m == Min(Bad)
  <2>3. m \in Bad /\ \A y \in Bad : m <= y
    BY <2>1, <2>2, MinFacts
  <2> HIDE DEF m
  <2>4. m \in 0..Len(scopes) /\ Len(scopes) \in Nat /\ ~ Found(find[m])
    BY <2>3
  <2>5. find[m] = IF m = 0 THEN NoEntry
                  ELSE IF FindName(scopes[m].namespace, name) # NoEntry
                       THEN FindName(scopes[m].namespace, name) ELSE find[scopes[m].father]
    BY <1>1, <2>4 DEF Climb
  <2>6. m # 0 /\ m \in DOMAIN scopes
    BY <2>4, <2>5
  <2>7. FindName(scopes[m].namespace, name) = NoEntry
    BY <2>4, <2>5, <2>6
  <2>8. scopes[m].father \in 0..(m - 1)
    BY <2>6 DEF FathersFirst
  <2>9. scopes[m].father \notin Bad /\ scopes[m].father \in 0..Len(scopes)
    BY <2>3, <2>4, <2>8
  <2>10. Found(find[scopes[m].father])
    BY <2>9
  <2> QED
    BY <2>4, <2>5, <2>6, <2>7, <2>10
<1> QED
  BY <1>1, <1>2

\* In the base scope, which has no father, it gives the first entry of the name there
LEMMA SymbolOfBase ==
  ASSUME scopes \in Seq(ScopeRecord), FathersFirst, 1 \in DOMAIN scopes, NEW name
  PROVE  FindSymbol(1, name) = FindName(scopes[1].namespace, name)
<1>1. PICK find : Climb(find, name, Len(scopes)) /\ FindSymbol(1, name) = find[1]
  BY SymbolClimbs
<1>2. scopes[1].father = 0 /\ 1 \in 0..Len(scopes) /\ 0 \in 0..Len(scopes)
  BY DEF FathersFirst
<1>3. find[0] = NoEntry
  BY <1>1, <1>2 DEF Climb
<1>4. find[1] = IF FindName(scopes[1].namespace, name) # NoEntry
                THEN FindName(scopes[1].namespace, name) ELSE find[scopes[1].father]
  BY <1>1, <1>2 DEF Climb
<1> QED
  BY <1>1, <1>2, <1>3, <1>4

\* So what it gives is an entry of some scope, or none
LEMMA FindSymbolFacts ==
  ASSUME scopes \in Seq(ScopeRecord), FathersFirst, NEW from \in 0..Len(scopes), NEW name
  PROVE  \/ FindSymbol(from, name) = NoEntry
         \/ \E s \in DOMAIN scopes : \E i \in DOMAIN scopes[s].namespace :
              FindSymbol(from, name) = scopes[s].namespace[i]
<1>1. ASSUME NEW s \in DOMAIN scopes, FindSymbol(from, name) = FindName(scopes[s].namespace, name)
      PROVE  \/ FindSymbol(from, name) = NoEntry
             \/ \E i \in DOMAIN scopes[s].namespace : FindSymbol(from, name) = scopes[s].namespace[i]
  <2>1. scopes[s] \in ScopeRecord
    OBVIOUS
  <2>2. scopes[s].namespace \in Seq(EntryType)
    BY <2>1 DEF ScopeRecord
  <2> QED
    BY <1>1, <2>2, FindNameFacts
<1> QED
  BY <1>1, SymbolScope

\* A name the namespace has keeps its meaning when entries are added
LEMMA FindNameAppended ==
  ASSUME NEW namespace \in Seq(EntryType), NEW e, NEW name, FindName(namespace, name) # NoEntry
  PROVE  FindName(Append(namespace, e), name) = FindName(namespace, name)
<1> DEFINE found == {i \in DOMAIN namespace : namespace[i].name = name}
           longer == Append(namespace, e)
           more == {i \in DOMAIN longer : longer[i].name = name}
<1>1. /\ Len(namespace) \in Nat /\ DOMAIN namespace = 1..Len(namespace)
      /\ DOMAIN longer = 1..(Len(namespace) + 1)
      /\ \A i \in 1..Len(namespace) : longer[i] = namespace[i]
  OBVIOUS
<1>2. found # {} /\ FindName(namespace, name) = namespace[Min(found)]
  BY DEF FindName
<1>3. FindName(longer, name) = IF more = {} THEN NoEntry ELSE longer[Min(more)]
  BY DEF FindName
<1>4. found \in SUBSET Nat /\ more \in SUBSET Nat
  BY <1>1
<1>5. found \subseteq more /\ found \subseteq 1..Len(namespace)
      /\ \A i \in more : i \in 1..Len(namespace) => i \in found
  BY <1>1
<1> HIDE DEF found, more, longer
<1>6. Min(found) \in found /\ \A i \in found : Min(found) <= i
  BY <1>2, <1>4, MinFacts
<1>7. Min(more) \in more /\ \A i \in more : Min(more) <= i
  BY <1>2, <1>4, <1>5, MinFacts
<1>8. Min(more) = Min(found)
  <2> DEFINE a == Min(found)
             b == Min(more)
  <2>1. a \in found /\ b \in more /\ a \in Nat /\ b \in Nat /\ a \in 1..Len(namespace) /\ a \in more
    BY <1>4, <1>5, <1>6, <1>7
  <2>2. b <= a
    BY <1>7, <2>1
  <2> HIDE DEF a, b
  <2>3. b \in 1..Len(namespace)
    <3>1. b \in DOMAIN longer
      BY <2>1 DEF more
    <3> QED
      BY <1>1, <2>1, <2>2, <3>1
  <2>4. b \in found
    BY <1>5, <2>1, <2>3
  <2>5. a <= b
    BY <1>6, <2>4 DEF a
  <2>6. a = b
    BY <2>1, <2>2, <2>5
  <2> QED
    BY <2>6 DEF a, b
<1>9. longer[Min(more)] = namespace[Min(found)]
  BY <1>1, <1>5, <1>6, <1>8
<1> QED
  BY <1>2, <1>3, <1>7, <1>9 DEF longer

\* The recursive function of Capacity
Doubling(g, n) == g = [k \in Nat |-> IF k >= n THEN k ELSE g[2 * k]]

\* The doubling of Capacity exists
LEMMA DoublingExists ==
  ASSUME NEW n \in Nat
  PROVE  \E g : Doubling(g, n)
<1> DEFINE From(g, m) == /\ g \in [Nat -> Nat] /\ g[0] = 0
                         /\ \A k \in Nat : k >= 1 /\ k + m >= n
                              => g[k] = IF k >= n THEN k ELSE g[2 * k]
           Bad == {m \in Nat : ~ \E g : From(g, m)}
<1>1. Bad = {}
  <2>1. SUFFICES ASSUME Bad # {} PROVE FALSE
    OBVIOUS
  <2>2. Bad \in SUBSET Nat
    OBVIOUS
  <2> DEFINE m == Min(Bad)
  <2>3. m \in Bad /\ \A y \in Bad : m <= y
    BY <2>1, <2>2, MinFacts
  <2> HIDE DEF m
  <2>4. m \in Nat /\ ~ \E g : From(g, m)
    BY <2>3
  <2>5. CASE m = 0
    <3> DEFINE g == [k \in Nat |-> k]
    <3>1. From(g, 0)
      OBVIOUS
    <3> QED
      BY <2>4, <2>5, <3>1
  <2>6. CASE m # 0
    <3>1. m - 1 \in Nat /\ m - 1 \notin Bad
      BY <2>3, <2>4, <2>6
    <3>2. PICK g : From(g, m - 1)
      BY <3>1
    <3> DEFINE h == [k \in Nat |-> IF k >= 1 /\ k + m = n THEN g[2 * k] ELSE g[k]]
    <3>3. h \in [Nat -> Nat] /\ h[0] = 0
      BY <3>2
    <3>4. ASSUME NEW k \in Nat, k >= 1, k + m >= n
          PROVE  h[k] = IF k >= n THEN k ELSE h[2 * k]
      <4>1. h[2 * k] = g[2 * k]
        BY <2>4, <3>4
      <4>2. CASE k + m = n
        BY <2>4, <2>6, <3>4, <4>1, <4>2
      <4>3. CASE k + m # n
        <5>1. h[k] = g[k] /\ k + (m - 1) >= n
          BY <2>4, <3>4, <4>3
        <5> QED
          BY <3>2, <3>4, <4>1, <5>1
      <4> QED
        BY <4>2, <4>3
    <3> HIDE DEF h
    <3>5. From(h, m)
      BY <3>3, <3>4
    <3> QED
      BY <2>4, <3>5
  <2> QED
    BY <2>5, <2>6
<1>2. PICK g : From(g, n)
  BY <1>1
<1>3. \A k \in Nat : g[k] = IF k >= n THEN k ELSE g[2 * k]
  <2> TAKE k \in Nat
  <2>1. CASE k = 0
    BY <1>2, <2>1
  <2>2. CASE k # 0
    BY <1>2, <2>2
  <2> QED
    BY <2>1, <2>2
<1>4. g = [k \in Nat |-> g[k]]
  BY <1>2
<1>5. Doubling(g, n)
  BY <1>3, <1>4 DEF Doubling
<1> QED
  BY <1>5

\* The capacity of a vector that has elements is not 0
LEMMA CapacityFacts ==
  ASSUME NEW n \in Nat
  PROVE  Capacity(n) \in Nat \ {0}
<1> DEFINE c == CHOOSE g : g = [k \in Nat |-> IF k >= n THEN k ELSE g[2 * k]]
<1>1. Capacity(n) = c[2]
  BY DEF Capacity
<1>2. c = CHOOSE g : Doubling(g, n)
  BY DEF Doubling
<1> HIDE DEF c
<1>3. Doubling(c, n)
  <2>1. \E g : Doubling(g, n)
    BY DoublingExists
  <2> QED
    BY <1>2, <2>1, Zenon
<1> DEFINE Bad == {j \in Nat : \E k \in Nat : k >= 1 /\ k + j = n /\ c[k] \notin Nat \ {0}}
<1>4. \A i \in Nat : c[i] = IF i >= n THEN i ELSE c[2 * i]
  BY <1>3 DEF Doubling
<1>5. Bad = {}
  <2>1. SUFFICES ASSUME Bad # {} PROVE FALSE
    OBVIOUS
  <2>2. Bad \in SUBSET Nat
    OBVIOUS
  <2> DEFINE j == Min(Bad)
  <2>3. j \in Bad /\ \A y \in Bad : j <= y
    BY <2>1, <2>2, MinFacts
  <2> HIDE DEF j
  <2>4. PICK k \in Nat : k >= 1 /\ k + j = n /\ c[k] \notin Nat \ {0}
    BY <2>3
  <2>5. j \in Nat
    BY <2>3
  <2>6. k < n /\ c[k] = c[2 * k]
    BY <1>4, <2>4, <2>5
  <2>7. CASE 2 * k >= n
    <3>1. c[2 * k] = 2 * k
      BY <1>4, <2>4, <2>7
    <3> QED
      BY <2>4, <2>6, <3>1
  <2>8. CASE 2 * k < n
    <3>1. PICK i \in Nat : 2 * k + i = n /\ i < j
      <4>1. n - 2 * k \in Nat /\ 2 * k + (n - 2 * k) = n /\ n - 2 * k < j
        BY <2>4, <2>5, <2>8
      <4> QED
        BY <4>1
    <3>2. i \in Bad
      BY <2>4, <2>6, <3>1
    <3> QED
      BY <2>3, <2>5, <3>1, <3>2
  <2> QED
    BY <2>4, <2>7, <2>8
<1>6. c[2] \in Nat \ {0}
  <2>1. CASE 2 >= n
    BY <1>4, <2>1
  <2>2. CASE 2 < n
    <3>1. PICK j \in Nat : 2 + j = n
      <4>1. n - 2 \in Nat /\ 2 + (n - 2) = n
        BY <2>2
      <4> QED
        BY <4>1
    <3>2. j \notin Bad
      BY <1>5
    <3> QED
      BY <3>1, <3>2
  <2> QED
    BY <2>1, <2>2
<1> QED
  BY <1>1, <1>6

-----------------------------------------------------------------------------
(* The tree of scopes.                                                         *)

\* ScopeTree, of any sequence of scopes
TreeOf(ss) ==
  \A s \in DOMAIN ss :
    /\ IF s = 1 THEN ss[s].father = 0 ELSE ss[s].father \in 1..(s - 1)
    /\ \A t \in DOMAIN ss : Cardinality({k \in DOMAIN ss[t].childs : ss[t].childs[k] = s})
                             = (IF ss[s].father = t THEN 1 ELSE 0)

\* The scopes, when there are n nodes
TypedScopes(ss, n) ==
  /\ ss \in Seq(ScopeRecord) /\ ss # <<>>
  /\ \A s \in DOMAIN ss :
       /\ ss[s].node \in 1..n
       /\ \A k \in DOMAIN ss[s].childs : ss[s].childs[k] \in DOMAIN ss
       /\ \A i \in DOMAIN ss[s].namespace :
            IF ss[s].namespace[i].type = "internal" THEN ss[s].namespace[i].body \in 1..n
                                                    ELSE ss[s].namespace[i].body = 0

\* Scopes keep their types while nodes are added
LEMMA TypedScopesGrow ==
  ASSUME NEW ss, NEW n \in Nat, NEW m \in Nat, n <= m, TypedScopes(ss, n)
  PROVE  TypedScopes(ss, m)
BY DEF TypedScopes

\* In a tree of scopes fathers come first
LEMMA FathersFirstFacts ==
  ASSUME scopes \in Seq(ScopeRecord), TreeOf(scopes)
  PROVE  FathersFirst
<1>1. SUFFICES ASSUME NEW s \in DOMAIN scopes PROVE scopes[s].father \in 0..(s - 1)
  BY DEF FathersFirst
<1>2. s \in Nat /\ s >= 1
  OBVIOUS
<1> QED
  BY <1>2 DEF TreeOf

\* A scope that is added: what AddScopeChild makes of the others
LEMMA AddedScope ==
  ASSUME NEW ss \in Seq(ScopeRecord), NEW father \in DOMAIN ss, NEW node \in Nat
  PROVE  LET ms == AddScopeChild(ss, father, node)
             n  == Len(ss)
         IN  /\ ms \in Seq(ScopeRecord) /\ Len(ms) = n + 1
             /\ ms[n + 1] = NewScope(node, father)
             /\ \A t \in 1..n : /\ ms[t].father = ss[t].father
                                /\ ms[t].node = ss[t].node
                                /\ ms[t].namespace = ss[t].namespace
                                /\ ms[t].childs = IF t = father THEN Append(ss[t].childs, n + 1)
                                                                ELSE ss[t].childs
<1> DEFINE n   == Len(ss)
           new == NewScope(node, father)
           ap  == Append(ss, new)
           ms  == AddScopeChild(ss, father, node)
<1>1. n \in Nat /\ father \in 1..n
  OBVIOUS
<1>2. new \in ScopeRecord
  BY <1>1 DEF NewScope, ScopeRecord
<1>3. /\ ap \in Seq(ScopeRecord) /\ Len(ap) = n + 1 /\ ap[n + 1] = new
      /\ \A t \in 1..n : ap[t] = ss[t]
  <2> HIDE DEF new
  <2> QED
    BY <1>2, AppendProperties
<1>4. ms = [ap EXCEPT ![father].childs = Append(@, n + 1)]
  BY DEF AddScopeChild
<1> HIDE DEF ap, ms, n
<1>5. \A t \in 1..(n + 1) : ap[t] \in ScopeRecord
  BY <1>1, <1>3
<1>6. ap[father].childs \in Seq(Nat) /\ Append(ap[father].childs, n + 1) \in Seq(Nat)
  <2>1. ap[father] \in ScopeRecord
    BY <1>1, <1>5
  <2>2. ap[father].childs \in Seq(Nat)
    BY <2>1 DEF ScopeRecord
  <2> QED
    BY <1>1, <2>2
<1>7. DOMAIN ap = 1..(n + 1)
  BY <1>1, <1>3
<1>8. /\ DOMAIN ms = 1..(n + 1)
      /\ \A t \in 1..(n + 1) : t # father => ms[t] = ap[t]
      /\ ms[father] = [ap[father] EXCEPT !.childs = Append(@, n + 1)]
  <2> DEFINE upd == [ap[father] EXCEPT !.childs = Append(@, n + 1)]
  <2>1. ms = [ap EXCEPT ![father] = upd]
    BY <1>4
  <2> HIDE DEF upd
  <2>2. /\ DOMAIN ms = 1..(n + 1)
        /\ \A t \in 1..(n + 1) : t # father => ms[t] = ap[t]
        /\ ms[father] = upd
    BY <1>1, <1>7, <2>1
  <2> QED
    BY <2>2 DEF upd
<1>9. ms[father] \in ScopeRecord /\ ms[father].childs = Append(ap[father].childs, n + 1)
      /\ ms[father].father = ap[father].father /\ ms[father].node = ap[father].node
      /\ ms[father].namespace = ap[father].namespace
  <2>1. ap[father] \in ScopeRecord
    BY <1>1, <1>5
  <2> QED
    BY <1>6, <1>8, <2>1 DEF ScopeRecord
<1>10. ms \in Seq(ScopeRecord) /\ Len(ms) = n + 1
  <2>1. \A t \in 1..(n + 1) : ms[t] \in ScopeRecord
    BY <1>5, <1>8, <1>9
  <2>2. ms = [t \in 1..(n + 1) |-> ms[t]]
    BY <1>4, <1>7, <1>8
  <2> QED
    BY <1>1, <2>1, <2>2
<1>11. ms[n + 1] = new
  BY <1>1, <1>3, <1>8
<1>12. ASSUME NEW t \in 1..n
       PROVE  /\ ms[t].father = ss[t].father
              /\ ms[t].node = ss[t].node
              /\ ms[t].namespace = ss[t].namespace
              /\ ms[t].childs = IF t = father THEN Append(ss[t].childs, n + 1) ELSE ss[t].childs
  <2>1. ap[t] = ss[t]
    BY <1>3
  <2>2. CASE t = father
    BY <1>9, <2>1, <2>2
  <2>3. CASE t # father
    <3>1. ms[t] = ap[t]
      BY <1>1, <1>8, <2>3
    <3> QED
      BY <2>1, <2>3, <3>1
  <2> QED
    BY <2>2, <2>3
<1> HIDE DEF new
<1> QED
  BY <1>10, <1>11, <1>12 DEF ms, n, new

\* A child more for one scope: how often each scope is its child
LEMMA ChildCount ==
  ASSUME NEW c \in Seq(Nat), NEW new \in Nat, \A k \in DOMAIN c : c[k] < new, NEW s \in Nat
  PROVE  LET Places(d) == {k \in DOMAIN d : d[k] = s}
         IN  /\ s < new => Places(Append(c, new)) = Places(c)
             /\ s = new => Places(c) = {} /\ Places(Append(c, new)) = {Len(c) + 1}
<1> DEFINE d == Append(c, new)
<1>1. /\ d \in Seq(Nat) /\ DOMAIN d = 1..(Len(c) + 1) /\ d[Len(c) + 1] = new
      /\ \A k \in 1..Len(c) : d[k] = c[k]
      /\ Len(c) \in Nat /\ DOMAIN c = 1..Len(c)
  OBVIOUS
<1> HIDE DEF d
<1>2. ASSUME NEW k \in 1..Len(c)
      PROVE  c[k] \in Nat /\ c[k] < new
  <2>1. k \in DOMAIN c
    BY <1>1
  <2>2. c[k] \in Nat
    BY <2>1
  <2> QED
    BY <2>1, <2>2
<1>3. s < new => {k \in DOMAIN d : d[k] = s} = {k \in DOMAIN c : c[k] = s}
  BY <1>1
<1>4. s = new => {k \in DOMAIN c : c[k] = s} = {}
  BY <1>1, <1>2
<1>5. s = new => {k \in DOMAIN d : d[k] = s} = {Len(c) + 1}
  BY <1>1, <1>2
<1> QED
  BY <1>3, <1>4, <1>5 DEF d

\* A scope added below another keeps the types and the tree
LEMMA AddScopeChildFacts ==
  ASSUME NEW ss, NEW n \in Nat, TypedScopes(ss, n), TreeOf(ss),
         NEW father \in DOMAIN ss, NEW node \in 1..n
  PROVE  /\ TypedScopes(AddScopeChild(ss, father, node), n)
         /\ TreeOf(AddScopeChild(ss, father, node))
         /\ Len(AddScopeChild(ss, father, node)) = Len(ss) + 1
<1> DEFINE ms == AddScopeChild(ss, father, node)
           l  == Len(ss)
<1>1. ss \in Seq(ScopeRecord) /\ l \in Nat /\ DOMAIN ss = 1..l /\ father \in 1..l /\ node \in Nat
  BY DEF TypedScopes
<1>2. /\ ms \in Seq(ScopeRecord) /\ Len(ms) = l + 1
      /\ ms[l + 1] = NewScope(node, father)
      /\ \A t \in 1..l : /\ ms[t].father = ss[t].father
                         /\ ms[t].node = ss[t].node
                         /\ ms[t].namespace = ss[t].namespace
                         /\ ms[t].childs = IF t = father THEN Append(ss[t].childs, l + 1)
                                                         ELSE ss[t].childs
  BY <1>1, AddedScope
<1> HIDE DEF ms, l
<1>3. /\ ms[l + 1].father = father /\ ms[l + 1].node = node
      /\ ms[l + 1].childs = <<>> /\ ms[l + 1].namespace = <<>>
  BY <1>2 DEF NewScope
<1>4. DOMAIN ms = 1..(l + 1)
  BY <1>1, <1>2
<1>5. \A t \in 1..l : ss[t].childs \in Seq(Nat) /\ \A k \in DOMAIN ss[t].childs : ss[t].childs[k] \in 1..l
  <2> TAKE t \in 1..l
  <2>1. ss[t] \in ScopeRecord
    BY <1>1
  <2>2. \A k \in DOMAIN ss[t].childs : ss[t].childs[k] \in 1..l
    BY <1>1 DEF TypedScopes
  <2> QED
    BY <2>1, <2>2 DEF ScopeRecord
<1>6. ASSUME NEW t \in 1..l
      PROVE  \A k \in DOMAIN ms[t].childs : ms[t].childs[k] \in 1..(l + 1)
  <2>1. CASE t = father
    <3>1. ms[t].childs = Append(ss[t].childs, l + 1) /\ ss[t].childs \in Seq(Nat)
      BY <1>2, <1>5, <2>1
    <3>2. \A k \in DOMAIN Append(ss[t].childs, l + 1) :
            \/ Append(ss[t].childs, l + 1)[k] = l + 1
            \/ k \in DOMAIN ss[t].childs /\ Append(ss[t].childs, l + 1)[k] = ss[t].childs[k]
      BY <1>1, <3>1
    <3> QED
      BY <1>1, <1>5, <3>1, <3>2
  <2>2. CASE t # father
    BY <1>1, <1>2, <1>5, <2>2
  <2> QED
    BY <2>1, <2>2
<1>7. TypedScopes(ms, n)
  <2>1. ms # <<>>
    BY <1>1, <1>2
  <2>2. ASSUME NEW t \in 1..l
        PROVE  /\ ms[t].node \in 1..n
               /\ \A i \in DOMAIN ms[t].namespace :
                    IF ms[t].namespace[i].type = "internal" THEN ms[t].namespace[i].body \in 1..n
                                                            ELSE ms[t].namespace[i].body = 0
    <3>1. ms[t].node = ss[t].node /\ ms[t].namespace = ss[t].namespace /\ t \in DOMAIN ss
      BY <1>1, <1>2
    <3>2. /\ ss[t].node \in 1..n
          /\ \A i \in DOMAIN ss[t].namespace :
               IF ss[t].namespace[i].type = "internal" THEN ss[t].namespace[i].body \in 1..n
                                                       ELSE ss[t].namespace[i].body = 0
      BY <3>1 DEF TypedScopes
    <3> QED
      BY <3>1, <3>2
  <2> QED
    BY <1>1, <1>2, <1>3, <1>4, <1>6, <2>1, <2>2 DEF TypedScopes
<1>8. TreeOf(ms)
  <2>1. ASSUME NEW s \in 1..(l + 1)
        PROVE  IF s = 1 THEN ms[s].father = 0 ELSE ms[s].father \in 1..(s - 1)
    <3>1. CASE s \in 1..l
      BY <1>1, <1>2, <3>1 DEF TreeOf
    <3>2. CASE s = l + 1
      BY <1>1, <1>3, <3>2
    <3> QED
      BY <1>1, <3>1, <3>2
  <2>2. ASSUME NEW s \in 1..(l + 1), NEW t \in 1..(l + 1)
        PROVE  Cardinality({k \in DOMAIN ms[t].childs : ms[t].childs[k] = s})
                 = (IF ms[s].father = t THEN 1 ELSE 0)
    <3> DEFINE Places(d) == {k \in DOMAIN d : d[k] = s}
    <3>1. CASE t = l + 1
      <4>1. Places(ms[t].childs) = {}
        BY <1>3, <3>1
      <4>2. ms[s].father # t
        BY <1>1, <2>1, <1>3, <3>1
      <4> QED
        BY <4>1, <4>2, FS_EmptySet
    <3>2. CASE t \in 1..l /\ s \in 1..l
      <4>1. Cardinality(Places(ss[t].childs)) = (IF ss[s].father = t THEN 1 ELSE 0)
        BY <1>1, <3>2 DEF TreeOf
      <4>2. Places(ms[t].childs) = Places(ss[t].childs)
        <5>1. CASE t = father
          <6>1. ss[t].childs \in Seq(Nat) /\ \A k \in DOMAIN ss[t].childs : ss[t].childs[k] < l + 1
            BY <1>1, <1>5, <3>2
          <6>2. Places(Append(ss[t].childs, l + 1)) = Places(ss[t].childs)
            BY <1>1, <3>2, <6>1, ChildCount
          <6> QED
            BY <1>2, <3>2, <5>1, <6>2
        <5>2. CASE t # father
          BY <1>2, <3>2, <5>2
        <5> QED
          BY <5>1, <5>2
      <4> QED
        BY <1>2, <3>2, <4>1, <4>2
    <3>3. CASE t \in 1..l /\ s = l + 1
      <4>1. ss[t].childs \in Seq(Nat) /\ \A k \in DOMAIN ss[t].childs : ss[t].childs[k] < l + 1
        BY <1>1, <1>5, <3>3
      <4>2. Places(ss[t].childs) = {} /\ Places(Append(ss[t].childs, l + 1)) = {Len(ss[t].childs) + 1}
        BY <1>1, <3>3, <4>1, ChildCount
      <4>3. CASE t = father
        <5>1. Places(ms[t].childs) = {Len(ss[t].childs) + 1}
          BY <1>2, <3>3, <4>2, <4>3
        <5> QED
          BY <1>3, <3>3, <4>3, <5>1, FS_Singleton
      <4>4. CASE t # father
        <5>1. Places(ms[t].childs) = {}
          BY <1>2, <3>3, <4>2, <4>4
        <5> QED
          BY <1>3, <3>3, <4>4, <5>1, FS_EmptySet
      <4> QED
        BY <4>3, <4>4
    <3> QED
      BY <1>1, <3>1, <3>2, <3>3
  <2> QED
    BY <1>4, <2>1, <2>2 DEF TreeOf
<1> QED
  BY <1>2, <1>7, <1>8 DEF ms, l

\* A name that is added to a scope
LEMMA AddEntryFacts ==
  ASSUME NEW ss, NEW n \in Nat, TypedScopes(ss, n), TreeOf(ss),
         NEW s \in DOMAIN ss, NEW e \in EntryType, e.type = "internal", e.body \in 1..n
  PROVE  /\ TypedScopes(AddEntry(ss, s, e), n)
         /\ TreeOf(AddEntry(ss, s, e))
         /\ Len(AddEntry(ss, s, e)) = Len(ss)
<1> DEFINE ms == AddEntry(ss, s, e)
<1>1. ss \in Seq(ScopeRecord) /\ \A t \in DOMAIN ss : ss[t] \in ScopeRecord
  BY DEF TypedScopes
<1>2. ss[s].namespace \in Seq(EntryType) /\ Append(ss[s].namespace, e) \in Seq(EntryType)
  BY <1>1 DEF ScopeRecord
<1>3. /\ DOMAIN ms = DOMAIN ss
      /\ \A t \in DOMAIN ss : t # s => ms[t] = ss[t]
      /\ ms[s] = [ss[s] EXCEPT !.namespace = Append(@, e)]
      /\ ms = [t \in DOMAIN ss |-> ms[t]]
  BY <1>1 DEF AddEntry
<1> HIDE DEF ms
<1>4. /\ ms[s] \in ScopeRecord /\ ms[s].namespace = Append(ss[s].namespace, e)
      /\ ms[s].father = ss[s].father /\ ms[s].node = ss[s].node /\ ms[s].childs = ss[s].childs
  BY <1>1, <1>2, <1>3 DEF ScopeRecord
<1>5. ms \in Seq(ScopeRecord) /\ Len(ms) = Len(ss)
  <2>1. \A t \in 1..Len(ss) : ms[t] \in ScopeRecord
    <3>1. DOMAIN ss = 1..Len(ss)
      BY <1>1
    <3>2. \A t \in DOMAIN ss : t # s => ms[t] \in ScopeRecord
      BY <1>1, <1>3
    <3> QED
      BY <1>4, <3>1, <3>2
  <2>2. ms = [t \in 1..Len(ss) |-> ms[t]]
    BY <1>1, <1>3
  <2> QED
    BY <1>1, <2>1, <2>2
<1>6. \A t \in DOMAIN ss : /\ ms[t].father = ss[t].father /\ ms[t].node = ss[t].node
                           /\ ms[t].childs = ss[t].childs
  BY <1>3, <1>4
<1>7. TreeOf(ms)
  BY <1>3, <1>6 DEF TreeOf
<1>8. ASSUME NEW t \in DOMAIN ss, NEW i \in DOMAIN ms[t].namespace
      PROVE  IF ms[t].namespace[i].type = "internal" THEN ms[t].namespace[i].body \in 1..n
                                                     ELSE ms[t].namespace[i].body = 0
  <2>1. CASE t # s
    BY <1>3, <1>8, <2>1 DEF TypedScopes
  <2>2. CASE t = s
    <3>1. \/ ms[s].namespace[i] = e
          \/ i \in DOMAIN ss[s].namespace /\ ms[s].namespace[i] = ss[s].namespace[i]
      BY <1>2, <1>4, <1>8, <2>2
    <3> QED
      BY <2>2, <3>1 DEF TypedScopes
  <2> QED
    BY <2>1, <2>2
<1>9. ms # <<>>
  <2>1. DOMAIN ms # {}
    BY <1>3
  <2> QED
    BY <2>1
<1> QED
  BY <1>3, <1>5, <1>6, <1>7, <1>8, <1>9 DEF TypedScopes, ms

-----------------------------------------------------------------------------
(* The agenda.                                                                 *)

FrameRecord == [op : FrameOps, scope : Nat, node : Nat, arg : Nat, flags : SUBSET Flags]

\* A frame that waits for an output buffer of its own, and the places of these
Owns(f)    == f.op \in {"invoke", "returned"} \/ (f.op = "bind" /\ Computed(f))
Owned(f)   == IF Owns(f) THEN 1 ELSE 0
Owners(ag) == {k \in DOMAIN ag : Owns(ag[k])}

\* The owners of an agenda can be counted
LEMMA OwnersFinite ==
  ASSUME NEW S, NEW ag \in Seq(S)
  PROVE  IsFiniteSet(Owners(ag)) /\ Cardinality(Owners(ag)) \in Nat
<1>1. Owners(ag) \in SUBSET (1..Len(ag)) /\ Len(ag) \in Nat
  BY DEF Owners
<1>2. IsFiniteSet(1..Len(ag))
  BY <1>1, FS_Interval
<1>3. IsFiniteSet(Owners(ag))
  BY <1>1, <1>2, FS_Subset
<1> QED
  BY <1>3, FS_CardinalityType

\* Frames that wait for nothing own nothing
LEMMA NoOwners ==
  ASSUME NEW ag, \A k \in DOMAIN ag : ~ Owns(ag[k])
  PROVE  Cardinality(Owners(ag)) = 0
<1>1. Owners(ag) = {}
  BY DEF Owners
<1> QED
  BY <1>1, FS_EmptySet

\* The owners of two agendas one after the other
LEMMA OwnersConcat ==
  ASSUME NEW S, NEW s \in Seq(S), NEW t \in Seq(S)
  PROVE  Cardinality(Owners(s \o t)) = Cardinality(Owners(s)) + Cardinality(Owners(t))
<1> DEFINE n == Len(s)
           shifted == {k \in DOMAIN (s \o t) : k > n /\ Owns((s \o t)[k])}
           f == [k \in Owners(t) |-> k + n]
<1>1. /\ n \in Nat /\ Len(t) \in Nat
      /\ s \o t \in Seq(S) /\ Len(s \o t) = n + Len(t)
      /\ \A i \in 1..(n + Len(t)) : (s \o t)[i] = IF i <= n THEN s[i] ELSE t[i - n]
      /\ DOMAIN (s \o t) = 1..(n + Len(t))
      /\ DOMAIN s = 1..n /\ DOMAIN t = 1..Len(t)
  <2>1. n \in Nat /\ Len(t) \in Nat /\ DOMAIN s = 1..n /\ DOMAIN t = 1..Len(t)
    OBVIOUS
  <2>2. s \o t \in Seq(S) /\ Len(s \o t) = n + Len(t)
    BY ConcatProperties
  <2>3. DOMAIN (s \o t) = 1..Len(s \o t)
    BY <2>2
  <2> QED
    BY <2>1, <2>2, <2>3, ConcatProperties
<1> HIDE DEF n
<1>2. Owners(s \o t) = Owners(s) \union shifted
  <2>1. \A k \in 1..n : (s \o t)[k] = s[k] /\ k \in 1..(n + Len(t))
    BY <1>1
  <2> QED
    BY <1>1, <2>1 DEF Owners
<1>3. Owners(s) \intersect shifted = {}
  BY <1>1 DEF Owners
<1>4. f \in Bijection(Owners(t), shifted)
  <2>1. \A k \in Owners(t) : k + n \in shifted
    <3> TAKE k \in Owners(t)
    <3>1. k \in 1..Len(t) /\ Owns(t[k])
      BY <1>1 DEF Owners
    <3>2. k + n \in 1..(n + Len(t)) /\ k + n > n /\ (s \o t)[k + n] = t[k]
      BY <1>1, <3>1
    <3> QED
      BY <1>1, <3>1, <3>2
  <2>2. \A k \in shifted : k - n \in Owners(t) /\ (k - n) + n = k
    <3> TAKE k \in shifted
    <3>1. k \in 1..(n + Len(t)) /\ k > n /\ Owns((s \o t)[k])
      BY <1>1
    <3>2. k - n \in 1..Len(t) /\ (k - n) + n = k /\ ~ (k <= n)
      BY <1>1, <3>1
    <3>3. (s \o t)[k] = t[k - n]
      BY <1>1, <3>1, <3>2
    <3> QED
      BY <1>1, <3>1, <3>2, <3>3 DEF Owners
  <2>3. \A j, k \in Owners(t) : j + n = k + n => j = k
    BY <1>1 DEF Owners
  <2> HIDE DEF shifted
  <2>4. f \in [Owners(t) -> shifted]
    BY <2>1
  <2>5. f \in Injection(Owners(t), shifted)
    BY <2>3, <2>4 DEF Injection, IsInjective
  <2>6. f \in Surjection(Owners(t), shifted)
    <3>1. \A k \in shifted : \E j \in Owners(t) : f[j] = k
      BY <2>2
    <3> QED
      BY <2>4, <3>1 DEF Surjection
  <2> QED
    BY <2>5, <2>6 DEF Bijection
<1>5. IsFiniteSet(Owners(s)) /\ IsFiniteSet(Owners(t))
      /\ Cardinality(Owners(s)) \in Nat /\ Cardinality(Owners(t)) \in Nat
  BY OwnersFinite
<1> HIDE DEF shifted, f
<1>6. IsFiniteSet(shifted) /\ Cardinality(shifted) = Cardinality(Owners(t))
  <2>1. ExistsBijection(Owners(t), shifted)
    BY <1>4 DEF ExistsBijection
  <2> QED
    BY <1>5, <2>1, FS_Bijection
<1>7. Cardinality(Owners(s) \union shifted)
        = Cardinality(Owners(s)) + Cardinality(shifted) - Cardinality(Owners(s) \intersect shifted)
  BY <1>5, <1>6, FS_Union
<1>8. Cardinality(Owners(s) \intersect shifted) = 0
  BY <1>3, FS_EmptySet
<1> QED
  BY <1>2, <1>5, <1>6, <1>7, <1>8

\* The agenda that Continue leaves
LEMMA Continued ==
  ASSUME NEW S, NEW ag \in Seq(S), ag # <<>>, NEW frames \in Seq(S),
         NEW new, new = frames \o Tail(ag)
  PROVE  /\ new \in Seq(S)
         /\ \A k \in DOMAIN new :
              \/ k \in DOMAIN frames /\ new[k] = frames[k]
              \/ /\ k > Len(frames) /\ (k - Len(frames)) + 1 \in DOMAIN ag \ {1}
                 /\ new[k] = ag[(k - Len(frames)) + 1]
         /\ \A k \in DOMAIN frames : k \in DOMAIN new /\ new[k] = frames[k]
         /\ \A j \in DOMAIN ag \ {1} : /\ (j - 1) + Len(frames) \in DOMAIN new
                                       /\ new[(j - 1) + Len(frames)] = ag[j]
<1> DEFINE m == Len(frames)
<1>1. /\ m \in Nat /\ Len(ag) \in Nat /\ Len(ag) >= 1
      /\ Tail(ag) \in Seq(S) /\ Len(Tail(ag)) = Len(ag) - 1
      /\ \A i \in 1..(Len(ag) - 1) : Tail(ag)[i] = ag[i + 1]
  BY HeadTailProperties
<1>2. /\ new \in Seq(S) /\ Len(new) = m + (Len(ag) - 1)
      /\ \A i \in 1..(m + (Len(ag) - 1)) : new[i] = IF i <= m THEN frames[i] ELSE Tail(ag)[i - m]
      /\ DOMAIN frames = 1..m /\ DOMAIN ag = 1..Len(ag)
  <2> DEFINE t == Tail(ag)
  <2>1. t \in Seq(S) /\ Len(t) = Len(ag) - 1
    BY <1>1
  <2> HIDE DEF t
  <2>2. /\ frames \o t \in Seq(S) /\ Len(frames \o t) = m + Len(t)
        /\ \A i \in 1..(m + Len(t)) : (frames \o t)[i] = IF i <= m THEN frames[i] ELSE t[i - m]
    BY <2>1, ConcatProperties
  <2>3. new = frames \o t
    BY DEF t
  <2>4. DOMAIN frames = 1..m /\ DOMAIN ag = 1..Len(ag)
    OBVIOUS
  <2> QED
    BY <2>1, <2>2, <2>3, <2>4 DEF t
<1>3. DOMAIN new = 1..(m + (Len(ag) - 1))
  BY <1>2
<1>4. ASSUME NEW k \in DOMAIN new
      PROVE  \/ k \in DOMAIN frames /\ new[k] = frames[k]
             \/ /\ k > m /\ (k - m) + 1 \in DOMAIN ag \ {1}
                /\ new[k] = ag[(k - m) + 1]
  <2>1. CASE k <= m
    BY <1>1, <1>2, <1>3, <2>1
  <2>2. CASE ~ (k <= m)
    <3>1. k - m \in 1..(Len(ag) - 1) /\ k > m
      BY <1>1, <1>3, <2>2
    <3>2. new[k] = Tail(ag)[k - m]
      BY <1>2, <1>3, <2>2
    <3>3. Tail(ag)[k - m] = ag[(k - m) + 1]
      BY <1>1, <3>1
    <3> QED
      BY <1>1, <1>2, <3>1, <3>2, <3>3
  <2> QED
    BY <2>1, <2>2
<1>5. ASSUME NEW j \in DOMAIN ag \ {1}
      PROVE  (j - 1) + m \in DOMAIN new /\ new[(j - 1) + m] = ag[j]
  <2>1. j - 1 \in 1..(Len(ag) - 1) /\ (j - 1) + 1 = j
    BY <1>1, <1>2
  <2>2. (j - 1) + m \in 1..(m + (Len(ag) - 1)) /\ ~ ((j - 1) + m <= m) /\ ((j - 1) + m) - m = j - 1
    BY <1>1, <2>1
  <2>3. Tail(ag)[j - 1] = ag[j]
    BY <1>1, <2>1
  <2> QED
    BY <1>2, <1>3, <2>2, <2>3
<1>6. \A k \in DOMAIN frames : k \in DOMAIN new /\ new[k] = frames[k]
  BY <1>1, <1>2, <1>3
<1> QED
  BY <1>2, <1>4, <1>5, <1>6

\* The same, of the frames alone
LEMMA ContinuedFrames ==
  ASSUME NEW S, NEW ag \in Seq(S), ag # <<>>, NEW frames \in Seq(S),
         NEW new, new = frames \o Tail(ag)
  PROVE  /\ new \in Seq(S)
         /\ \A k \in DOMAIN new :
              \/ k \in DOMAIN frames /\ new[k] = frames[k]
              \/ k > Len(frames) /\ \E j \in DOMAIN ag : new[k] = ag[j]
         /\ \A k \in DOMAIN frames : k \in DOMAIN new /\ new[k] = frames[k]
<1>1. /\ new \in Seq(S)
      /\ \A k \in DOMAIN new :
           \/ k \in DOMAIN frames /\ new[k] = frames[k]
           \/ /\ k > Len(frames) /\ (k - Len(frames)) + 1 \in DOMAIN ag \ {1}
              /\ new[k] = ag[(k - Len(frames)) + 1]
      /\ \A k \in DOMAIN frames : k \in DOMAIN new /\ new[k] = frames[k]
  BY Continued
<1>2. \A k \in DOMAIN new :
        \/ k \in DOMAIN frames /\ new[k] = frames[k]
        \/ k > Len(frames) /\ \E j \in DOMAIN ag : new[k] = ag[j]
  BY <1>1, Zenon
<1> QED
  BY <1>1, <1>2

\* The owners that are left after a step
LEMMA OwnersStep ==
  ASSUME NEW S, NEW ag \in Seq(S), ag # <<>>, NEW frames \in Seq(S),
         NEW new, new = frames \o Tail(ag)
  PROVE  Cardinality(Owners(new)) + Owned(ag[1]) = Cardinality(Owners(frames)) + Cardinality(Owners(ag))
<1> DEFINE first == <<ag[1]>>
<1>0. /\ Len(ag) \in Nat /\ Len(ag) >= 1
      /\ Tail(ag) \in Seq(S) /\ Len(Tail(ag)) = Len(ag) - 1
      /\ \A i \in 1..(Len(ag) - 1) : Tail(ag)[i] = ag[i + 1]
  BY HeadTailProperties
<1>1. ag[1] \in S
  BY <1>0
<1>2. first \in Seq(S) /\ Len(first) = 1 /\ first[1] = ag[1] /\ DOMAIN first = 1..1
  BY <1>1
<1> HIDE DEF first
<1>3. ag = first \o Tail(ag)
  <2>1. /\ first \o Tail(ag) \in Seq(S) /\ Len(first \o Tail(ag)) = 1 + (Len(ag) - 1)
        /\ \A i \in 1..(1 + (Len(ag) - 1)) : (first \o Tail(ag))[i]
             = IF i <= 1 THEN first[i] ELSE Tail(ag)[i - 1]
    <3> DEFINE t == Tail(ag)
    <3>1. t \in Seq(S) /\ Len(t) = Len(ag) - 1
      BY <1>0
    <3> HIDE DEF t
    <3>2. /\ first \o t \in Seq(S) /\ Len(first \o t) = 1 + Len(t)
          /\ \A i \in 1..(1 + Len(t)) : (first \o t)[i] = IF i <= 1 THEN first[i] ELSE t[i - 1]
      <4>1. /\ first \o t \in Seq(S) /\ Len(first \o t) = Len(first) + Len(t)
            /\ \A i \in 1..(Len(first) + Len(t)) :
                 (first \o t)[i] = IF i <= Len(first) THEN first[i] ELSE t[i - Len(first)]
        BY <1>2, <3>1, ConcatProperties
      <4> QED
        BY <1>2, <4>1
    <3> QED
      BY <3>1, <3>2 DEF t
  <2>2. \A i \in 1..Len(ag) : (first \o Tail(ag))[i] = ag[i]
    <3> TAKE i \in 1..Len(ag)
    <3>1. CASE i = 1
      BY <1>0, <1>2, <2>1, <3>1
    <3>2. CASE i # 1
      <4>1. i - 1 \in 1..(Len(ag) - 1) /\ (i - 1) + 1 = i
        BY <1>0, <3>2
      <4>2. Tail(ag)[i - 1] = ag[i]
        BY <1>0, <4>1
      <4> QED
        BY <1>0, <2>1, <3>2, <4>2
    <3> QED
      BY <3>1, <3>2
  <2>3. Len(first \o Tail(ag)) = Len(ag)
    BY <1>0, <2>1
  <2> QED
    BY <2>1, <2>2, <2>3, SeqEqual
<1>4. Cardinality(Owners(ag)) = Cardinality(Owners(first)) + Cardinality(Owners(Tail(ag)))
  <2>1. Cardinality(Owners(first \o Tail(ag)))
          = Cardinality(Owners(first)) + Cardinality(Owners(Tail(ag)))
    BY <1>0, <1>2, OwnersConcat
  <2> QED
    BY <1>3, <2>1
<1>5. Cardinality(Owners(new)) = Cardinality(Owners(frames)) + Cardinality(Owners(Tail(ag)))
  <2>1. Cardinality(Owners(frames \o Tail(ag)))
          = Cardinality(Owners(frames)) + Cardinality(Owners(Tail(ag)))
    BY <1>0, OwnersConcat
  <2> QED
    BY <2>1
<1>6. Cardinality(Owners(first)) = Owned(ag[1])
  <2>1. CASE Owns(ag[1])
    <3>1. Owners(first) = {1}
      BY <1>2, <2>1 DEF Owners
    <3> QED
      BY <2>1, <3>1, FS_Singleton DEF Owned
  <2>2. CASE ~ Owns(ag[1])
    <3>1. Owners(first) = {}
      BY <1>2, <2>2 DEF Owners
    <3> QED
      BY <2>2, <3>1, FS_EmptySet DEF Owned
  <2> QED
    BY <2>1, <2>2
<1>7. new \in Seq(S)
  BY <1>0, ConcatProperties
<1>8. /\ Cardinality(Owners(frames)) \in Nat /\ Cardinality(Owners(Tail(ag))) \in Nat
      /\ Cardinality(Owners(new)) \in Nat /\ Cardinality(Owners(ag)) \in Nat
      /\ Cardinality(Owners(first)) \in Nat
  BY <1>0, <1>2, <1>7, OwnersFinite
<1> QED
  BY <1>4, <1>5, <1>6, <1>8


-----------------------------------------------------------------------------
(* The nodes.                                                                  *)

\* The types of the node that names a call
NameTypes == {"SYMBOL", "FUNCTION", "UNDEFINED"}

\* Children are nodes
Linked(ns) ==
  /\ ns \in Seq(NodeRecord)
  /\ \A id \in DOMAIN ns : \A k \in DOMAIN ns[id].childs : ns[id].childs[k] \in DOMAIN ns

\* No name has a blank in it
Unblank(text)  == \A i \in DOMAIN text : ~ Blank(text[i])
NamesClean(ns) == \A id \in DOMAIN ns : ns[id].type \in NameTypes => Unblank(ns[id].text)

\* How many children of a node are read without a look at how many it has
Needed(n) == CASE n.type = "ASSIGNMENT" -> 2
               [] n.type = "CALL" -> 1
               [] n.type = "SYMBOL" /\ n.text = NoText -> 1
               [] OTHER -> 0
Complete(ns, id) == Needed(ns[id]) <= Len(ns[id].childs)

\* The node has a first child, and it is a name
FirstName(ns, id) == Len(ns[id].childs) >= 1 /\ ns[ns[id].childs[1]].type \in NameTypes

\* What evaluation does to the nodes: none loses a child, or its name
Later(ns, ms) ==
  /\ Len(ns) <= Len(ms)
  /\ \A id \in DOMAIN ns : /\ Len(ns[id].childs) <= Len(ms[id].childs)
                           /\ FirstName(ns, id) => FirstName(ms, id)
                           /\ Needed(ms[id]) <= Needed(ns[id])

\* At most two children are read unlooked at
LEMMA NeededType == ASSUME NEW n PROVE Needed(n) \in 0..2
BY DEF Needed

\* What a node of linked nodes is
LEMMA LinkedFacts ==
  ASSUME NEW ns, Linked(ns), NEW id \in DOMAIN ns
  PROVE  /\ ns \in Seq(NodeRecord) /\ Len(ns) \in Nat /\ DOMAIN ns = 1..Len(ns)
         /\ ns[id] \in NodeRecord
         /\ ns[id].type \in NodeTypes /\ ns[id].text \in Seq(Characters)
         /\ ns[id].childs \in Seq(Nat) /\ Len(ns[id].childs) \in Nat
         /\ DOMAIN ns[id].childs = 1..Len(ns[id].childs)
         /\ \A k \in 1..Len(ns[id].childs) : ns[id].childs[k] \in DOMAIN ns
<1>1. ns \in Seq(NodeRecord) /\ ns[id] \in NodeRecord
  BY DEF Linked
<1>2. ns[id].type \in NodeTypes /\ ns[id].text \in Seq(Characters) /\ ns[id].childs \in Seq(Nat)
  BY <1>1 DEF NodeRecord
<1>3. Len(ns[id].childs) \in Nat /\ DOMAIN ns[id].childs = 1..Len(ns[id].childs)
  BY <1>2
<1> QED
  BY <1>1, <1>2, <1>3 DEF Linked

\* Nodes that stay as they are
LEMMA LaterSame == ASSUME NEW ns, Linked(ns) PROVE Later(ns, ns)
<1>1. ASSUME NEW id \in DOMAIN ns
      PROVE  Len(ns[id].childs) <= Len(ns[id].childs) /\ Needed(ns[id]) <= Needed(ns[id])
  <2>1. Len(ns[id].childs) \in Nat /\ Needed(ns[id]) \in 0..2
    BY LinkedFacts, NeededType
  <2> QED
    BY <2>1
<1>2. Len(ns) \in Nat
  BY DEF Linked
<1> QED
  BY <1>1, <1>2 DEF Later

\* Two changes one after the other
LEMMA LaterTrans ==
  ASSUME NEW ns, NEW ms, NEW ls, Linked(ns), Linked(ms), Linked(ls), Later(ns, ms), Later(ms, ls)
  PROVE  Later(ns, ls)
<1>1. /\ Len(ns) \in Nat /\ Len(ms) \in Nat /\ Len(ls) \in Nat
      /\ DOMAIN ns = 1..Len(ns) /\ DOMAIN ms = 1..Len(ms) /\ DOMAIN ls = 1..Len(ls)
  BY DEF Linked
<1>2. Len(ns) <= Len(ms) /\ Len(ms) <= Len(ls)
  BY DEF Later
<1>3. ASSUME NEW id \in DOMAIN ns
      PROVE  /\ Len(ns[id].childs) <= Len(ls[id].childs)
             /\ FirstName(ns, id) => FirstName(ls, id)
             /\ Needed(ls[id]) <= Needed(ns[id])
  <2>1. id \in DOMAIN ms /\ id \in DOMAIN ls
    BY <1>1, <1>2
  <2>2. /\ Len(ns[id].childs) \in Nat /\ Len(ms[id].childs) \in Nat /\ Len(ls[id].childs) \in Nat
        /\ Needed(ns[id]) \in 0..2 /\ Needed(ms[id]) \in 0..2 /\ Needed(ls[id]) \in 0..2
    BY <2>1, LinkedFacts, NeededType
  <2>3. /\ Len(ns[id].childs) <= Len(ms[id].childs) /\ Len(ms[id].childs) <= Len(ls[id].childs)
        /\ Needed(ms[id]) <= Needed(ns[id]) /\ Needed(ls[id]) <= Needed(ms[id])
        /\ FirstName(ns, id) => FirstName(ms, id)
        /\ FirstName(ms, id) => FirstName(ls, id)
    BY <2>1 DEF Later
  <2> QED
    BY <2>2, <2>3
<1> QED
  BY <1>1, <1>2, <1>3 DEF Later

\* ast_add_node
LEMMA NewNodeKept ==
  ASSUME NEW ns, Linked(ns), NamesClean(ns), NEW type \in NodeTypes, NEW text \in Seq(Characters),
         type \in NameTypes => Unblank(text)
  PROVE  LET ms == NewNode(ns, type, text)
         IN  /\ Linked(ms) /\ NamesClean(ms) /\ Later(ns, ms)
             /\ Len(ms) = Len(ns) + 1
             /\ \A id \in DOMAIN ns : ms[id] = ns[id]
             /\ ms[Len(ns) + 1] = [type |-> type, text |-> text, childs |-> <<>>]
<1> DEFINE n  == [type |-> type, text |-> text, childs |-> <<>>]
           ms == NewNode(ns, type, text)
<1>1. n \in NodeRecord
  BY DEF NodeRecord
<1>2. ns \in Seq(NodeRecord) /\ Len(ns) \in Nat /\ DOMAIN ns = 1..Len(ns)
  BY DEF Linked
<1>3. n.childs = <<>> /\ n.type = type /\ n.text = text
  OBVIOUS
<1>4. ms = Append(ns, n)
  BY DEF NewNode
<1> HIDE DEF n, ms
<1>5. /\ ms \in Seq(NodeRecord) /\ Len(ms) = Len(ns) + 1
      /\ \A id \in DOMAIN ns : ms[id] = ns[id]
      /\ ms[Len(ns) + 1] = n
      /\ DOMAIN ms = DOMAIN ns \union {Len(ns) + 1}
  BY <1>1, <1>2, <1>4
<1>6. Linked(ms)
  <2>1. \A id \in DOMAIN ns : \A k \in DOMAIN ms[id].childs : ms[id].childs[k] \in DOMAIN ms
    BY <1>5 DEF Linked
  <2>2. \A k \in DOMAIN ms[Len(ns) + 1].childs : FALSE
    BY <1>3, <1>5
  <2> QED
    BY <1>5, <2>1, <2>2 DEF Linked
<1>7. NamesClean(ms)
  BY <1>3, <1>5 DEF NamesClean
<1>8. Later(ns, ms)
  <2>1. ASSUME NEW id \in DOMAIN ns
        PROVE  /\ Len(ns[id].childs) <= Len(ms[id].childs)
               /\ FirstName(ns, id) => FirstName(ms, id)
               /\ Needed(ms[id]) <= Needed(ns[id])
    <3>1. Len(ns[id].childs) \in Nat /\ Needed(ns[id]) \in 0..2 /\ ms[id] = ns[id]
      BY <1>5, LinkedFacts, NeededType
    <3>2. FirstName(ns, id) => ns[id].childs[1] \in DOMAIN ns
      BY LinkedFacts DEF FirstName
    <3> QED
      BY <1>5, <3>1, <3>2 DEF FirstName
  <2> QED
    BY <1>2, <1>5, <2>1 DEF Later
<1> QED
  BY <1>5, <1>6, <1>7, <1>8 DEF ms, n

\* A node that is changed in place: the others are not, and it keeps its name
LEMMA ChangedKept ==
  ASSUME NEW ns, Linked(ns), NamesClean(ns), NEW p \in DOMAIN ns, NEW n \in NodeRecord,
         \A k \in DOMAIN n.childs : n.childs[k] \in DOMAIN ns,
         Len(ns[p].childs) <= Len(n.childs),
         FirstName(ns, p) => n.childs[1] = ns[p].childs[1],
         n.text = ns[p].text,
         \/ n.type = ns[p].type
         \/ ns[p].type \in NameTypes /\ n.type \in {"FUNCTION", "UNDEFINED"}
  PROVE  LET ms == [ns EXCEPT ![p] = n]
         IN  /\ Linked(ms) /\ NamesClean(ms) /\ Later(ns, ms)
             /\ Len(ms) = Len(ns)
             /\ ms[p] = n
             /\ \A id \in DOMAIN ns : id # p => ms[id] = ns[id]
<1> DEFINE ms == [ns EXCEPT ![p] = n]
<1>1. ns \in Seq(NodeRecord) /\ Len(ns) \in Nat /\ DOMAIN ns = 1..Len(ns)
  BY DEF Linked
<1>2. /\ ms \in Seq(NodeRecord) /\ Len(ms) = Len(ns) /\ DOMAIN ms = DOMAIN ns
      /\ ms[p] = n
      /\ \A id \in DOMAIN ns : id # p => ms[id] = ns[id]
  BY <1>1
<1> HIDE DEF ms
<1>3. n.childs \in Seq(Nat) /\ Len(n.childs) \in Nat /\ DOMAIN n.childs = 1..Len(n.childs)
  <2>1. n.childs \in Seq(Nat)
    BY DEF NodeRecord
  <2> QED
    BY <2>1
<1>4. Linked(ms)
  <2>1. \A id \in DOMAIN ns : \A k \in DOMAIN ms[id].childs : ms[id].childs[k] \in DOMAIN ns
    <3> TAKE id \in DOMAIN ns
    <3>1. CASE id = p
      BY <1>2, <3>1
    <3>2. CASE id # p
      BY <1>2, <3>2 DEF Linked
    <3> QED
      BY <3>1, <3>2
  <2> QED
    BY <1>2, <2>1 DEF Linked
<1>5. n.type \in NameTypes => ns[p].type \in NameTypes
  BY DEF NameTypes
<1>6. NamesClean(ms)
  <2>1. ASSUME NEW id \in DOMAIN ns, ms[id].type \in NameTypes PROVE Unblank(ms[id].text)
    <3>1. CASE id = p
      BY <1>2, <1>5, <2>1, <3>1 DEF NamesClean
    <3>2. CASE id # p
      BY <1>2, <2>1, <3>2 DEF NamesClean
    <3> QED
      BY <3>1, <3>2
  <2> QED
    BY <1>2, <2>1 DEF NamesClean
<1>7. \A id \in DOMAIN ns : ns[id].type \in NameTypes => ms[id].type \in NameTypes
  BY <1>2 DEF NameTypes
<1>8. Later(ns, ms)
  <2>1. ASSUME NEW id \in DOMAIN ns
        PROVE  /\ Len(ns[id].childs) <= Len(ms[id].childs)
               /\ FirstName(ns, id) => FirstName(ms, id)
               /\ Needed(ms[id]) <= Needed(ns[id])
    <3>1. Len(ns[id].childs) \in Nat /\ Needed(ns[id]) \in 0..2
      BY LinkedFacts, NeededType
    <3>2. FirstName(ns, id) => ns[id].childs[1] \in DOMAIN ns
      BY LinkedFacts DEF FirstName
    <3>3. CASE id = p
      <4>1. Needed(n) <= Needed(ns[id])
        <5>1. CASE n.type = ns[p].type
          <6>1. Needed(n) = Needed(ns[p])
            BY <5>1 DEF Needed
          <6> QED
            BY <3>1, <3>3, <6>1
        <5>2. CASE n.type \in {"FUNCTION", "UNDEFINED"}
          <6>1. Needed(n) = 0
            BY <5>2 DEF Needed
          <6> QED
            BY <3>1, <3>3, <6>1
        <5> QED
          BY <5>1, <5>2
      <4>2. ASSUME FirstName(ns, p) PROVE FirstName(ms, p)
        <5>1. Len(n.childs) >= 1
          BY <1>3, <3>1, <3>3, <4>2 DEF FirstName
        <5>2. ms[p].childs[1] = ns[p].childs[1] /\ ns[p].childs[1] \in DOMAIN ns
          BY <1>2, <3>2, <3>3, <4>2
        <5>3. ms[ns[p].childs[1]].type \in NameTypes
          BY <1>7, <4>2, <5>2 DEF FirstName
        <5> QED
          BY <1>2, <5>1, <5>2, <5>3 DEF FirstName
      <4> QED
        BY <1>2, <3>3, <4>1, <4>2
    <3>4. CASE id # p
      BY <1>2, <1>7, <3>1, <3>2, <3>4 DEF FirstName
    <3> QED
      BY <3>3, <3>4
  <2> QED
    BY <1>1, <1>2, <2>1 DEF Later
<1> QED
  BY <1>2, <1>4, <1>6, <1>8 DEF ms

\* What ast_add_child makes of the nodes
AddedChild(ns, ms, p, c) ==
  /\ Linked(ms) /\ NamesClean(ms) /\ Later(ns, ms)
  /\ Len(ms) = Len(ns)
  /\ \A id \in DOMAIN ns : ms[id].type = ns[id].type /\ ms[id].text = ns[id].text
  /\ ms[p].childs = Append(ns[p].childs, c)
  /\ \A id \in DOMAIN ns : id # p => ms[id] = ns[id]

\* A child more, which is a node already
LEMMA AddChildKept ==
  ASSUME NEW ns, Linked(ns), NamesClean(ns), NEW p \in DOMAIN ns, NEW c \in DOMAIN ns
  PROVE  AddedChild(ns, AddChild(ns, p, c), p, c)
<1> DEFINE n == [ns[p] EXCEPT !.childs = Append(@, c)]
<1>1. /\ ns[p] \in NodeRecord /\ ns[p].childs \in Seq(Nat) /\ c \in Nat
      /\ Len(ns[p].childs) \in Nat
      /\ \A k \in 1..Len(ns[p].childs) : ns[p].childs[k] \in DOMAIN ns
  BY LinkedFacts
<1>2. /\ Append(ns[p].childs, c) \in Seq(Nat)
      /\ Len(Append(ns[p].childs, c)) = Len(ns[p].childs) + 1
      /\ \A k \in DOMAIN Append(ns[p].childs, c) :
           \/ Append(ns[p].childs, c)[k] = c
           \/ k \in 1..Len(ns[p].childs) /\ Append(ns[p].childs, c)[k] = ns[p].childs[k]
      /\ Len(ns[p].childs) >= 1 => Append(ns[p].childs, c)[1] = ns[p].childs[1]
  BY <1>1
<1>3. n \in NodeRecord /\ n.childs = Append(ns[p].childs, c) /\ n.text = ns[p].text
      /\ n.type = ns[p].type
  BY <1>1, <1>2 DEF NodeRecord
<1>4. AddChild(ns, p, c) = [ns EXCEPT ![p] = n]
  BY DEF AddChild
<1> HIDE DEF n
<1>5. /\ \A k \in DOMAIN n.childs : n.childs[k] \in DOMAIN ns
      /\ Len(ns[p].childs) <= Len(n.childs)
      /\ FirstName(ns, p) => n.childs[1] = ns[p].childs[1]
      /\ n.text = ns[p].text
      /\ \/ n.type = ns[p].type
         \/ ns[p].type \in NameTypes /\ n.type \in {"FUNCTION", "UNDEFINED"}
  BY <1>1, <1>2, <1>3 DEF FirstName
<1> DEFINE ms == [ns EXCEPT ![p] = n]
<1>6. /\ Linked(ms) /\ NamesClean(ms) /\ Later(ns, ms) /\ Len(ms) = Len(ns) /\ ms[p] = n
      /\ \A id \in DOMAIN ns : id # p => ms[id] = ns[id]
  <2>1. n \in NodeRecord
    BY <1>3
  <2> QED
    BY <1>5, <2>1, ChangedKept
<1> HIDE DEF ms
<1>7. \A id \in DOMAIN ns : ms[id].type = ns[id].type /\ ms[id].text = ns[id].text
  <2> TAKE id \in DOMAIN ns
  <2>1. CASE id = p
    BY <1>3, <1>6, <2>1
  <2>2. CASE id # p
    BY <1>6, <2>2
  <2> QED
    BY <2>1, <2>2
<1> QED
  BY <1>3, <1>4, <1>6, <1>7 DEF ms, AddedChild

\* A call's name is marked as that of a function, or of nothing
LEMMA SetTypeKept ==
  ASSUME NEW ns, Linked(ns), NamesClean(ns), NEW p \in DOMAIN ns, ns[p].type \in NameTypes,
         NEW type \in {"FUNCTION", "UNDEFINED"}
  PROVE  LET ms == SetType(ns, p, type)
         IN  /\ Linked(ms) /\ NamesClean(ms) /\ Later(ns, ms)
             /\ Len(ms) = Len(ns)
             /\ \A id \in DOMAIN ns : ms[id].childs = ns[id].childs
<1> DEFINE n == [ns[p] EXCEPT !.type = type]
<1>1. /\ ns[p] \in NodeRecord /\ ns[p].childs \in Seq(Nat) /\ Len(ns[p].childs) \in Nat
      /\ DOMAIN ns[p].childs = 1..Len(ns[p].childs)
      /\ \A k \in 1..Len(ns[p].childs) : ns[p].childs[k] \in DOMAIN ns
  BY LinkedFacts
<1>2. type \in NodeTypes
  BY DEF NodeTypes
<1>3. n \in NodeRecord /\ n.childs = ns[p].childs /\ n.text = ns[p].text /\ n.type = type
  BY <1>1, <1>2 DEF NodeRecord
<1>4. SetType(ns, p, type) = [ns EXCEPT ![p] = n]
  BY DEF SetType
<1> HIDE DEF n
<1> DEFINE ms == [ns EXCEPT ![p] = n]
<1>5. /\ Linked(ms) /\ NamesClean(ms) /\ Later(ns, ms) /\ Len(ms) = Len(ns) /\ ms[p] = n
      /\ \A id \in DOMAIN ns : id # p => ms[id] = ns[id]
  <2>1. /\ \A k \in DOMAIN n.childs : n.childs[k] \in DOMAIN ns
        /\ Len(ns[p].childs) <= Len(n.childs)
        /\ FirstName(ns, p) => n.childs[1] = ns[p].childs[1]
        /\ n.text = ns[p].text
        /\ \/ n.type = ns[p].type
           \/ ns[p].type \in NameTypes /\ n.type \in {"FUNCTION", "UNDEFINED"}
    BY <1>1, <1>3
  <2>2. n \in NodeRecord
    BY <1>3
  <2> QED
    BY <2>1, <2>2, ChangedKept
<1> HIDE DEF ms
<1>6. \A id \in DOMAIN ns : ms[id].childs = ns[id].childs
  BY <1>3, <1>5
<1> QED
  BY <1>4, <1>5, <1>6 DEF ms

\* ast_set_nth_child, of a child after the first
LEMMA SetNthChildKept ==
  ASSUME NEW ns, Linked(ns), NamesClean(ns), NEW p \in DOMAIN ns, NEW c \in DOMAIN ns,
         NEW i \in Nat, i > 1, i <= Len(ns[p].childs)
  PROVE  LET ms == SetNthChild(ns, p, i, c)
         IN  /\ Linked(ms) /\ NamesClean(ms) /\ Later(ns, ms)
             /\ Len(ms) = Len(ns)
<1> DEFINE childs == [ns[p].childs EXCEPT ![i] = c]
           n == [ns[p] EXCEPT !.childs = childs]
<1>1. /\ ns[p] \in NodeRecord /\ ns[p].childs \in Seq(Nat) /\ c \in Nat
      /\ Len(ns[p].childs) \in Nat /\ DOMAIN ns[p].childs = 1..Len(ns[p].childs)
      /\ \A k \in 1..Len(ns[p].childs) : ns[p].childs[k] \in DOMAIN ns
  BY LinkedFacts
<1>2. /\ childs \in Seq(Nat) /\ Len(childs) = Len(ns[p].childs) /\ childs[1] = ns[p].childs[1]
      /\ DOMAIN childs = DOMAIN ns[p].childs
      /\ \A k \in DOMAIN childs : childs[k] \in DOMAIN ns
  <2> DEFINE old == ns[p].childs
  <2>1. old \in Seq(Nat) /\ i \in 1..Len(old) /\ c \in Nat
    BY <1>1
  <2>2. \A k \in 1..Len(old) : old[k] \in DOMAIN ns
    BY <1>1
  <2>3. childs = [old EXCEPT ![i] = c]
    OBVIOUS
  <2> HIDE DEF old, childs
  <2>4. childs \in Seq(Nat) /\ Len(childs) = Len(old)
        /\ \A k \in 1..Len(old) : childs[k] = IF k = i THEN c ELSE old[k]
    BY <2>1, <2>3, ExceptSeq
  <2>5. DOMAIN childs = 1..Len(old) /\ DOMAIN old = 1..Len(old) /\ Len(old) \in Nat
    BY <2>1, <2>4
  <2>6. childs[1] = old[1]
    BY <2>1, <2>4, <2>5
  <2>7. \A k \in DOMAIN childs : childs[k] \in DOMAIN ns
    BY <2>2, <2>4, <2>5
  <2> QED
    BY <2>4, <2>5, <2>6, <2>7 DEF old
<1>3. SetNthChild(ns, p, i, c) = [ns EXCEPT ![p] = n]
  BY DEF SetNthChild
<1> HIDE DEF childs
<1>4. n \in NodeRecord /\ n.childs = childs /\ n.text = ns[p].text /\ n.type = ns[p].type
  BY <1>1, <1>2 DEF NodeRecord
<1> HIDE DEF n
<1>5. /\ \A k \in DOMAIN n.childs : n.childs[k] \in DOMAIN ns
      /\ Len(ns[p].childs) <= Len(n.childs)
      /\ FirstName(ns, p) => n.childs[1] = ns[p].childs[1]
      /\ n.text = ns[p].text
      /\ \/ n.type = ns[p].type
         \/ ns[p].type \in NameTypes /\ n.type \in {"FUNCTION", "UNDEFINED"}
  BY <1>1, <1>2, <1>4
<1> DEFINE ms == [ns EXCEPT ![p] = n]
<1>6. Linked(ms) /\ NamesClean(ms) /\ Later(ns, ms) /\ Len(ms) = Len(ns)
  <2>1. n \in NodeRecord
    BY <1>4
  <2> QED
    BY <1>5, <2>1, ChangedKept
<1> HIDE DEF ms
<1> QED
  BY <1>3, <1>6 DEF ms

\* The children of a copy, those that refer to the arguments replaced
Filled(ns, p, a, childs) ==
  /\ childs = [k \in DOMAIN ns[p].childs |-> childs[k]]
  /\ \A k \in DOMAIN ns[p].childs :
       \/ childs[k] = ns[p].childs[k]
       \/ childs[k] = a /\ ns[ns[p].childs[k]].type = "ARG_REF_ALL_ARGS"

FilledNodes(ns, ms) ==
  /\ Linked(ms) /\ NamesClean(ms) /\ Later(ns, ms)
  /\ Len(ms) = Len(ns)
  /\ \A id \in DOMAIN ns : Len(ms[id].childs) = Len(ns[id].childs)

\* The references to the arguments in a copied body are replaced
LEMMA FilledKept ==
  ASSUME NEW ns, Linked(ns), NamesClean(ns), NEW p \in DOMAIN ns, NEW a \in DOMAIN ns,
         NEW childs, Filled(ns, p, a, childs)
  PROVE  FilledNodes(ns, [ns EXCEPT ![p] = [ns[p] EXCEPT !.childs = childs]])
<1> DEFINE old == ns[p].childs
           n == [ns[p] EXCEPT !.childs = childs]
<1>1. /\ ns[p] \in NodeRecord /\ old \in Seq(Nat) /\ a \in Nat
      /\ Len(old) \in Nat /\ DOMAIN old = 1..Len(old)
      /\ \A k \in 1..Len(old) : old[k] \in DOMAIN ns /\ old[k] \in Nat
  <2>1. /\ ns[p] \in NodeRecord /\ old \in Seq(Nat)
        /\ Len(old) \in Nat /\ DOMAIN old = 1..Len(old)
        /\ \A k \in 1..Len(old) : old[k] \in DOMAIN ns
        /\ DOMAIN ns = 1..Len(ns)
    BY LinkedFacts
  <2> QED
    BY <2>1
<1>f. /\ childs = [k \in DOMAIN old |-> childs[k]]
      /\ \A k \in DOMAIN old : \/ childs[k] = old[k]
                               \/ childs[k] = a /\ ns[old[k]].type = "ARG_REF_ALL_ARGS"
  BY DEF Filled
<1> HIDE DEF old
<1>2. /\ childs \in Seq(Nat) /\ Len(childs) = Len(old) /\ DOMAIN childs = DOMAIN old
      /\ \A k \in DOMAIN childs : childs[k] \in DOMAIN ns
  <2>1. \A k \in 1..Len(old) : childs[k] \in Nat /\ childs[k] \in DOMAIN ns
    BY <1>1, <1>f
  <2>2. childs = [k \in 1..Len(old) |-> childs[k]]
    BY <1>1, <1>f
  <2>3. childs \in Seq(Nat) /\ Len(childs) = Len(old) /\ DOMAIN childs = 1..Len(old)
    BY <1>1, <2>1, <2>2
  <2> QED
    BY <1>1, <2>1, <2>3
<1>3. FirstName(ns, p) => childs[1] = old[1]
  <2>1. FirstName(ns, p) => 1 \in DOMAIN old /\ ns[old[1]].type \in NameTypes
    BY <1>1 DEF FirstName, old
  <2> QED
    BY <1>f, <2>1 DEF NameTypes
<1> DEFINE ms == [ns EXCEPT ![p] = n]
<1>5. n \in NodeRecord /\ n.childs = childs /\ n.text = ns[p].text /\ n.type = ns[p].type
  BY <1>1, <1>2 DEF NodeRecord
<1> HIDE DEF n
<1>6. /\ \A k \in DOMAIN n.childs : n.childs[k] \in DOMAIN ns
      /\ Len(ns[p].childs) <= Len(n.childs)
      /\ FirstName(ns, p) => n.childs[1] = ns[p].childs[1]
      /\ n.text = ns[p].text
      /\ \/ n.type = ns[p].type
         \/ ns[p].type \in NameTypes /\ n.type \in {"FUNCTION", "UNDEFINED"}
  BY <1>1, <1>2, <1>3, <1>5 DEF old
<1>7. /\ Linked(ms) /\ NamesClean(ms) /\ Later(ns, ms) /\ Len(ms) = Len(ns) /\ ms[p] = n
      /\ \A id \in DOMAIN ns : id # p => ms[id] = ns[id]
  <2>1. n \in NodeRecord
    BY <1>5
  <2> QED
    BY <1>6, <2>1, ChangedKept
<1> HIDE DEF ms
<1>8. \A id \in DOMAIN ns : Len(ms[id].childs) = Len(ns[id].childs)
  BY <1>2, <1>5, <1>7 DEF old
<1>9. FilledNodes(ns, ms)
  BY <1>7, <1>8 DEF FilledNodes
<1> QED
  BY <1>9 DEF ms, n

-----------------------------------------------------------------------------
(* The agenda, and the copies under way: while a body is being copied nothing  *)
(* else runs, and the nodes of the copy lack the children not copied yet.      *)

\* A frame, when its node and its scope are there
FrameInv(f, ns, ss) ==
  /\ f.node \in DOMAIN ns
  /\ f.scope \in DOMAIN ss \union {0}
  /\ f.op \in {"resolve_symbols", "resolve_calls", "bind", "instantiate"} => f.scope # 0
  /\ f.op = "bind" => FirstName(ns, f.node)
  /\ f.op = "instantiate" => Len(ns[f.node].childs) >= 2

\* Frame k copies a node into node id
Copies(ag, k, id) == k \in DOMAIN ag /\ ag[k].op = "copy" /\ ag[k].arg = id

\* The children a node lacks are about to be copied into it
Filling(ns, ag) ==
  \A id \in DOMAIN ns :
    /\ Needed(ns[id]) >= Len(ns[id].childs) + 1 => \E k \in DOMAIN ag : Copies(ag, k, id)
    /\ Needed(ns[id]) >= Len(ns[id].childs) + 2 =>
         \E j, k \in DOMAIN ag : j # k /\ Copies(ag, j, id) /\ Copies(ag, k, id)

\* The nodes from r on are the copy, which no node before them knows
SourcesApart(ns, ag, r) ==
  /\ r <= Len(ns) + 1
  /\ \A k \in DOMAIN ag : ag[k].op = "copy" => ag[k].node < r /\ (ag[k].arg = 0 \/ ag[k].arg >= r)
  /\ \A id \in 1..(r - 1) : Complete(ns, id) /\ \A k \in DOMAIN ns[id].childs : ns[id].childs[k] < r

CopiesInv(ns, ag) ==
  /\ \A j, k \in DOMAIN ag : j < k /\ ag[k].op = "copy" => ag[j].op = "copy"
  /\ \A k \in DOMAIN ag : ag[k].op = "copy" => (ag[k].arg = 0 /\ k = 1) \/ ag[k].arg \in DOMAIN ns
  /\ \A k \in DOMAIN ag : ag[k].op = "instantiate" =>
       \/ ag[k].arg \in DOMAIN ns
       \/ k = 2 /\ ag[1].op = "copy" /\ ag[1].arg = 0 /\ ag[2].arg = Len(ns) + 1
  /\ Filling(ns, ag)
  /\ \E r \in 0..(Len(ns) + 1) : SourcesApart(ns, ag, r)

AgendaInv(ns, ss, ag) ==
  /\ ag \in Seq(FrameRecord)
  /\ \A k \in DOMAIN ag : FrameInv(ag[k], ns, ss)
  /\ CopiesInv(ns, ag)

\* No copy is under way
Quiet(ns, ag) ==
  /\ \A k \in DOMAIN ag : /\ ag[k].op # "copy"
                          /\ ag[k].op = "instantiate" => ag[k].arg \in DOMAIN ns
  /\ \A id \in DOMAIN ns : Complete(ns, id)

\* A frame stays runnable while nodes and scopes are added
LEMMA FrameInvKept ==
  ASSUME NEW ns, NEW ms, Linked(ns), Linked(ms), Later(ns, ms),
         NEW ss, NEW ts, DOMAIN ss \subseteq DOMAIN ts, NEW f, FrameInv(f, ns, ss)
  PROVE  FrameInv(f, ms, ts)
<1>1. f.node \in DOMAIN ns /\ f.node \in DOMAIN ms
  <2>1. f.node \in DOMAIN ns
    BY DEF FrameInv
  <2>2. DOMAIN ns = 1..Len(ns) /\ DOMAIN ms = 1..Len(ms) /\ Len(ns) \in Nat /\ Len(ms) \in Nat
    BY DEF Linked
  <2>3. Len(ns) <= Len(ms)
    BY DEF Later
  <2> QED
    BY <2>1, <2>2, <2>3
<1>2. /\ Len(ns[f.node].childs) \in Nat /\ Len(ms[f.node].childs) \in Nat
      /\ Len(ns[f.node].childs) <= Len(ms[f.node].childs)
      /\ FirstName(ns, f.node) => FirstName(ms, f.node)
  <2>1. Len(ns[f.node].childs) \in Nat /\ Len(ms[f.node].childs) \in Nat
    BY <1>1, LinkedFacts
  <2> QED
    BY <1>1, <2>1 DEF Later
<1>3. f.op = "instantiate" => Len(ms[f.node].childs) >= 2
  <2>1. f.op = "instantiate" => Len(ns[f.node].childs) >= 2
    BY DEF FrameInv
  <2> QED
    BY <1>2, <2>1
<1> QED
  BY <1>1, <1>2, <1>3 DEF FrameInv

\* When the next frame is no copy, no copy is under way
LEMMA QuietFacts ==
  ASSUME NEW ns, NEW ag \in Seq(FrameRecord), Linked(ns), CopiesInv(ns, ag),
         ag = <<>> \/ ag[1].op # "copy"
  PROVE  Quiet(ns, ag)
<1>1. ASSUME NEW k \in DOMAIN ag PROVE ag[k].op # "copy"
  <2>1. 1 \in DOMAIN ag /\ k \in Nat /\ k >= 1 /\ ag[1].op # "copy"
    BY <1>1
  <2>2. \A j, l \in DOMAIN ag : j < l /\ ag[l].op = "copy" => ag[j].op = "copy"
    BY DEF CopiesInv
  <2>3. CASE k = 1
    BY <2>1, <2>3
  <2>4. CASE 1 < k
    BY <1>1, <2>1, <2>2, <2>4
  <2> QED
    BY <2>1, <2>3, <2>4
<1>2. ASSUME NEW id \in DOMAIN ns PROVE Complete(ns, id)
  <2>1. ~ (Needed(ns[id]) >= Len(ns[id].childs) + 1)
    BY <1>1 DEF CopiesInv, Filling, Copies
  <2>2. Len(ns[id].childs) \in Nat /\ Needed(ns[id]) \in 0..2
    BY LinkedFacts, NeededType
  <2> QED
    BY <2>1, <2>2 DEF Complete
<1>3. ASSUME NEW k \in DOMAIN ag, ag[k].op = "instantiate" PROVE ag[k].arg \in DOMAIN ns
  <2>1. \/ ag[k].arg \in DOMAIN ns
        \/ k = 2 /\ ag[1].op = "copy"
    BY <1>3 DEF CopiesInv
  <2>2. 1 \in DOMAIN ag
    BY <1>3
  <2> QED
    BY <1>1, <2>1, <2>2
<1> QED
  BY <1>1, <1>2, <1>3 DEF Quiet

\* An agenda without copies has nothing to fill
LEMMA QuietCopies ==
  ASSUME NEW ns, NEW ag \in Seq(FrameRecord), Linked(ns), Quiet(ns, ag)
  PROVE  CopiesInv(ns, ag)
<1>1. Len(ns) \in Nat
  BY DEF Linked
<1>2. Filling(ns, ag)
  <2>1. ASSUME NEW id \in DOMAIN ns
        PROVE  ~ (Needed(ns[id]) >= Len(ns[id].childs) + 1) /\ ~ (Needed(ns[id]) >= Len(ns[id].childs) + 2)
    <3>1. Len(ns[id].childs) \in Nat /\ Needed(ns[id]) \in 0..2
      BY LinkedFacts, NeededType
    <3>2. Needed(ns[id]) <= Len(ns[id].childs)
      BY DEF Quiet, Complete
    <3> QED
      BY <3>1, <3>2
  <2> QED
    BY <2>1 DEF Filling
<1>3. SourcesApart(ns, ag, 0) /\ 0 \in 0..(Len(ns) + 1)
  BY <1>1 DEF SourcesApart, Quiet
<1>4. \E r \in 0..(Len(ns) + 1) : SourcesApart(ns, ag, r)
  BY <1>3
<1>5. /\ \A j, k \in DOMAIN ag : j < k /\ ag[k].op = "copy" => ag[j].op = "copy"
      /\ \A k \in DOMAIN ag : ag[k].op = "copy" => (ag[k].arg = 0 /\ k = 1) \/ ag[k].arg \in DOMAIN ns
      /\ \A k \in DOMAIN ag : ag[k].op = "instantiate" => ag[k].arg \in DOMAIN ns
  BY DEF Quiet
<1> QED
  BY <1>2, <1>4, <1>5 DEF CopiesInv

\* A step of a frame that is no copy: what it adds to the agenda is neither
LEMMA QuietStep ==
  ASSUME NEW ns, NEW ss, NEW ag, AgendaInv(ns, ss, ag), ag # <<>>, ag[1].op # "copy",
         NEW ms, Linked(ns), Linked(ms), Later(ns, ms),
         \A id \in DOMAIN ms \ DOMAIN ns : Complete(ms, id),
         NEW ts, DOMAIN ss \subseteq DOMAIN ts,
         NEW frames \in Seq(FrameRecord),
         \A k \in DOMAIN frames : /\ FrameInv(frames[k], ms, ts)
                                  /\ frames[k].op \notin {"copy", "instantiate"}
  PROVE  AgendaInv(ms, ts, frames \o Tail(ag))
<1> DEFINE new == frames \o Tail(ag)
<1>1. ag \in Seq(FrameRecord) /\ Quiet(ns, ag)
  BY QuietFacts DEF AgendaInv
<1>2. /\ new \in Seq(FrameRecord)
      /\ \A k \in DOMAIN new :
           \/ k \in DOMAIN frames /\ new[k] = frames[k]
           \/ \E j \in DOMAIN ag : new[k] = ag[j]
  BY <1>1, ContinuedFrames
<1> HIDE DEF new
<1>3. ASSUME NEW k \in DOMAIN new
      PROVE  /\ FrameInv(new[k], ms, ts)
             /\ new[k].op # "copy"
             /\ new[k].op = "instantiate" => new[k].arg \in DOMAIN ms
  <2>1. CASE k \in DOMAIN frames /\ new[k] = frames[k]
    BY <2>1
  <2>2. CASE \E j \in DOMAIN ag : new[k] = ag[j]
    <3>1. PICK j \in DOMAIN ag : new[k] = ag[j]
      BY <2>2
    <3>2. FrameInv(ag[j], ns, ss)
      BY DEF AgendaInv
    <3>3. FrameInv(ag[j], ms, ts)
      BY <3>2, FrameInvKept
    <3>4. DOMAIN ns \subseteq DOMAIN ms
      <4>1. DOMAIN ns = 1..Len(ns) /\ DOMAIN ms = 1..Len(ms) /\ Len(ns) \in Nat /\ Len(ms) \in Nat
        BY DEF Linked
      <4>2. Len(ns) <= Len(ms)
        BY DEF Later
      <4> QED
        BY <4>1, <4>2
    <3> QED
      BY <1>1, <3>1, <3>3, <3>4 DEF Quiet
  <2> QED
    BY <1>2, <2>1, <2>2
<1>4. ASSUME NEW id \in DOMAIN ms PROVE Complete(ms, id)
  <2>1. CASE id \in DOMAIN ns
    <3>1. Needed(ns[id]) <= Len(ns[id].childs)
      BY <1>1, <2>1 DEF Quiet, Complete
    <3>2. Len(ns[id].childs) <= Len(ms[id].childs) /\ Needed(ms[id]) <= Needed(ns[id])
      BY <2>1 DEF Later
    <3>3. /\ Len(ns[id].childs) \in Nat /\ Len(ms[id].childs) \in Nat
          /\ Needed(ns[id]) \in 0..2 /\ Needed(ms[id]) \in 0..2
      BY <2>1, LinkedFacts, NeededType
    <3> QED
      BY <3>1, <3>2, <3>3 DEF Complete
  <2>2. CASE id \notin DOMAIN ns
    BY <2>2
  <2> QED
    BY <2>1, <2>2
<1>5. Quiet(ms, new)
  BY <1>3, <1>4 DEF Quiet
<1>6. CopiesInv(ms, new)
  BY <1>2, <1>5, QuietCopies
<1> QED
  BY <1>2, <1>3, <1>6 DEF AgendaInv, new

\* BindCopy: a copy of the body, and what is done when it is complete
LEMMA CopyStarts ==
  ASSUME NEW ns, NEW ss, NEW ag, AgendaInv(ns, ss, ag), ag # <<>>, ag[1].op # "copy", Linked(ns),
         NEW copy \in FrameRecord, copy.op = "copy", copy.arg = 0, FrameInv(copy, ns, ss),
         NEW inst \in FrameRecord, inst.op = "instantiate", inst.arg = Len(ns) + 1,
         FrameInv(inst, ns, ss)
  PROVE  AgendaInv(ns, ss, <<copy, inst>> \o Tail(ag))
<1> DEFINE frames == <<copy, inst>>
           new == frames \o Tail(ag)
<1>1. ag \in Seq(FrameRecord) /\ Quiet(ns, ag)
  BY QuietFacts DEF AgendaInv
<1>2. /\ frames \in Seq(FrameRecord) /\ DOMAIN frames = 1..2 /\ frames[1] = copy /\ frames[2] = inst
      /\ Len(frames) = 2
  OBVIOUS
<1> HIDE DEF frames
<1>3. /\ new \in Seq(FrameRecord)
      /\ \A k \in DOMAIN new :
           \/ k \in DOMAIN frames /\ new[k] = frames[k]
           \/ k > Len(frames) /\ \E j \in DOMAIN ag : new[k] = ag[j]
      /\ \A k \in DOMAIN frames : k \in DOMAIN new /\ new[k] = frames[k]
  <2>1. ag \in Seq(FrameRecord) /\ frames \in Seq(FrameRecord)
    BY <1>1, <1>2
  <2> QED
    BY <2>1, ContinuedFrames
<1> HIDE DEF new
<1>4. /\ 1 \in DOMAIN new /\ new[1] = copy
      /\ 2 \in DOMAIN new /\ new[2] = inst
      /\ \A k \in DOMAIN new : k \in {1, 2} \/ (k > 2 /\ \E j \in DOMAIN ag : new[k] = ag[j])
  <2>1. 1 \in DOMAIN frames /\ 2 \in DOMAIN frames /\ \A k \in DOMAIN frames : k \in {1, 2}
    BY <1>2
  <2>2. new[1] = copy /\ new[2] = inst /\ 1 \in DOMAIN new /\ 2 \in DOMAIN new
    BY <1>2, <1>3, <2>1
  <2>3. \A k \in DOMAIN new : k \in {1, 2} \/ (k > 2 /\ \E j \in DOMAIN ag : new[k] = ag[j])
    <3> TAKE k \in DOMAIN new
    <3>1. CASE k \in DOMAIN frames
      BY <2>1, <3>1
    <3>2. CASE k \notin DOMAIN frames
      BY <1>2, <1>3, <3>2
    <3> QED
      BY <3>1, <3>2
  <2> QED
    BY <2>2, <2>3
<1>5. \A j \in DOMAIN ag : /\ FrameInv(ag[j], ns, ss) /\ ag[j].op # "copy"
                           /\ ag[j].op = "instantiate" => ag[j].arg \in DOMAIN ns
  BY <1>1 DEF AgendaInv, Quiet
<1>6. \A k \in DOMAIN new : FrameInv(new[k], ns, ss)
  BY <1>4, <1>5
<1>7. \A k \in DOMAIN new : new[k].op = "copy" => k = 1
  BY <1>4, <1>5
<1>8. \A k \in DOMAIN new : new[k].op = "instantiate" => new[k].arg \in DOMAIN ns \/ k = 2
  BY <1>4, <1>5
<1>9. Len(ns) \in Nat /\ DOMAIN ns = 1..Len(ns)
  BY DEF Linked
<1>10. Filling(ns, new)
  <2>1. ASSUME NEW id \in DOMAIN ns
        PROVE  ~ (Needed(ns[id]) >= Len(ns[id].childs) + 1) /\ ~ (Needed(ns[id]) >= Len(ns[id].childs) + 2)
    <3>1. Len(ns[id].childs) \in Nat /\ Needed(ns[id]) \in 0..2
      BY LinkedFacts, NeededType
    <3>2. Needed(ns[id]) <= Len(ns[id].childs)
      BY <1>1 DEF Quiet, Complete
    <3> QED
      BY <3>1, <3>2
  <2> QED
    BY <2>1 DEF Filling
<1>11. SourcesApart(ns, new, Len(ns) + 1)
  <2>1. ASSUME NEW id \in 1..((Len(ns) + 1) - 1)
        PROVE  Complete(ns, id) /\ \A k \in DOMAIN ns[id].childs : ns[id].childs[k] < Len(ns) + 1
    <3>1. id \in DOMAIN ns
      BY <1>9
    <3>2. \A k \in DOMAIN ns[id].childs : ns[id].childs[k] \in 1..Len(ns)
      BY <1>9, <3>1 DEF Linked
    <3> QED
      BY <1>1, <1>9, <3>1, <3>2 DEF Quiet
  <2>2. copy.node < Len(ns) + 1
    BY <1>9 DEF FrameInv
  <2>3. \A k \in DOMAIN new : new[k].op = "copy" =>
          new[k].node < Len(ns) + 1 /\ (new[k].arg = 0 \/ new[k].arg >= Len(ns) + 1)
    BY <1>4, <1>7, <2>2
  <2>4. Len(ns) + 1 <= Len(ns) + 1
    BY <1>9
  <2> QED
    BY <2>1, <2>3, <2>4 DEF SourcesApart
<1>12. CopiesInv(ns, new)
  <2>1. \A j, k \in DOMAIN new : j < k /\ new[k].op = "copy" => new[j].op = "copy"
    <3>1. \A j \in DOMAIN new : ~ (j < 1)
      BY <1>3
    <3> QED
      BY <1>7, <3>1
  <2>2. \A k \in DOMAIN new : new[k].op = "copy" => new[k].arg = 0 /\ k = 1
    BY <1>4, <1>7
  <2>3. \A k \in DOMAIN new : new[k].op = "instantiate" =>
          \/ new[k].arg \in DOMAIN ns
          \/ k = 2 /\ new[1].op = "copy" /\ new[1].arg = 0 /\ new[2].arg = Len(ns) + 1
    BY <1>4, <1>8
  <2>4. \E r \in 0..(Len(ns) + 1) : SourcesApart(ns, new, r)
    BY <1>9, <1>11
  <2> QED
    BY <1>10, <2>1, <2>2, <2>3, <2>4 DEF CopiesInv
<1> QED
  BY <1>3, <1>6, <1>12 DEF AgendaInv, new, frames

\* The nodes when a node has been copied into another, or as the root of a copy
CopiedNode(ns, ms, id, p, new) ==
  /\ Linked(ms) /\ NamesClean(ms) /\ Later(ns, ms) /\ Len(ms) = new
  /\ ms[new].type = ns[id].type /\ ms[new].text = ns[id].text /\ ms[new].childs = <<>>
  /\ \A k \in DOMAIN ns : ms[k].type = ns[k].type /\ ms[k].text = ns[k].text
  /\ \A k \in DOMAIN ns : k # p => ms[k] = ns[k]
  /\ p \in DOMAIN ns => ms[p].childs = Append(ns[p].childs, new)
  /\ DOMAIN ms = DOMAIN ns \union {new} /\ new \notin DOMAIN ns

\* ast_copy_node leaves the other nodes but the parent as they are
LEMMA CopyNodeFacts ==
  ASSUME NEW ns, Linked(ns), NamesClean(ns), NEW id \in DOMAIN ns, NEW p, p = 0 \/ p \in DOMAIN ns
  PROVE  CopiedNode(ns, CopyNode(ns, id, p), id, p, Len(ns) + 1)
<1> DEFINE c == NewNode(ns, ns[id].type, ns[id].text)
           ms == CopyNode(ns, id, p)
           new == Len(ns) + 1
<1>1. /\ Len(ns) \in Nat /\ DOMAIN ns = 1..Len(ns)
      /\ ns[id].type \in NodeTypes /\ ns[id].text \in Seq(Characters)
  BY LinkedFacts
<1>2. ns[id].type \in NameTypes => Unblank(ns[id].text)
  BY DEF NamesClean
<1>3. /\ Linked(c) /\ NamesClean(c) /\ Later(ns, c)
      /\ Len(c) = new
      /\ \A k \in DOMAIN ns : c[k] = ns[k]
      /\ c[new] = [type |-> ns[id].type, text |-> ns[id].text, childs |-> <<>>]
  BY <1>1, <1>2, NewNodeKept
<1>4. c[new].type = ns[id].type /\ c[new].text = ns[id].text /\ c[new].childs = <<>>
  BY <1>3
<1> HIDE DEF c
<1>5. DOMAIN c = DOMAIN ns \union {new} /\ new \in DOMAIN c /\ new \notin DOMAIN ns
  <2>1. DOMAIN c = 1..Len(c)
    BY <1>3 DEF Linked
  <2> QED
    BY <1>1, <1>3, <2>1
<1>6. CASE p = 0
  <2>1. ms = c
    BY <1>6 DEF CopyNode, c
  <2> HIDE DEF ms
  <2>2. p \notin DOMAIN ns
    BY <1>1, <1>6
  <2> QED
    BY <1>3, <1>4, <1>5, <2>1, <2>2 DEF ms, CopiedNode
<1>7. CASE p \in DOMAIN ns
  <2>1. ms = AddChild(c, p, new)
    <3>1. p # 0
      BY <1>1, <1>7
    <3> QED
      BY <1>3, <3>1 DEF CopyNode, c
  <2> HIDE DEF ms
  <2>2. AddedChild(c, ms, p, new)
    <3>1. p \in DOMAIN c /\ new \in DOMAIN c /\ Linked(c) /\ NamesClean(c)
      BY <1>3, <1>5, <1>7
    <3>2. AddedChild(c, AddChild(c, p, new), p, new)
      BY <3>1, AddChildKept
    <3> QED
      BY <2>1, <3>2
  <2>3. Later(ns, ms)
    BY <1>3, <2>2, LaterTrans DEF AddedChild
  <2>4. ms[new] = c[new]
    BY <1>5, <1>7, <2>2 DEF AddedChild
  <2>5. DOMAIN ms = DOMAIN c
    BY <1>3, <2>2 DEF Linked, AddedChild
  <2> QED
    BY <1>3, <1>4, <1>5, <1>7, <2>2, <2>3, <2>4, <2>5 DEF AddedChild, CopiedNode, ms
<1> QED
  BY <1>6, <1>7

\* The frames that copy the children of a node into its copy
CopyFrames(ns, id, frames) ==
  /\ frames \in Seq(FrameRecord) /\ Len(frames) = Len(ns[id].childs)
  /\ \A k \in DOMAIN frames : /\ frames[k].op = "copy" /\ frames[k].scope = 0
                               /\ frames[k].node = ns[id].childs[k]
                               /\ frames[k].arg = Len(ns) + 1

\* Copy: a node is copied, its children will be copied into it
LEMMA CopyStep ==
  ASSUME NEW ns, Linked(ns), NamesClean(ns), NEW ss, NEW ag, AgendaInv(ns, ss, ag), ag # <<>>,
         ag[1].op = "copy",
         NEW ms, ms = CopyNode(ns, ag[1].node, ag[1].arg),
         NEW frames, CopyFrames(ns, ag[1].node, frames)
  PROVE  /\ Linked(ms) /\ NamesClean(ms) /\ Later(ns, ms)
         /\ AgendaInv(ms, ss, frames \o Tail(ag))
<1> DEFINE f   == ag[1]
           c   == Len(ns[f.node].childs)
           id0 == Len(ns) + 1
           new == frames \o Tail(ag)
<1>1. /\ ag \in Seq(FrameRecord) /\ 1 \in DOMAIN ag /\ f \in FrameRecord
      /\ DOMAIN ag = 1..Len(ag)
  BY DEF AgendaInv
<1>2. /\ f.node \in DOMAIN ns /\ f.arg \in Nat
      /\ f.arg = 0 \/ f.arg \in DOMAIN ns
  BY <1>1 DEF AgendaInv, FrameInv, CopiesInv, FrameRecord
<1>3. /\ Len(ns) \in Nat /\ DOMAIN ns = 1..Len(ns)
      /\ c \in Nat /\ DOMAIN frames = 1..c
      /\ \A k \in 1..c : ns[f.node].childs[k] \in DOMAIN ns
  <2>1. Len(frames) = c
    BY DEF CopyFrames
  <2>2. DOMAIN frames = 1..Len(frames)
    BY DEF CopyFrames
  <2> HIDE DEF f
  <2>3. /\ Len(ns) \in Nat /\ DOMAIN ns = 1..Len(ns) /\ c \in Nat
        /\ \A k \in 1..c : ns[f.node].childs[k] \in DOMAIN ns
    BY <1>2, LinkedFacts
  <2> QED
    BY <2>1, <2>2, <2>3
<1>4. /\ Linked(ms) /\ NamesClean(ms) /\ Later(ns, ms) /\ Len(ms) = id0
      /\ ms[id0].type = ns[f.node].type /\ ms[id0].text = ns[f.node].text /\ ms[id0].childs = <<>>
      /\ \A k \in DOMAIN ns : ms[k].type = ns[k].type /\ ms[k].text = ns[k].text
      /\ \A k \in DOMAIN ns : k # f.arg => ms[k] = ns[k]
      /\ f.arg \in DOMAIN ns => ms[f.arg].childs = Append(ns[f.arg].childs, id0)
      /\ DOMAIN ms = DOMAIN ns \union {id0} /\ id0 \notin DOMAIN ns
  <2>1. ms = CopyNode(ns, f.node, f.arg) /\ id0 = Len(ns) + 1
    OBVIOUS
  <2> HIDE DEF f, id0
  <2>2. CopiedNode(ns, CopyNode(ns, f.node, f.arg), f.node, f.arg, Len(ns) + 1)
    BY <1>2, CopyNodeFacts
  <2>3. CopiedNode(ns, ms, f.node, f.arg, id0)
    BY <2>1, <2>2
  <2> QED
    BY <2>3 DEF CopiedNode
<1>5. DOMAIN ms = DOMAIN ns \union {id0} /\ id0 \notin DOMAIN ns
  BY <1>4
<1>6. PICK r \in 0..(Len(ns) + 1) : SourcesApart(ns, ag, r)
  BY DEF AgendaInv, CopiesInv
<1>7. /\ f.node \in 1..(r - 1) /\ (f.arg = 0 \/ f.arg >= r)
      /\ Complete(ns, f.node)
      /\ \A k \in 1..c : ns[f.node].childs[k] < r
  <2>1. f.node < r /\ (f.arg = 0 \/ f.arg >= r)
    BY <1>1, <1>6 DEF SourcesApart
  <2>2. f.node \in 1..(r - 1)
    BY <1>2, <1>3, <2>1
  <2>3. Complete(ns, f.node) /\ \A k \in DOMAIN ns[f.node].childs : ns[f.node].childs[k] < r
    BY <1>6, <2>2 DEF SourcesApart
  <2>4. DOMAIN ns[f.node].childs = 1..c
    BY <1>2, LinkedFacts
  <2> QED
    BY <2>1, <2>2, <2>3, <2>4
<1>8. /\ new \in Seq(FrameRecord)
      /\ \A k \in DOMAIN new :
           \/ k \in 1..c /\ new[k] = frames[k]
           \/ k > c /\ (k - c) + 1 \in DOMAIN ag \ {1} /\ new[k] = ag[(k - c) + 1]
      /\ \A k \in 1..c : k \in DOMAIN new /\ new[k] = frames[k]
      /\ \A j \in DOMAIN ag \ {1} : (j - 1) + c \in DOMAIN new /\ new[(j - 1) + c] = ag[j]
  <2>1. /\ new \in Seq(FrameRecord)
        /\ \A k \in DOMAIN new :
             \/ k \in DOMAIN frames /\ new[k] = frames[k]
             \/ /\ k > Len(frames) /\ (k - Len(frames)) + 1 \in DOMAIN ag \ {1}
                /\ new[k] = ag[(k - Len(frames)) + 1]
        /\ \A k \in DOMAIN frames : k \in DOMAIN new /\ new[k] = frames[k]
        /\ \A j \in DOMAIN ag \ {1} : /\ (j - 1) + Len(frames) \in DOMAIN new
                                      /\ new[(j - 1) + Len(frames)] = ag[j]
    <3>1. new = frames \o Tail(ag)
      OBVIOUS
    <3>2. ag \in Seq(FrameRecord) /\ frames \in Seq(FrameRecord)
      BY <1>1 DEF CopyFrames
    <3> HIDE DEF new, f, c, id0
    <3>3. new \in Seq(FrameRecord)
      BY <3>1, <3>2, Continued
    <3>4. \A k \in DOMAIN new :
             \/ k \in DOMAIN frames /\ new[k] = frames[k]
             \/ /\ k > Len(frames) /\ (k - Len(frames)) + 1 \in DOMAIN ag \ {1}
                /\ new[k] = ag[(k - Len(frames)) + 1]
      BY <3>1, <3>2, Continued
    <3>5. \A k \in DOMAIN frames : k \in DOMAIN new /\ new[k] = frames[k]
      BY <3>1, <3>2, Continued
    <3>6. \A j \in DOMAIN ag \ {1} : /\ (j - 1) + Len(frames) \in DOMAIN new
                                    /\ new[(j - 1) + Len(frames)] = ag[j]
      BY <3>1, <3>2, Continued
    <3> QED
      BY <3>3, <3>4, <3>5, <3>6
  <2>2. Len(frames) = c
    BY DEF CopyFrames
  <2> HIDE DEF new, c
  <2> QED
    BY <1>3, <2>1, <2>2
<1> HIDE DEF new, c, id0, f
<1>9. DOMAIN new = 1..Len(new)
  BY <1>8
<1>10. ASSUME NEW k \in DOMAIN new PROVE FrameInv(new[k], ms, ss)
  <2>1. CASE k \in 1..c /\ new[k] = frames[k]
    <3>1. frames[k].node \in DOMAIN ms
      BY <1>3, <1>5, <2>1 DEF f, CopyFrames
    <3>2. frames[k].op = "copy" /\ frames[k].scope = 0
      BY <1>3, <2>1 DEF CopyFrames
    <3> QED
      BY <2>1, <3>1, <3>2 DEF FrameInv
  <2>2. CASE (k - c) + 1 \in DOMAIN ag \ {1} /\ new[k] = ag[(k - c) + 1]
    <3>1. FrameInv(ag[(k - c) + 1], ns, ss)
      BY <2>2 DEF AgendaInv
    <3>2. FrameInv(ag[(k - c) + 1], ms, ss)
      <4>1. Linked(ms) /\ Later(ns, ms) /\ DOMAIN ss \subseteq DOMAIN ss
        BY <1>4
      <4> DEFINE g == ag[(k - c) + 1]
      <4>2. FrameInv(g, ns, ss)
        BY <3>1
      <4> HIDE DEF g
      <4>3. FrameInv(g, ms, ss)
        BY <4>1, <4>2, FrameInvKept
      <4> QED
        BY <4>3 DEF g
    <3> QED
      BY <2>2, <3>2
  <2> QED
    BY <1>8, <2>1, <2>2
<1>11. \A k \in 1..c : new[k].op = "copy" /\ new[k].node = ns[f.node].childs[k] /\ new[k].arg = id0
  BY <1>3, <1>8 DEF f, id0, CopyFrames
<1>12. ASSUME NEW j \in DOMAIN new, NEW k \in DOMAIN new, j < k, new[k].op = "copy"
       PROVE  new[j].op = "copy"
  <2>1. CASE j \in 1..c
    BY <1>11, <2>1
  <2>2. CASE j \notin 1..c
    <3>1. j > c /\ (j - c) + 1 \in DOMAIN ag \ {1} /\ new[j] = ag[(j - c) + 1]
      BY <1>8, <2>2
    <3>2. k \notin 1..c
      BY <1>3, <1>9, <1>12, <2>2
    <3>3. k > c /\ (k - c) + 1 \in DOMAIN ag \ {1} /\ new[k] = ag[(k - c) + 1]
      BY <1>8, <3>2
    <3>4. (j - c) + 1 < (k - c) + 1
      BY <1>3, <1>9, <1>12
    <3>5. \A i, l \in DOMAIN ag : i < l /\ ag[l].op = "copy" => ag[i].op = "copy"
      BY DEF AgendaInv, CopiesInv
    <3> QED
      BY <1>12, <3>1, <3>3, <3>4, <3>5
  <2> QED
    BY <2>1, <2>2
<1>13. ASSUME NEW k \in DOMAIN new, new[k].op = "copy" PROVE new[k].arg \in DOMAIN ms
  <2>1. CASE k \in 1..c
    BY <1>5, <1>11, <2>1
  <2>2. CASE k \notin 1..c
    <3>1. (k - c) + 1 \in DOMAIN ag \ {1} /\ new[k] = ag[(k - c) + 1]
      BY <1>8, <2>2
    <3>2. \A l \in DOMAIN ag \ {1} : ag[l].op = "copy" => ag[l].arg \in DOMAIN ns
      BY DEF AgendaInv, CopiesInv
    <3> QED
      BY <1>5, <1>13, <3>1, <3>2
  <2> QED
    BY <2>1, <2>2
<1>14. ASSUME NEW k \in DOMAIN new, new[k].op = "instantiate" PROVE new[k].arg \in DOMAIN ms
  <2>1. k \notin 1..c
    BY <1>11, <1>14
  <2>2. (k - c) + 1 \in DOMAIN ag \ {1} /\ new[k] = ag[(k - c) + 1]
    BY <1>8, <2>1
  <2>3. \A l \in DOMAIN ag : ag[l].op = "instantiate" =>
          ag[l].arg \in DOMAIN ns \/ (l = 2 /\ ag[2].arg = Len(ns) + 1)
    BY DEF AgendaInv, CopiesInv
  <2> QED
    BY <1>5, <1>14, <2>2, <2>3 DEF id0
<1>15. ASSUME NEW id, NEW j, Copies(ag, j, id), j # 1
       PROVE  Copies(new, (j - 1) + c, id)
  BY <1>8, <1>15 DEF Copies
<1>16. Filling(ms, new)
  <2>1. ASSUME NEW id \in DOMAIN ms
        PROVE  /\ Needed(ms[id]) >= Len(ms[id].childs) + 1 => \E k \in DOMAIN new : Copies(new, k, id)
               /\ Needed(ms[id]) >= Len(ms[id].childs) + 2 =>
                    \E j, k \in DOMAIN new : j # k /\ Copies(new, j, id) /\ Copies(new, k, id)
    <3>1. CASE id = id0
      <4>1. Needed(ms[id]) = Needed(ns[f.node])
        BY <1>4, <3>1 DEF Needed
      <4>2. Needed(ns[f.node]) <= c /\ Needed(ns[f.node]) \in 0..2 /\ Len(ms[id].childs) = 0
        BY <1>4, <1>7, <3>1, NeededType DEF Complete, c
      <4>3. \A k \in 1..c : Copies(new, k, id) /\ k \in DOMAIN new
        BY <1>8, <1>11, <3>1 DEF Copies
      <4>4. Needed(ms[id]) >= 1 => 1 \in 1..c
        BY <1>3, <4>1, <4>2
      <4>5. Needed(ms[id]) >= 2 => 1 \in 1..c /\ 2 \in 1..c
        BY <1>3, <4>1, <4>2
      <4> QED
        BY <4>2, <4>3, <4>4, <4>5
    <3>2. CASE id \in DOMAIN ns
      <4>1. Needed(ms[id]) = Needed(ns[id]) /\ Needed(ns[id]) \in 0..2
        <5>1. ms[id].type = ns[id].type /\ ms[id].text = ns[id].text
          BY <1>4, <3>2
        <5> QED
          BY <5>1, NeededType DEF Needed
      <4>2. /\ Needed(ns[id]) >= Len(ns[id].childs) + 1 => \E k \in DOMAIN ag : Copies(ag, k, id)
            /\ Needed(ns[id]) >= Len(ns[id].childs) + 2 =>
                 \E j, k \in DOMAIN ag : j # k /\ Copies(ag, j, id) /\ Copies(ag, k, id)
        BY <3>2 DEF AgendaInv, CopiesInv, Filling
      <4>3. Len(ns[id].childs) \in Nat /\ ns[id].childs \in Seq(Nat)
        BY <3>2, LinkedFacts
      <4>4. CASE id = f.arg
        <5>1. Len(ms[id].childs) = Len(ns[id].childs) + 1
          BY <1>4, <3>2, <4>3, <4>4
        <5>2. ASSUME Needed(ms[id]) >= Len(ms[id].childs) + 1
              PROVE  \E k \in DOMAIN new : Copies(new, k, id)
          <6>1. PICK j, k \in DOMAIN ag : j # k /\ Copies(ag, j, id) /\ Copies(ag, k, id)
            BY <4>1, <4>2, <4>3, <5>1, <5>2
          <6>2. CASE j # 1
            BY <1>15, <6>1, <6>2 DEF Copies
          <6>3. CASE k # 1
            BY <1>15, <6>1, <6>3 DEF Copies
          <6> QED
            BY <6>1, <6>2, <6>3
        <5>3. ~ (Needed(ms[id]) >= Len(ms[id].childs) + 2)
          BY <4>1, <4>3, <5>1
        <5> QED
          BY <5>2, <5>3
      <4>5. CASE id # f.arg
        <5>1. ms[id] = ns[id]
          BY <1>4, <3>2, <4>5
        <5>2. \A k \in DOMAIN ag : Copies(ag, k, id) => k # 1
          BY <4>5 DEF Copies, f
        <5>3. ASSUME Needed(ns[id]) >= Len(ns[id].childs) + 1
              PROVE  \E k \in DOMAIN new : Copies(new, k, id)
          <6>1. PICK k \in DOMAIN ag : Copies(ag, k, id)
            BY <4>2, <5>3
          <6>2. Copies(new, (k - 1) + c, id)
            BY <1>15, <5>2, <6>1
          <6> QED
            BY <6>2 DEF Copies
        <5>4. ASSUME Needed(ns[id]) >= Len(ns[id].childs) + 2
              PROVE  \E j, k \in DOMAIN new : j # k /\ Copies(new, j, id) /\ Copies(new, k, id)
          <6>1. PICK j, k \in DOMAIN ag : j # k /\ Copies(ag, j, id) /\ Copies(ag, k, id)
            BY <4>2, <5>4
          <6>2. Copies(new, (k - 1) + c, id) /\ Copies(new, (j - 1) + c, id)
            BY <1>15, <5>2, <6>1
          <6>3. (k - 1) + c # (j - 1) + c
            BY <1>1, <1>3, <6>1
          <6>4. (k - 1) + c \in DOMAIN new /\ (j - 1) + c \in DOMAIN new
            BY <6>2 DEF Copies
          <6> QED
            BY <6>2, <6>3, <6>4
        <5> QED
          BY <5>1, <5>3, <5>4
      <4> QED
        BY <4>4, <4>5
    <3> QED
      BY <1>5, <2>1, <3>1, <3>2
  <2> QED
    BY <2>1 DEF Filling
<1>17. SourcesApart(ms, new, r)
  <2>1. r \in Nat /\ r <= Len(ns) + 1 /\ r <= Len(ms) + 1 /\ id0 >= r
    BY <1>3, <1>4, <1>6 DEF id0
  <2>2. ASSUME NEW k \in DOMAIN new, new[k].op = "copy"
        PROVE  new[k].node < r /\ (new[k].arg = 0 \/ new[k].arg >= r)
    <3>1. CASE k \in 1..c
      BY <1>7, <1>11, <2>1, <3>1
    <3>2. CASE k \notin 1..c
      <4>1. (k - c) + 1 \in DOMAIN ag /\ new[k] = ag[(k - c) + 1]
        BY <1>8, <3>2
      <4>2. \A l \in DOMAIN ag : ag[l].op = "copy" => ag[l].node < r /\ (ag[l].arg = 0 \/ ag[l].arg >= r)
        BY <1>6 DEF SourcesApart
      <4> QED
        BY <2>2, <4>1, <4>2
    <3> QED
      BY <3>1, <3>2
  <2>3. ASSUME NEW id \in 1..(r - 1)
        PROVE  Complete(ms, id) /\ \A k \in DOMAIN ms[id].childs : ms[id].childs[k] < r
    <3>1. Complete(ns, id) /\ \A k \in DOMAIN ns[id].childs : ns[id].childs[k] < r
      BY <1>6 DEF SourcesApart
    <3>2. id \in DOMAIN ns /\ id # f.arg
      BY <1>2, <1>3, <1>7, <2>1
    <3>3. ms[id] = ns[id]
      BY <1>4, <3>2
    <3> QED
      BY <3>1, <3>3 DEF Complete
  <2> QED
    BY <2>1, <2>2, <2>3 DEF SourcesApart
<1>18. CopiesInv(ms, new)
  <2>1. r \in 0..(Len(ms) + 1)
    BY <1>3, <1>4, <1>6 DEF id0
  <2>2. \E q \in 0..(Len(ms) + 1) : SourcesApart(ms, new, q)
    BY <1>17, <2>1
  <2> QED
    BY <1>12, <1>13, <1>14, <1>16, <2>2 DEF CopiesInv
<1> QED
  BY <1>4, <1>8, <1>10, <1>18 DEF AgendaInv, new
=============================================================================
