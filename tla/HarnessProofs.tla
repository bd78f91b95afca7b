--------------------------- MODULE HarnessProofs ---------------------------
(* The test runner's invariants, for every suite, number of processes, size of *)
(* pipe and compiler.                                                          *)
EXTENDS Harness, TLAPS, FiniteSetTheorems, SequenceTheorems

\* What a process is given as its cocktail, and a test as what it should come to
Cocktails == {Effects(fs, paths) : fs \in [Paths -> FileTexts], paths \in Seq(Paths)} \union {<<>>}
Ideals == {Outcome(o, fs, stdin) : o \in Options, fs \in [Paths -> FileTexts], stdin \in Text}
            \union {Nothing}

(* What the theorems suppose of the compiler: to a program and a cocktail it   *)
(* answers two texts.                                                          *)
CompileAnswers ==
  \A program \in Text : \A cocktail \in Cocktails :
    /\ Compile(program, cocktail).out \in Text
    /\ Compile(program, cocktail).err \in Text
    /\ Compile(program, cocktail).dies \in BOOLEAN

-----------------------------------------------------------------------------
(* The types.                                                                  *)
Ends == {"in", "out", "err"}
Lives == {"free", "alive", "exited", "killed", "reaped"}
Stages == {"none", "loop", "fork", "child", "send", "write", "shut", "wait", "out", "err",
           "judge", "return"}
Verdicts == [mark : {"SKIPPED", "PASSED", "FAILED"}, forked : BOOLEAN, cut : BOOLEAN,
             right : BOOLEAN]
RunType == [at : Stages, test : Nat \ {0}, kid : Pids \union {NoPid}, left : Text,
            sent : BOOLEAN, status : {"none", "exited", "killed"}, out : Text, err : Text,
            verdicts : Seq(Verdicts), ideal : Ideals]
JobStages == {"parse", "usage", "open", "read", "effects", "compile", "report", "flush"}
JobType == [at : JobStages, options : Options \union {Nothing}, program : Text,
            cocktail : Cocktails, dest : Paths \union {Terminal, Nothing}, out : Text,
            wrote : Nat, err : Text, dies : BOOLEAN]
PipeType == [data : Text, readers : SUBSET Pids, writers : SUBSET Pids]
Streams == PipeIds \union {Terminal}
StdType == [in : Streams, out : Streams, err : Streams]

Typed ==
  /\ suite \in Suites /\ onPath \in BOOLEAN
  /\ life \in [Pids -> Lives]
  /\ parent \in [Pids -> Pids \union {NoPid}]
  /\ std \in [Pids -> StdType]
  /\ pipes \in [PipeIds -> PipeType]
  /\ files \in [Paths -> FileTexts]
  /\ job \in [Pids -> JobType]
  /\ run \in [Pids -> RunType]

-----------------------------------------------------------------------------
(* The inductive invariant, part by part.                                      *)
Holds(p, i) == p \in pipes[i].readers \union pipes[i].writers

\* No pipe is overfull, only live processes hold one, and nobody one of a process to come
KernelInv ==
  /\ \A i \in PipeIds : Len(pipes[i].data) <= PipeSize
  /\ \A i \in PipeIds, p \in Pids : Holds(p, i) => life[p] = "alive"
  /\ \A p, q \in Pids, k \in Runs, end \in Ends : life[p] = "free" => ~ Holds(q, <<p, k, end>>)

\* Every process but the first was forked
FamilyInv ==
  /\ parent[Root] = NoPid
  /\ \A p \in Pids : parent[p] # NoPid => life[parent[p]] # "free" /\ parent[p] # p
  /\ \A p \in Pids : p # Root /\ life[p] # "free" => parent[p] # NoPid

Early == {"none", "loop", "fork", "child"}
Waiting == {"send", "write", "shut", "wait"}

\* The data of a runner go with its stage
RunnerInv(p) ==
  /\ Len(run[p].verdicts) = run[p].test - 1
  /\ run[p].at # "none" => run[p].test <= Len(suite) + 1
  /\ run[p].at \notin {"none", "loop", "return"} => run[p].test <= Len(suite)
  /\ run[p].at = "return" => run[p].test = Len(suite) + 1
  /\ run[p].at \in Early => run[p].kid = NoPid
  /\ run[p].at \in Early \union {"send"} => ~ run[p].sent
  /\ run[p].at \notin {"out", "err", "judge"} => run[p].out = <<>>
  /\ run[p].at \notin {"err", "judge"} => run[p].err = <<>>

\* A process is to come, a runner or a vinumc
RunInv ==
  \A p \in Pids :
    /\ RunnerInv(p)
    /\ life[p] = "free" => run[p].at = "none" /\ job[p].options = Nothing
    /\ run[p].at # "none" => job[p].options = Nothing

\* The first process has the terminal to the end, and prints on it once
RootInv ==
  /\ life[Root] \in {"alive", "exited"} /\ run[Root].at \notin {"none", "child"}
  /\ std[Root] = [in |-> Terminal, out |-> Terminal, err |-> Terminal]
  /\ tap = IF run[Root].at = "return" THEN <<run[Root].verdicts>> ELSE <<>>

\* The others print into the pipes of their parents
StreamInv ==
  \A p \in Pids : /\ std[p].out = Terminal \/ std[p].out[3] = "out"
                  /\ std[p].err = Terminal \/ std[p].err[3] = "err"
                  /\ p # Root /\ life[p] # "free" /\ run[p].at # "child" =>
                       /\ std[p].out # Terminal /\ std[p].out[1] = parent[p]
                       /\ std[p].err # Terminal /\ std[p].err[1] = parent[p]

\* What a vinumc has done at each of its stages
JobOk(j) ==
  /\ j.at # "parse" => j.options.known
  /\ j.at \notin {"parse", "usage", "flush"} => j.options.usage = Nothing
  /\ j.at \in {"parse", "usage", "open"} => j.program = <<>> /\ j.dest = Terminal
  /\ j.dest \in Paths => j.dest = j.options.output /\ j.options.usage = Nothing
  /\ j.at = "report" => j.out = Compile(j.program, j.cocktail).out
  /\ j.at = "flush" => j.dest # Nothing

JobInv == \A p \in Pids : job[p].options # Nothing => JobOk(job[p])

\* What a vinumc has opened for its output is a file
DestInv == \A p \in Pids : job[p].dest \in Paths => files[job[p].dest] \in Text

\* A live runner none of whose inputs was cut short
Clean(p) == life[p] = "alive" /\ run[p].at # "none" /\ ~ CutBefore(p)

\* Its one child is that of the test
Unreaped(c) == life[c] \notin {"free", "reaped"}
ChildrenInv ==
  \A p, c \in Pids : Clean(p) =>
    (parent[c] = p /\ Unreaped(c) <=> run[p].at \in Waiting /\ run[p].kid = c)

\* The ends that it may still hold, of the pipes of the test
MayRead(stage) ==
  CASE stage \in {"fork", "send"} -> Ends
    [] stage \in {"write", "shut", "wait", "out"} -> {"out", "err"}
    [] stage = "err" -> {"err"}
    [] OTHER -> {}
MayWrite(stage) == IF stage \in {"fork", "send", "write", "shut"} THEN Ends ELSE {}

EndOk(p, k, end) ==
  /\ p \in pipes[<<p, k, end>>].readers =>
       k = run[p].test /\ end \in MayRead(run[p].at) /\ (end = "in" => Test(p).input # Nothing)
  /\ p \in pipes[<<p, k, end>>].writers =>
       k = run[p].test /\ end \in MayWrite(run[p].at) /\ (end = "in" => Test(p).input # Nothing)

EndsInv == \A p \in Pids, k \in Runs, end \in Ends : Clean(p) => EndOk(p, k, end)

\* The ends that a runner must still hold
HeldOk(p) ==
  /\ run[p].at \in {"fork", "out"} \union Waiting => p \in pipes[Pipe(p, "out")].readers
  /\ run[p].at \in {"fork", "out", "err"} \union Waiting => p \in pipes[Pipe(p, "err")].readers
  /\ run[p].at \in {"fork", "send", "write", "shut"} /\ Test(p).input # Nothing
       => p \in pipes[Pipe(p, "in")].writers
  /\ run[p].at = "fork" /\ Test(p).input # Nothing => p \in pipes[Pipe(p, "in")].readers

HeldInv == \A p \in Pids : life[p] = "alive" => HeldOk(p)

\* The child works on the test, on its pipes
KidOk(p, c) ==
  /\ run[c].at = "child" => run[c].test = run[p].test /\ std[c] = std[p]
  /\ run[c].at # "child" =>
       /\ std[c].out = Pipe(p, "out") /\ std[c].err = Pipe(p, "err")
       /\ std[c].in = IF Test(p).input = Nothing THEN std[p].in ELSE Pipe(p, "in")
  /\ life[c] = "alive" /\ Test(p).input # Nothing => c \in pipes[Pipe(p, "in")].readers

KidInv ==
  \A p, c \in Pids : Clean(p) /\ run[p].at \in Waiting /\ run[p].kid = c => KidOk(p, c)

\* What was sent of the input
WriteOk(p) ==
  /\ run[p].at = "write" => Test(p).input # Nothing
  /\ run[p].at \in {"fork", "send", "write"} /\ Test(p).input # Nothing /\ ~ run[p].sent
       => pipes[Pipe(p, "in")].data = <<>>
  /\ run[p].at = "write" /\ ~ run[p].sent => run[p].left = Test(p).input
  /\ run[p].at = "write" /\ run[p].sent /\ run[p].left # <<>> => Len(Test(p).input) > PipeSize

WriteInv == \A p \in Pids : life[p] = "alive" => WriteOk(p)

-----------------------------------------------------------------------------
(* The texts, the pipes and the tests.                                         *)

\* The pipes of a test
LEMMA PipeIn ==
  ASSUME NEW p \in Pids, NEW k \in Runs, NEW end \in Ends
  PROVE  <<p, k, end>> \in PipeIds
BY DEF PipeIds, Ends

\* The parts of the name of a pipe
LEMMA PipeParts ==
  ASSUME NEW i \in PipeIds
  PROVE  /\ i[1] \in Pids /\ i[2] \in Runs /\ i[3] \in Ends
         /\ i = <<i[1], i[2], i[3]>>
BY DEF PipeIds, Ends

\* No stream leads to the terminal by a pipe
LEMMA NotTerminal ==
  /\ Terminal \notin PipeIds /\ Terminal \notin Paths
  /\ Nothing \notin Paths /\ Nothing # Terminal
BY ProcessesAssumption DEF PipeIds

\* One chunk more, at the end of a text
LEMMA AppendText ==
  ASSUME NEW t \in Text, NEW x \in Chunks
  PROVE  /\ Append(t, x) \in Text /\ Len(Append(t, x)) = Len(t) + 1
         /\ Append(t, x) = t \o <<x>>
BY DEF Text

\* A chunk written into a text, or at its end
LEMMA OverwrittenText ==
  ASSUME NEW t \in Text, NEW n \in Nat, NEW x \in Chunks
  PROVE  /\ Overwritten(t, n, x) \in Text
         /\ n = Len(t) => Overwritten(t, n, x) = Append(t, x)
<1> DEFINE m == IF n < Len(t) THEN Len(t) ELSE n + 1
<1>1. Len(t) \in Nat /\ m \in Nat /\ t \in Seq(Chunks)
  BY DEF Text
<1>2. \A k \in 1..m : (IF k = n + 1 THEN x ELSE IF k <= Len(t) THEN t[k] ELSE Gap) \in Chunks
  BY <1>1, ProcessesAssumption
<1>3. Overwritten(t, n, x) \in Text
  BY <1>1, <1>2 DEF Overwritten, Text
<1>4. ASSUME n = Len(t) PROVE Overwritten(t, n, x) = Append(t, x)
  <2>1. Overwritten(t, n, x) = [k \in 1..(n + 1) |-> IF k = n + 1 THEN x ELSE t[k]]
    BY <1>1, <1>4 DEF Overwritten
  <2>2. /\ Overwritten(t, n, x) \in Seq(Chunks) /\ Len(Overwritten(t, n, x)) = n + 1
        /\ \A k \in 1..(n + 1) : Overwritten(t, n, x)[k] = IF k = n + 1 THEN x ELSE t[k]
    BY <1>3, <2>1 DEF Text
  <2>3. /\ Append(t, x) \in Seq(Chunks) /\ Len(Append(t, x)) = n + 1
        /\ \A k \in 1..(n + 1) : Append(t, x)[k] = IF k = n + 1 THEN x ELSE t[k]
    BY <1>1, <1>4, AppendProperties
  <2> QED
    BY <2>2, <2>3, SeqEqual
<1> QED
  BY <1>3, <1>4

\* A text has a length
LEMMA LenText ==
  ASSUME NEW t \in Text
  PROVE  /\ Len(t) \in Nat /\ (Len(t) = 0 <=> t = <<>>)
         /\ t \o <<>> = t /\ <<>> \o t = t
BY DEF Text

\* The empty text
LEMMA EmptyText == <<>> \in Text /\ Len(<<>>) = 0
BY DEF Text

\* Two texts, one after the other
LEMMA ConcatText ==
  ASSUME NEW s \in Text, NEW t \in Text
  PROVE  /\ s \o t \in Text /\ Len(s \o t) = Len(s) + Len(t)
         /\ s \o t = <<>> <=> s = <<>> /\ t = <<>>
BY ConcatProperties DEF Text

\* The first chunk of a text and what is left
LEMMA HeadTailText ==
  ASSUME NEW t \in Text, t # <<>>
  PROVE  /\ Head(t) \in Chunks /\ Tail(t) \in Text
         /\ t = <<Head(t)>> \o Tail(t)
BY HeadTailProperties DEF Text

\* A text in two parts
LEMMA SplitText ==
  ASSUME NEW t \in Text, NEW n \in 0..Len(t)
  PROVE  /\ SubSeq(t, 1, n) \in Text /\ SubSeq(t, n + 1, Len(t)) \in Text
         /\ Len(SubSeq(t, 1, n)) = n /\ Len(SubSeq(t, n + 1, Len(t))) = Len(t) - n
         /\ t = SubSeq(t, 1, n) \o SubSeq(t, n + 1, Len(t))
<1> DEFINE a == SubSeq(t, 1, n)
<1> DEFINE b == SubSeq(t, n + 1, Len(t))
<1>1. Len(t) \in Nat /\ n \in Nat /\ n <= Len(t)
  BY DEF Text
<1>2. a \in Seq(Chunks) /\ Len(a) = n /\ \A i \in 1..n : a[i] = t[i]
  <2>1. \A i \in 1..n : t[i] \in Chunks
    BY <1>1 DEF Text
  <2>2. a = [i \in 1..n |-> t[i]]
    BY <1>1, SubSeqProperties DEF Text
  <2> HIDE DEF a
  <2> QED
    BY <1>1, <2>1, <2>2
<1>3. b \in Seq(Chunks) /\ Len(b) = Len(t) - n /\ \A i \in 1..(Len(t) - n) : b[i] = t[n + i]
  <2>1. \A i \in 1..(Len(t) - n) : n + i \in 1..Len(t) /\ t[n + i] \in Chunks
    BY <1>1 DEF Text
  <2>2. /\ b \in Seq(Chunks)
        /\ Len(b) = IF n + 1 <= Len(t) THEN Len(t) - (n + 1) + 1 ELSE 0
        /\ \A i \in 1..(Len(t) - (n + 1) + 1) : b[i] = t[(n + 1) + i - 1]
    BY <1>1, SubSeqProperties DEF Text
  <2> HIDE DEF b
  <2>3. \A i \in 1..(Len(t) - n) : b[i] = t[n + i]
    BY <1>1, <2>2
  <2> QED
    BY <1>1, <2>2, <2>3
<1> HIDE DEF a, b
<1>4. t = a \o b
  <2>1. /\ a \o b \in Seq(Chunks) /\ Len(a \o b) = Len(a) + Len(b)
        /\ \A i \in 1..(Len(a) + Len(b)) :
             (a \o b)[i] = IF i <= Len(a) THEN a[i] ELSE b[i - Len(a)]
    BY <1>2, <1>3, ConcatProperties
  <2>2. Len(a \o b) = Len(t)
    BY <1>1, <1>2, <1>3, <2>1
  <2>3. ASSUME NEW i \in 1..Len(t)
        PROVE  (a \o b)[i] = t[i]
    <3>1. CASE i <= n
      BY <1>1, <1>2, <1>3, <2>1, <3>1
    <3>2. CASE ~ (i <= n)
      <4>1. i - n \in 1..(Len(t) - n) /\ n + (i - n) = i
        BY <1>1, <3>2
      <4>2. b[i - n] = t[n + (i - n)]
        BY <1>3, <4>1
      <4>3. (a \o b)[i] = b[i - n]
        BY <1>1, <1>2, <1>3, <2>1, <3>2
      <4> QED
        BY <4>1, <4>2, <4>3
    <3> QED
      BY <3>1, <3>2
  <2> QED
    BY <1>1, <2>1, <2>2, <2>3, SeqEqual DEF Text
<1> QED
  BY <1>2, <1>3, <1>4 DEF a, b, Text

\* A suite is a sequence of tests, each with its pipes
LEMMA SuiteFacts ==
  ASSUME Typed
  PROVE  /\ Len(suite) \in Nat /\ DOMAIN suite = 1..Len(suite)
         /\ \A k \in 1..Len(suite) : k \in Runs /\ IsTest(suite[k])
<1>1. /\ suite \in Seq(Range(suite)) /\ DOMAIN suite \subseteq Runs
      /\ \A k \in DOMAIN suite : IsTest(suite[k])
  BY HarnessAssumption DEF Typed
<1>2. Len(suite) \in Nat /\ DOMAIN suite = 1..Len(suite)
  BY <1>1
<1> QED
  BY <1>1, <1>2

\* The test of a runner that is at one
LEMMA TestFacts ==
  ASSUME Typed, NEW p \in Pids, run[p].test <= Len(suite)
  PROVE  /\ run[p].test \in Runs /\ IsTest(Test(p))
         /\ Pipe(p, "in") \in PipeIds /\ Pipe(p, "out") \in PipeIds /\ Pipe(p, "err") \in PipeIds
<1>1. run[p].test \in Nat \ {0}
  BY DEF Typed, RunType
<1>2. run[p].test \in 1..Len(suite)
  BY <1>1, SuiteFacts
<1> QED
  BY <1>2, SuiteFacts, PipeIn DEF Test, Pipe, Ends

\* Pipes that were opened
LEMMA OpenedPipes ==
  ASSUME NEW ps \in [PipeIds -> PipeType], NEW p \in Pids, NEW ids
  PROVE  /\ Opened(ps, p, ids) \in [PipeIds -> PipeType]
         /\ \A i \in PipeIds : i \in ids =>
              /\ Opened(ps, p, ids)[i].data = <<>>
              /\ Opened(ps, p, ids)[i].readers = {p}
              /\ Opened(ps, p, ids)[i].writers = {p}
         /\ \A i \in PipeIds : i \notin ids => Opened(ps, p, ids)[i] = ps[i]
<1> DEFINE new == [NoPipe EXCEPT !.readers = {p}, !.writers = {p}]
<1>1. NoPipe \in PipeType
  BY EmptyText DEF PipeType, NoPipe
<1>2. new \in PipeType /\ new.data = <<>> /\ new.readers = {p} /\ new.writers = {p}
  BY <1>1 DEF PipeType, NoPipe
<1> HIDE DEF new
<1>3. Opened(ps, p, ids) = [i \in PipeIds |-> IF i \in ids THEN new ELSE ps[i]]
  BY DEF Opened, new
<1> QED
  BY <1>2, <1>3

\* Ends that were closed
LEMMA ClosedPipes ==
  ASSUME NEW ps \in [PipeIds -> PipeType], NEW p \in Pids, NEW rx, NEW tx
  PROVE  /\ Closed(ps, p, rx, tx) \in [PipeIds -> PipeType]
         /\ \A i \in PipeIds :
              /\ Closed(ps, p, rx, tx)[i].data = ps[i].data
              /\ \A q : q \in Closed(ps, p, rx, tx)[i].readers <=> q \in ps[i].readers /\ ~ (q = p /\ i \in rx)
              /\ \A q : q \in Closed(ps, p, rx, tx)[i].writers <=> q \in ps[i].writers /\ ~ (q = p /\ i \in tx)
<1>1. ASSUME NEW i \in PipeIds
      PROVE  /\ Closed(ps, p, rx, tx)[i] \in PipeType
             /\ Closed(ps, p, rx, tx)[i].data = ps[i].data
             /\ \A q : q \in Closed(ps, p, rx, tx)[i].readers <=> q \in ps[i].readers /\ ~ (q = p /\ i \in rx)
             /\ \A q : q \in Closed(ps, p, rx, tx)[i].writers <=> q \in ps[i].writers /\ ~ (q = p /\ i \in tx)
  <2>1. ps[i] \in PipeType
    OBVIOUS
  <2> QED
    BY <2>1 DEF Closed, PipeType
<1>2. Closed(ps, p, rx, tx) = [i \in PipeIds |-> Closed(ps, p, rx, tx)[i]]
  BY DEF Closed
<1> QED
  BY <1>1, <1>2

\* Ends that a child has as well
LEMMA SharedPipes ==
  ASSUME NEW ps \in [PipeIds -> PipeType], NEW p \in Pids, NEW c \in Pids
  PROVE  /\ Shared(ps, p, c) \in [PipeIds -> PipeType]
         /\ \A i \in PipeIds :
              /\ Shared(ps, p, c)[i].data = ps[i].data
              /\ \A q : q \in Shared(ps, p, c)[i].readers <=> q \in ps[i].readers \/ (q = c /\ p \in ps[i].readers)
              /\ \A q : q \in Shared(ps, p, c)[i].writers <=> q \in ps[i].writers \/ (q = c /\ p \in ps[i].writers)
<1>1. ASSUME NEW i \in PipeIds
      PROVE  /\ Shared(ps, p, c)[i] \in PipeType
             /\ Shared(ps, p, c)[i].data = ps[i].data
             /\ \A q : q \in Shared(ps, p, c)[i].readers <=> q \in ps[i].readers \/ (q = c /\ p \in ps[i].readers)
             /\ \A q : q \in Shared(ps, p, c)[i].writers <=> q \in ps[i].writers \/ (q = c /\ p \in ps[i].writers)
  <2>1. ps[i] \in PipeType
    OBVIOUS
  <2> QED
    BY <2>1 DEF Shared, PipeType
<1>2. Shared(ps, p, c) = [i \in PipeIds |-> Shared(ps, p, c)[i]]
  BY DEF Shared
<1> QED
  BY <1>1, <1>2

\* A chunk that is written into a pipe, or lost
LEMMA WritePipes ==
  ASSUME Typed, NEW x \in Chunks, NEW to \in Streams, Write(x, to)
  PROVE  /\ pipes' \in [PipeIds -> PipeType]
         /\ \A i \in PipeIds :
              /\ pipes'[i].readers = pipes[i].readers /\ pipes'[i].writers = pipes[i].writers
              /\ \/ pipes'[i].data = pipes[i].data
                 \/ i = to /\ Len(pipes[i].data) < PipeSize /\ pipes'[i].data = Append(pipes[i].data, x)
<1>1. pipes \in [PipeIds -> PipeType]
  BY DEF Typed
<1>2. CASE UNCHANGED pipes
  BY <1>1, <1>2
<1>3. CASE /\ to # Terminal /\ Len(pipes[to].data) < PipeSize
           /\ pipes' = [pipes EXCEPT ![to].data = Append(@, x)]
  <2>1. to \in PipeIds
    BY <1>3 DEF Streams
  <2>2. pipes[to] \in PipeType
    BY <1>1, <2>1
  <2>3. Append(pipes[to].data, x) \in Text
    BY <2>2, AppendText DEF PipeType
  <2>4. /\ [pipes[to] EXCEPT !.data = Append(pipes[to].data, x)] \in PipeType
        /\ [pipes[to] EXCEPT !.data = Append(pipes[to].data, x)].data = Append(pipes[to].data, x)
        /\ [pipes[to] EXCEPT !.data = Append(pipes[to].data, x)].readers = pipes[to].readers
        /\ [pipes[to] EXCEPT !.data = Append(pipes[to].data, x)].writers = pipes[to].writers
    BY <2>2, <2>3 DEF PipeType
  <2>5. pipes' = [pipes EXCEPT ![to] = [pipes[to] EXCEPT !.data = Append(pipes[to].data, x)]]
    BY <1>3
  <2> QED
    BY <1>1, <1>3, <2>1, <2>4, <2>5
<1> QED
  BY <1>2, <1>3 DEF Write

\* A pipe that is emptied
LEMMA DrainPipes ==
  ASSUME Typed, NEW from \in PipeIds, Drain(from)
  PROVE  /\ pipes' \in [PipeIds -> PipeType] /\ pipes'[from].data = <<>>
         /\ \A i \in PipeIds :
              /\ pipes'[i].readers = pipes[i].readers /\ pipes'[i].writers = pipes[i].writers
              /\ i # from => pipes'[i].data = pipes[i].data
<1>1. pipes \in [PipeIds -> PipeType]
  BY DEF Typed
<1>2. pipes[from] \in PipeType
  BY <1>1
<1>3. /\ [pipes[from] EXCEPT !.data = <<>>] \in PipeType
      /\ [pipes[from] EXCEPT !.data = <<>>].data = <<>>
      /\ [pipes[from] EXCEPT !.data = <<>>].readers = pipes[from].readers
      /\ [pipes[from] EXCEPT !.data = <<>>].writers = pipes[from].writers
  BY <1>2, EmptyText DEF PipeType
<1>4. pipes' = [pipes EXCEPT ![from] = [pipes[from] EXCEPT !.data = <<>>]]
  BY DEF Drain
<1> QED
  BY <1>1, <1>3, <1>4

\* The end of a process
LEMMA EndPipes ==
  ASSUME Typed, NEW p \in Pids, NEW how \in {"exited", "killed"}, End(p, how)
  PROVE  /\ pipes' \in [PipeIds -> PipeType] /\ life' \in [Pids -> Lives]
         /\ life'[p] = how /\ \A q \in Pids : q # p => life'[q] = life[q]
         /\ \A i \in PipeIds :
              /\ \A q : q \in pipes'[i].readers <=> q \in pipes[i].readers /\ q # p
              /\ \A q : q \in pipes'[i].writers <=> q \in pipes[i].writers /\ q # p
              /\ pipes'[i].data = pipes[i].data
<1>1. pipes \in [PipeIds -> PipeType] /\ life \in [Pids -> Lives]
  BY DEF Typed
<1>2. pipes' = Closed(pipes, p, PipeIds, PipeIds)
  BY DEF End
<1>3. /\ life' \in [Pids -> Lives] /\ life'[p] = how
      /\ \A q \in Pids : q # p => life'[q] = life[q]
  BY <1>1 DEF End, Lives
<1>4. pipes' \in [PipeIds -> PipeType]
  BY <1>1, <1>2, ClosedPipes
<1>5. ASSUME NEW i \in PipeIds
      PROVE  /\ pipes'[i].data = pipes[i].data
             /\ \A q : q \in pipes'[i].readers <=> q \in pipes[i].readers /\ q # p
             /\ \A q : q \in pipes'[i].writers <=> q \in pipes[i].writers /\ q # p
  BY <1>1, <1>2, ClosedPipes
<1> QED
  BY <1>3, <1>4, <1>5

(* A step of a vinumc, seen by the others: it changes its own data and files,  *)
(* writes to its own stdout and stderr and reads its stdin, or it ends.        *)
VinumcStep(q) ==
  /\ life[q] = "alive" /\ job[q].options # Nothing
  /\ UNCHANGED <<parent, std>>
  /\ \A p \in Pids : p # q => life'[p] = life[p] /\ job'[p] = job[p]
  /\ life'[q] \in {"alive", "exited", "killed"} /\ job'[q].options = job[q].options
  /\ \A i \in PipeIds :
       /\ \A p : p \in pipes'[i].readers <=> p \in pipes[i].readers /\ (p = q => life'[q] = "alive")
       /\ \A p : p \in pipes'[i].writers <=> p \in pipes[i].writers /\ (p = q => life'[q] = "alive")
       /\ \/ pipes'[i].data = pipes[i].data
          \/ /\ i = std[q].out \/ i = std[q].err
             /\ Len(pipes[i].data) < PipeSize /\ \E x \in Chunks : pipes'[i].data = Append(pipes[i].data, x)
          \/ i = std[q].in /\ pipes'[i].data = <<>>
  /\ life' \in [Pids -> Lives] /\ pipes' \in [PipeIds -> PipeType]
  /\ files' \in [Paths -> FileTexts] /\ job' \in [Pids -> JobType]

\* Where the kernel does nothing
LEMMA QuietStep ==
  ASSUME Typed, NEW q \in Pids, life[q] = "alive", job[q].options # Nothing,
         UNCHANGED <<life, parent, std, pipes>>, files' \in [Paths -> FileTexts],
         NEW j \in JobType, job' = [job EXCEPT ![q] = j], j.options = job[q].options
  PROVE  VinumcStep(q)
<1>1. job' \in [Pids -> JobType] /\ job'[q] = j /\ \A p \in Pids : p # q => job'[p] = job[p]
  BY DEF Typed
<1> QED
  BY <1>1 DEF VinumcStep, Typed

\* Where a process dies or exits
LEMMA LastStep ==
  ASSUME Typed, NEW q \in Pids, life[q] = "alive", job[q].options # Nothing,
         NEW how \in {"exited", "killed"}, End(q, how), UNCHANGED job
  PROVE  VinumcStep(q)
<1>1. UNCHANGED <<parent, std, files>>
  BY DEF End
<1>2. job' \in [Pids -> JobType] /\ files' \in [Paths -> FileTexts]
  BY <1>1 DEF Typed
<1>3. life'[q] # "alive" /\ life'[q] \in {"exited", "killed"}
  BY EndPipes
<1> QED
  BY <1>1, <1>2, <1>3, EndPipes DEF VinumcStep

\* The fields of a process's data
LEMMA JobFacts ==
  ASSUME Typed, NEW q \in Pids, At(q, "parse") \/ job[q].options # Nothing
  PROVE  /\ job[q] \in JobType /\ job[q].options \in Options
         /\ std[q] \in StdType
BY DEF Typed, JobType, At

\* ParseCmdline as others see it
LEMMA ParseStep ==
  ASSUME Typed, NEW q \in Pids, ParseCmdline(q) PROVE VinumcStep(q)
<1>1. life[q] = "alive" /\ job[q].options # Nothing /\ job[q] \in JobType
  BY JobFacts DEF ParseCmdline, At
<1>2. CASE Goto(q, "usage") /\ UNCHANGED kernel
  <2>1. [job[q] EXCEPT !.at = "usage"] \in JobType
        /\ [job[q] EXCEPT !.at = "usage"].options = job[q].options
    BY <1>1 DEF JobType, JobStages
  <2>2. job' = [job EXCEPT ![q] = [job[q] EXCEPT !.at = "usage"]]
    BY <1>2 DEF Goto
  <2>3. files' \in [Paths -> FileTexts] /\ UNCHANGED <<life, parent, std, pipes>>
    BY <1>2 DEF Typed, kernel
  <2> QED
    BY <1>1, <2>1, <2>2, <2>3, QuietStep
<1>3. CASE Die(q)
  BY <1>1, <1>3, LastStep DEF Die
<1> QED
  BY <1>2, <1>3 DEF ParseCmdline

\* ShowUsage as others see it
LEMMA UsageStep ==
  ASSUME Typed, NEW q \in Pids, ShowUsage(q) PROVE VinumcStep(q)
<1>1. life[q] = "alive" /\ job[q].options # Nothing /\ job[q] \in JobType /\ job[q].options \in Options
  BY JobFacts DEF ShowUsage, At
<1>2. files' \in [Paths -> FileTexts] /\ UNCHANGED <<life, parent, std, pipes>>
  BY DEF ShowUsage, Typed, kernel
<1>3. CASE job[q].options.usage = Nothing
  <2>1. [job[q] EXCEPT !.at = "open"] \in JobType
        /\ [job[q] EXCEPT !.at = "open"].options = job[q].options
    BY <1>1 DEF JobType, JobStages
  <2>2. job' = [job EXCEPT ![q] = [job[q] EXCEPT !.at = "open"]]
    BY <1>3 DEF ShowUsage, Goto
  <2> QED
    BY <1>1, <1>2, <2>1, <2>2, QuietStep
<1>4. CASE job[q].options.usage # Nothing
  <2>1. <<job[q].options.usage>> \in Text
    BY <1>1, <1>4 DEF Options, Text
  <2> DEFINE j == [job[q] EXCEPT !.at = "flush", !.out = <<job[q].options.usage>>]
  <2>2. j \in JobType /\ j.options = job[q].options
    BY <1>1, <2>1 DEF JobType, JobStages
  <2>3. job' = [job EXCEPT ![q] = j]
    BY <1>4 DEF ShowUsage
  <2> QED
    BY <1>1, <1>2, <2>2, <2>3, QuietStep
<1> QED
  BY <1>3, <1>4

\* OpenOutput as others see it
LEMMA OpenStep ==
  ASSUME Typed, NEW q \in Pids, OpenOutput(q) PROVE VinumcStep(q)
<1>1. life[q] = "alive" /\ job[q].options # Nothing /\ job[q] \in JobType /\ job[q].options \in Options
  BY JobFacts DEF OpenOutput, At
<1> DEFINE path == job[q].options.output
<1> DEFINE dest == IF path = Nothing THEN Terminal
                   ELSE IF files[path] = Directory THEN Nothing ELSE path
<1>2. path \in Paths \union {Nothing}
  BY <1>1 DEF Options
<1>3. files' \in [Paths -> FileTexts]
  BY <1>2, EmptyText DEF OpenOutput, Typed, FileTexts
<1>4. dest \in Paths \union {Terminal, Nothing}
  BY <1>2
<1> HIDE DEF dest
<1> DEFINE j == [job[q] EXCEPT !.at = "read", !.dest = dest]
<1>5. j \in JobType /\ j.options = job[q].options
  BY <1>1, <1>4 DEF JobType, JobStages
<1>6. job' = [job EXCEPT ![q] = j]
  BY DEF OpenOutput, dest
<1>7. UNCHANGED <<life, parent, std, pipes>>
  BY DEF OpenOutput
<1> QED
  BY <1>1, <1>3, <1>5, <1>6, <1>7, QuietStep

\* A file that is there, or a directory, is read as a text
LEMMA ReadAllText ==
  ASSUME NEW text \in FileTexts, text # Absent
  PROVE  ReadAll(text) \in Text
BY EmptyText DEF ReadAll, FileTexts

\* ReadInputFile as others see it
LEMMA ReadFileStep ==
  ASSUME Typed, NEW q \in Pids, ReadInputFile(q) PROVE VinumcStep(q)
<1>1. life[q] = "alive" /\ job[q].options # Nothing /\ job[q] \in JobType /\ job[q].options \in Options
  BY JobFacts DEF ReadInputFile, At
<1> DEFINE path == job[q].options.input
<1>2. path \in Paths
  BY <1>1 DEF ReadInputFile, Options
<1>3. CASE files[path] = Absent
  BY <1>1, <1>3, LastStep DEF ReadInputFile, Die
<1>4. CASE files[path] # Absent
  <2>1. ReadAll(files[path]) \in Text
    BY <1>2, <1>4, ReadAllText DEF Typed
  <2> DEFINE j == [job[q] EXCEPT !.at = "effects", !.program = ReadAll(files[path])]
  <2>2. j \in JobType /\ j.options = job[q].options
    BY <1>1, <2>1 DEF JobType, JobStages
  <2>3. job' = [job EXCEPT ![q] = j]
    BY <1>4 DEF ReadInputFile
  <2>4. files' \in [Paths -> FileTexts] /\ UNCHANGED <<life, parent, std, pipes>>
    BY <1>4 DEF ReadInputFile, kernel, Typed
  <2> QED
    BY <1>1, <2>2, <2>3, <2>4, QuietStep
<1> QED
  BY <1>3, <1>4

\* ReadStdin as others see it
LEMMA ReadStdinStep ==
  ASSUME Typed, NEW q \in Pids, ReadStdin(q) PROVE VinumcStep(q)
<1>1. /\ life[q] = "alive" /\ job[q].options # Nothing /\ job[q] \in JobType
      /\ std[q].in \in Streams
  BY JobFacts DEF ReadStdin, At, StdType
<1> DEFINE from == std[q].in
<1>2. CASE Goto(q, "effects") /\ UNCHANGED kernel
  <2>1. [job[q] EXCEPT !.at = "effects"] \in JobType
        /\ [job[q] EXCEPT !.at = "effects"].options = job[q].options
    BY <1>1 DEF JobType, JobStages
  <2>2. job' = [job EXCEPT ![q] = [job[q] EXCEPT !.at = "effects"]]
    BY <1>2 DEF Goto
  <2>3. files' \in [Paths -> FileTexts] /\ UNCHANGED <<life, parent, std, pipes>>
    BY <1>2 DEF Typed, kernel
  <2> QED
    BY <1>1, <2>1, <2>2, <2>3, QuietStep
<1>3. CASE /\ from # Terminal /\ Drain(from)
           /\ job' = [job EXCEPT ![q].program = @ \o pipes[from].data]
           /\ UNCHANGED <<life, parent, std, files>>
  <2>1. from \in PipeIds
    BY <1>1, <1>3 DEF Streams
  <2>2. pipes[from].data \in Text
    BY <2>1 DEF Typed, PipeType
  <2> DEFINE text == job[q].program \o pipes[from].data
  <2>3. text \in Text
    BY <1>1, <2>2, ConcatText DEF JobType
  <2> HIDE DEF text
  <2>4. [job[q] EXCEPT !.program = text] \in JobType
        /\ [job[q] EXCEPT !.program = text].options = job[q].options
    BY <1>1, <2>3 DEF JobType
  <2>5. job' = [job EXCEPT ![q] = [job[q] EXCEPT !.program = text]]
    BY <1>3 DEF text
  <2>6. /\ job' \in [Pids -> JobType] /\ job'[q].options = job[q].options
        /\ \A p \in Pids : p # q => job'[p] = job[p]
    BY <2>4, <2>5 DEF Typed
  <2>7. /\ pipes' \in [PipeIds -> PipeType] /\ pipes'[from].data = <<>>
        /\ \A i \in PipeIds :
             /\ pipes'[i].readers = pipes[i].readers /\ pipes'[i].writers = pipes[i].writers
             /\ i # from => pipes'[i].data = pipes[i].data
    BY <1>3, <2>1, DrainPipes
  <2> QED
    BY <1>1, <1>3, <2>6, <2>7 DEF VinumcStep, Typed
<1> QED
  BY <1>2, <1>3 DEF ReadStdin

\* ReadEffects as others see it
LEMMA EffectsStep ==
  ASSUME Typed, NEW q \in Pids, ReadEffects(q) PROVE VinumcStep(q)
<1>1. life[q] = "alive" /\ job[q].options # Nothing /\ job[q] \in JobType /\ job[q].options \in Options
  BY JobFacts DEF ReadEffects, At
<1>2. files \in [Paths -> FileTexts] /\ job[q].options.effects \in Seq(Paths)
  BY <1>1 DEF Typed, Options
<1> DEFINE text == Effects(files, job[q].options.effects)
<1>3. text \in Cocktails
  BY <1>2 DEF Cocktails
<1>4. job' = [job EXCEPT ![q] = [job[q] EXCEPT !.at = "compile", !.cocktail = text]]
  BY DEF ReadEffects
<1> HIDE DEF text
<1> DEFINE j == [job[q] EXCEPT !.at = "compile", !.cocktail = text]
<1>5. j \in JobType /\ j.options = job[q].options
  BY <1>1, <1>3 DEF JobType, JobStages
<1>6. UNCHANGED <<life, parent, std, pipes>> /\ files' \in [Paths -> FileTexts]
  BY <1>2 DEF ReadEffects, kernel
<1> QED
  BY <1>1, <1>4, <1>5, <1>6, QuietStep

\* CompileProgram as others see it
LEMMA CompileStep ==
  ASSUME CompileAnswers, Typed, NEW q \in Pids, CompileProgram(q) PROVE VinumcStep(q)
<1>1. life[q] = "alive" /\ job[q].options # Nothing /\ job[q] \in JobType
  BY JobFacts DEF CompileProgram, At
<1> DEFINE answer == Compile(job[q].program, job[q].cocktail)
<1>2. job[q].program \in Text /\ job[q].cocktail \in Cocktails
  BY <1>1 DEF JobType
<1>3. answer.out \in Text /\ answer.err \in Text /\ answer.dies \in BOOLEAN
  BY <1>2 DEF CompileAnswers
<1>4. job' = [job EXCEPT ![q] = [job[q] EXCEPT !.at = "report", !.out = answer.out,
                                              !.err = answer.err, !.dies = answer.dies]]
  BY DEF CompileProgram
<1> HIDE DEF answer
<1> DEFINE j == [job[q] EXCEPT !.at = "report", !.out = answer.out,
                               !.err = answer.err, !.dies = answer.dies]
<1>5. j \in JobType /\ j.options = job[q].options
  BY <1>1, <1>3 DEF JobType, JobStages
<1>6. UNCHANGED <<life, parent, std, pipes>> /\ files' \in [Paths -> FileTexts]
  BY DEF CompileProgram, kernel, Typed
<1> QED
  BY <1>1, <1>4, <1>5, <1>6, QuietStep

\* Where a chunk is written and only the job is changed with it
LEMMA PrintStep ==
  ASSUME Typed, NEW q \in Pids, life[q] = "alive", job[q].options # Nothing,
         NEW x \in Chunks, NEW to \in {std[q].out, std[q].err}, Write(x, to),
         UNCHANGED <<life, parent, std, files>>,
         NEW j \in JobType, job' = [job EXCEPT ![q] = j], j.options = job[q].options
  PROVE  VinumcStep(q)
<1>1. to \in Streams /\ std[q] \in StdType
  BY JobFacts DEF StdType
<1>2. /\ pipes' \in [PipeIds -> PipeType]
      /\ \A i \in PipeIds :
           /\ pipes'[i].readers = pipes[i].readers /\ pipes'[i].writers = pipes[i].writers
           /\ \/ pipes'[i].data = pipes[i].data
              \/ i = to /\ Len(pipes[i].data) < PipeSize /\ pipes'[i].data = Append(pipes[i].data, x)
  BY <1>1, WritePipes
<1>3. job' \in [Pids -> JobType] /\ job'[q] = j /\ \A p \in Pids : p # q => job'[p] = job[p]
  BY DEF Typed
<1> QED
  BY <1>2, <1>3 DEF VinumcStep, Typed

\* Report as others see it
LEMMA ReportStep ==
  ASSUME Typed, NEW q \in Pids, Report(q) PROVE VinumcStep(q)
<1>1. life[q] = "alive" /\ job[q].options # Nothing /\ job[q] \in JobType
  BY JobFacts DEF Report, At
<1>2. Head(job[q].err) \in Chunks /\ Tail(job[q].err) \in Text
  BY <1>1, HeadTailText DEF Report, JobType
<1> DEFINE j == [job[q] EXCEPT !.err = Tail(job[q].err)]
<1>3. j \in JobType /\ j.options = job[q].options
  BY <1>1, <1>2 DEF JobType
<1>4. job' = [job EXCEPT ![q] = j]
  BY DEF Report
<1> HIDE DEF j
<1> QED
  BY <1>1, <1>2, <1>3, <1>4, PrintStep DEF Report

\* Emit as others see it
LEMMA EmitStep ==
  ASSUME Typed, NEW q \in Pids, Emit(q) PROVE VinumcStep(q)
<1>1. life[q] = "alive" /\ job[q].options # Nothing /\ job[q] \in JobType
  BY JobFacts DEF Emit, At
<1>2. CASE Goto(q, "flush") /\ UNCHANGED kernel
  <2>1. [job[q] EXCEPT !.at = "flush"] \in JobType
        /\ [job[q] EXCEPT !.at = "flush"].options = job[q].options
    BY <1>1 DEF JobType, JobStages
  <2>2. job' = [job EXCEPT ![q] = [job[q] EXCEPT !.at = "flush"]]
    BY <1>2 DEF Goto
  <2>3. files' \in [Paths -> FileTexts] /\ UNCHANGED <<life, parent, std, pipes>>
    BY <1>2 DEF Typed, kernel
  <2> QED
    BY <1>1, <2>1, <2>2, <2>3, QuietStep
<1>3. CASE Die(q)
  BY <1>1, <1>3, LastStep DEF Die
<1> QED
  BY <1>2, <1>3 DEF Emit

\* Flush as others see it
LEMMA FlushStep ==
  ASSUME Typed, DestInv, NEW q \in Pids, Flush(q) PROVE VinumcStep(q)
<1>1. life[q] = "alive" /\ job[q].options # Nothing /\ job[q] \in JobType
  BY JobFacts DEF Flush, At
<1>2. Head(job[q].out) \in Chunks /\ Tail(job[q].out) \in Text
  BY <1>1, HeadTailText DEF Flush, JobType
<1> DEFINE n == job[q].wrote + 1
           j == [job[q] EXCEPT !.out = Tail(job[q].out), !.wrote = n]
<1>7. n \in Nat
  BY <1>1 DEF JobType
<1> HIDE DEF n
<1>3. j \in JobType /\ j.options = job[q].options
  BY <1>1, <1>2, <1>7 DEF JobType
<1>4. job' = [job EXCEPT ![q] = j] /\ UNCHANGED <<life, parent, std>>
  BY DEF Flush, n
<1> HIDE DEF j
<1>5. CASE job[q].dest \in Paths
  <2> DEFINE dest == job[q].dest
  <2>1. Overwritten(files[dest], job[q].wrote, Head(job[q].out)) \in Text
    BY <1>1, <1>2, <1>5, OverwrittenText DEF DestInv, JobType
  <2>2. files' = [files EXCEPT ![dest] = Overwritten(files[dest], job[q].wrote, Head(job[q].out))]
        /\ UNCHANGED pipes
    BY <1>5 DEF Flush
  <2>3. files' \in [Paths -> FileTexts]
    BY <1>5, <2>1, <2>2 DEF Typed, FileTexts
  <2> QED
    BY <1>1, <1>3, <1>4, <2>2, <2>3, QuietStep
<1>6. CASE job[q].dest \notin Paths
  <2>1. Write(Head(job[q].out), std[q].out) /\ UNCHANGED <<life, parent, std, files>>
    BY <1>4, <1>6 DEF Flush
  <2> QED
    BY <1>1, <1>2, <1>3, <1>4, <2>1, PrintStep
<1> QED
  BY <1>5, <1>6

\* Exit as others see it
LEMMA ExitStep ==
  ASSUME Typed, NEW q \in Pids, Exit(q) PROVE VinumcStep(q)
<1>1. life[q] = "alive" /\ job[q].options # Nothing
  BY DEF Exit, At
<1> QED
  BY <1>1, LastStep DEF Exit

\* Every step of vinumc
LEMMA AnyVinumcStep ==
  ASSUME CompileAnswers, Typed, DestInv, NEW q \in Pids, Vinumc(q) PROVE VinumcStep(q)
BY ParseStep, UsageStep, OpenStep, ReadFileStep, ReadStdinStep, EffectsStep, CompileStep, ReportStep,
   EmitStep, FlushStep, ExitStep DEF Vinumc

-----------------------------------------------------------------------------
(* What the steps of the runner do to its own data.                            *)
Moves(p, stage) ==
  /\ run' \in [Pids -> RunType]
  /\ \A q \in Pids : q # p => run'[q] = run[q]
  /\ run'[p].at = stage /\ run'[p].test = run[p].test /\ run'[p].verdicts = run[p].verdicts

Keeps(p) ==
  /\ run'[p].kid = run[p].kid /\ run'[p].left = run[p].left /\ run'[p].sent = run[p].sent
  /\ run'[p].out = run[p].out /\ run'[p].err = run[p].err /\ run'[p].status = run[p].status
  /\ run'[p].ideal = run[p].ideal

Concludes(p, mark) ==
  /\ run' \in [Pids -> RunType]
  /\ \A q \in Pids : q # p => run'[q] = run[q]
  /\ run'[p].at = "loop" /\ run'[p].test = run[p].test + 1 /\ run'[p].kid = NoPid
  /\ ~ run'[p].sent /\ run'[p].out = <<>> /\ run'[p].err = <<>>
  /\ \E v \in Verdicts :
       /\ run'[p].verdicts = Append(run[p].verdicts, v)
       /\ v.mark = mark /\ (v.forked <=> run[p].kid # NoPid)
       /\ v.cut <=> run[p].at = "write" /\ run[p].sent
       /\ v.right <=> mark # "SKIPPED" /\ onPath /\ Meets(Test(p), run[p].ideal)

\* A step to the next stage
LEMMA StepMoves ==
  ASSUME Typed, NEW p \in Pids, NEW stage \in Stages, Step(p, stage)
  PROVE  Moves(p, stage) /\ Keeps(p)
<1>1. run[p] \in RunType
  BY DEF Typed
<1> DEFINE r == [run[p] EXCEPT !.at = stage]
<1>2. /\ r \in RunType /\ r.at = stage /\ r.test = run[p].test /\ r.verdicts = run[p].verdicts
      /\ r.kid = run[p].kid /\ r.left = run[p].left /\ r.sent = run[p].sent
      /\ r.out = run[p].out /\ r.err = run[p].err /\ r.status = run[p].status /\ r.ideal = run[p].ideal
  BY <1>1 DEF RunType
<1>3. run' = [run EXCEPT ![p] = r]
  BY DEF Step
<1> HIDE DEF r
<1>4. run'[p] = r /\ run' \in [Pids -> RunType] /\ \A q \in Pids : q # p => run'[q] = run[q]
  BY <1>2, <1>3 DEF Typed
<1> QED
  BY <1>2, <1>4 DEF Moves, Keeps

\* What a process that runs no test has
LEMMA NoRunTyped == NoRun \in RunType
<1>1. <<>> \in Seq(Verdicts) /\ <<>> \in Text /\ Nothing \in Ideals
  BY EmptyText DEF Ideals
<1> QED
  BY <1>1 DEF NoRun, RunType, Stages

\* A verdict, and on to the next test
LEMMA ConcludeFacts ==
  ASSUME Typed, NEW p \in Pids, NEW mark \in {"SKIPPED", "PASSED", "FAILED"}, Conclude(p, mark)
  PROVE  Concludes(p, mark)
<1> DEFINE v == [mark   |-> mark,
                 forked |-> run[p].kid # NoPid,
                 cut    |-> run[p].at = "write" /\ run[p].sent,
                 right  |-> mark # "SKIPPED" /\ onPath /\ Meets(Test(p), run[p].ideal)]
<1> DEFINE vs == Append(run[p].verdicts, v)
<1>1. run[p] \in RunType /\ run[p].test \in Nat \ {0} /\ run[p].verdicts \in Seq(Verdicts)
  BY DEF Typed, RunType
<1>2. run[p].sent \in BOOLEAN
  BY <1>1 DEF RunType
<1>3. /\ v \in Verdicts /\ v.mark = mark /\ (v.forked <=> run[p].kid # NoPid)
      /\ v.cut <=> run[p].at = "write" /\ run[p].sent
      /\ v.right <=> mark # "SKIPPED" /\ onPath /\ Meets(Test(p), run[p].ideal)
  BY <1>2 DEF Verdicts
<1>4. run' = [run EXCEPT ![p] = [NoRun EXCEPT !.at = "loop", !.test = run[p].test + 1,
                                               !.verdicts = vs]]
  BY DEF Conclude
<1> HIDE DEF v
<1>5. vs \in Seq(Verdicts)
  BY <1>1, <1>3, AppendProperties
<1> HIDE DEF vs
<1> DEFINE r == [NoRun EXCEPT !.at = "loop", !.test = run[p].test + 1, !.verdicts = vs]
<1>6. /\ r \in RunType /\ r.at = "loop" /\ r.test = run[p].test + 1 /\ r.kid = NoRun.kid
      /\ r.sent = NoRun.sent /\ r.out = NoRun.out /\ r.err = NoRun.err /\ r.verdicts = vs
  <2> DEFINE n == run[p].test + 1
  <2>1. n \in Nat \ {0}
    BY <1>1
  <2> HIDE DEF n
  <2>2. NoRun \in RunType /\ "loop" \in Stages
    BY NoRunTyped DEF Stages
  <2> DEFINE x == [NoRun EXCEPT !.at = "loop", !.test = n, !.verdicts = vs]
  <2>3. /\ x \in RunType /\ x.at = "loop" /\ x.test = n /\ x.kid = NoRun.kid
        /\ x.sent = NoRun.sent /\ x.out = NoRun.out /\ x.err = NoRun.err /\ x.verdicts = vs
    BY <1>5, <2>1, <2>2 DEF RunType
  <2> QED
    BY <2>3 DEF n
<1>7. NoRun.kid = NoPid /\ ~ NoRun.sent /\ NoRun.out = <<>> /\ NoRun.err = <<>>
  BY DEF NoRun
<1> HIDE DEF r
<1>8. run'[p] = r /\ run' \in [Pids -> RunType] /\ \A q \in Pids : q # p => run'[q] = run[q]
  BY <1>4, <1>6 DEF Typed, r
<1>9. run'[p].verdicts = Append(run[p].verdicts, v)
  BY <1>6, <1>8 DEF vs
<1> QED
  BY <1>3, <1>6, <1>7, <1>8, <1>9 DEF Concludes

\* An input was cut short before, or by this verdict
LEMMA ConcludeCut ==
  ASSUME Typed, NEW p \in Pids, NEW mark, Concludes(p, mark)
  PROVE  /\ Len(run'[p].verdicts) = Len(run[p].verdicts) + 1
         /\ CutBefore(p)' <=> CutBefore(p) \/ (run[p].at = "write" /\ run[p].sent)
<1> DEFINE old == run[p].verdicts
<1>1. PICK v \in Verdicts : /\ run'[p].verdicts = Append(old, v)
                            /\ v.cut <=> run[p].at = "write" /\ run[p].sent
  BY DEF Concludes
<1>2. old \in Seq(Verdicts)
  BY DEF Typed, RunType
<1>3. /\ Len(Append(old, v)) = Len(old) + 1 /\ Len(old) \in Nat
      /\ \A k \in 1..Len(old) : Append(old, v)[k] = old[k]
      /\ Append(old, v)[Len(old) + 1] = v
      /\ DOMAIN Append(old, v) = 1..(Len(old) + 1) /\ DOMAIN old = 1..Len(old)
  BY <1>2, AppendProperties
<1>4. CutBefore(p) <=> \E k \in 1..Len(old) : old[k].cut
  BY <1>3 DEF CutBefore, Range
<1>5. CutBefore(p)' <=> \E k \in 1..(Len(old) + 1) : Append(old, v)[k].cut
  BY <1>1, <1>3 DEF CutBefore, Range
<1>6. (\E k \in 1..(Len(old) + 1) : Append(old, v)[k].cut) <=> (\E k \in 1..Len(old) : old[k].cut) \/ v.cut
  BY <1>3
<1> QED
  BY <1>1, <1>3, <1>4, <1>5, <1>6

\* What moves or stays has the cuts it had
LEMMA SameCut ==
  ASSUME NEW p, run'[p].verdicts = run[p].verdicts
  PROVE  CutBefore(p)' <=> CutBefore(p)
BY DEF CutBefore

-----------------------------------------------------------------------------
(* What the steps of the runner do to the kernel.                              *)
Closes(p, rx, tx) ==
  /\ pipes' \in [PipeIds -> PipeType]
  /\ \A i \in PipeIds :
       /\ pipes'[i].data = pipes[i].data
       /\ \A q : q \in pipes'[i].readers <=> q \in pipes[i].readers /\ ~ (q = p /\ i \in rx)
       /\ \A q : q \in pipes'[i].writers <=> q \in pipes[i].writers /\ ~ (q = p /\ i \in tx)

Drains(from) ==
  /\ pipes' \in [PipeIds -> PipeType] /\ pipes'[from].data = <<>>
  /\ \A i \in PipeIds :
       /\ pipes'[i].readers = pipes[i].readers /\ pipes'[i].writers = pipes[i].writers
       /\ i # from => pipes'[i].data = pipes[i].data

Used(p) == {Pipe(p, "out"), Pipe(p, "err")}
             \union IF Test(p).input = Nothing THEN {} ELSE {Pipe(p, "in")}

SetsUp(p) ==
  /\ Moves(p, "fork")
  /\ run'[p].kid = run[p].kid /\ run'[p].left = run[p].left /\ run'[p].sent = run[p].sent
  /\ run'[p].out = run[p].out /\ run'[p].err = run[p].err
  /\ run'[p].ideal = Outcome(Test(p).options, files',
                             IF Test(p).input = Nothing THEN <<>> ELSE Test(p).input)
  /\ files' \in [Paths -> FileTexts] /\ files' = Made(Test(p))
  /\ pipes' \in [PipeIds -> PipeType]
  /\ \A i \in PipeIds : i \in Used(p) => /\ pipes'[i].data = <<>>
                                         /\ pipes'[i].readers = {p} /\ pipes'[i].writers = {p}
  /\ \A i \in PipeIds : i \notin Used(p) => pipes'[i] = pipes[i]

Forks(p, c) ==
  /\ c # p /\ life[c] = "free"
  /\ life' \in [Pids -> Lives] /\ life'[c] = "alive" /\ \A q \in Pids : q # c => life'[q] = life[q]
  /\ parent' \in [Pids -> Pids \union {NoPid}]
  /\ parent'[c] = p /\ \A q \in Pids : q # c => parent'[q] = parent[q]
  /\ std' \in [Pids -> StdType] /\ std'[c] = std[p] /\ \A q \in Pids : q # c => std'[q] = std[q]
  /\ pipes' \in [PipeIds -> PipeType]
  /\ \A i \in PipeIds :
       /\ pipes'[i].data = pipes[i].data
       /\ \A q : q \in pipes'[i].readers <=> q \in pipes[i].readers \/ (q = c /\ p \in pipes[i].readers)
       /\ \A q : q \in pipes'[i].writers <=> q \in pipes[i].writers \/ (q = c /\ p \in pipes[i].writers)
  /\ run' \in [Pids -> RunType] /\ \A q \in Pids : q # p /\ q # c => run'[q] = run[q]
  /\ run'[p] = [run[p] EXCEPT !.at = "send", !.kid = c]
  /\ run'[c] = [run[p] EXCEPT !.at = "child"]

Becomes(c) ==
  /\ parent[c] \in Pids /\ <<parent[c], run[c].test, "in">> \in PipeIds
  /\ <<parent[c], run[c].test, "out">> \in PipeIds /\ <<parent[c], run[c].test, "err">> \in PipeIds
  /\ Closes(c, {<<parent[c], run[c].test, "out">>, <<parent[c], run[c].test, "err">>},
               {<<parent[c], run[c].test, "in">>})
  /\ std' \in [Pids -> StdType] /\ \A q \in Pids : q # c => std'[q] = std[q]
  /\ std'[c].out = <<parent[c], run[c].test, "out">> /\ std'[c].err = <<parent[c], run[c].test, "err">>
  /\ std'[c].in = IF Test(c).input = Nothing THEN std[c].in ELSE <<parent[c], run[c].test, "in">>
  /\ \/ /\ onPath /\ run' \in [Pids -> RunType] /\ run'[c] = NoRun
        /\ \A q \in Pids : q # c => run'[q] = run[q] /\ job'[q] = job[q]
        /\ job' \in [Pids -> JobType] /\ job'[c] = Job(Test(c).options)
     \/ ~ onPath /\ Concludes(c, "FAILED") /\ UNCHANGED job

\* The steps that close ends
LEMMA ClosedStep ==
  ASSUME Typed, NEW p \in Pids, NEW rx, NEW tx, pipes' = Closed(pipes, p, rx, tx)
  PROVE  Closes(p, rx, tx)
<1>1. pipes \in [PipeIds -> PipeType]
  BY DEF Typed
<1>2. Closed(pipes, p, rx, tx) \in [PipeIds -> PipeType]
  BY <1>1, ClosedPipes
<1>3. ASSUME NEW i \in PipeIds
      PROVE  /\ pipes'[i].data = pipes[i].data
             /\ \A q : q \in pipes'[i].readers <=> q \in pipes[i].readers /\ ~ (q = p /\ i \in rx)
             /\ \A q : q \in pipes'[i].writers <=> q \in pipes[i].writers /\ ~ (q = p /\ i \in tx)
  BY <1>1, ClosedPipes
<1> QED
  BY <1>2, <1>3 DEF Closes

\* What is drained
LEMMA DrainStep ==
  ASSUME Typed, NEW from \in PipeIds, Drain(from) PROVE Drains(from)
BY DrainPipes DEF Drains

\* The files of a test
LEMMA MadeTyped ==
  ASSUME Typed, NEW t, IsTest(t) PROVE Made(t) \in [Paths -> FileTexts]
BY DEF Made, IsTest, Typed, FileTexts

\* SetUp
LEMMA SetUpFacts ==
  ASSUME Typed, NEW p \in Pids, SetUp(p) PROVE SetsUp(p)
<1>1. run[p].test <= Len(suite) /\ run[p] \in RunType
  BY DEF SetUp, Typed
<1>2. IsTest(Test(p))
  BY <1>1, TestFacts
<1> DEFINE t == Test(p)
<1> DEFINE stdin == IF t.input = Nothing THEN <<>> ELSE t.input
<1> DEFINE ideal == Outcome(t.options, files', stdin)
<1>3. files' = Made(t)
  BY DEF SetUp
<1>4. files' \in [Paths -> FileTexts]
  BY <1>2, <1>3, MadeTyped
<1>5. t.options \in Options /\ stdin \in Text
  BY <1>2, EmptyText DEF IsTest
<1>6. ideal \in Ideals
  BY <1>4, <1>5 DEF Ideals
<1>7. run' = [run EXCEPT ![p] = [run[p] EXCEPT !.at = "fork", !.ideal = ideal]]
  BY DEF SetUp
<1> HIDE DEF ideal
<1> DEFINE r == [run[p] EXCEPT !.at = "fork", !.ideal = ideal]
<1>8. /\ r \in RunType /\ r.at = "fork" /\ r.ideal = ideal /\ r.test = run[p].test
      /\ r.verdicts = run[p].verdicts /\ r.kid = run[p].kid /\ r.left = run[p].left
      /\ r.sent = run[p].sent /\ r.out = run[p].out /\ r.err = run[p].err
  BY <1>1, <1>6 DEF RunType, Stages
<1>9. run'[p] = r /\ run' \in [Pids -> RunType] /\ \A q \in Pids : q # p => run'[q] = run[q]
  BY <1>7, <1>8 DEF Typed
<1> HIDE DEF r
<1>10. pipes' = Opened(pipes, p, Used(p)) /\ pipes \in [PipeIds -> PipeType]
  BY DEF SetUp, Used, Typed
<1>11. pipes' \in [PipeIds -> PipeType]
  BY <1>10, OpenedPipes
<1>12. \A i \in PipeIds : i \in Used(p) => /\ pipes'[i].data = <<>>
                                          /\ pipes'[i].readers = {p} /\ pipes'[i].writers = {p}
  BY <1>10, OpenedPipes
<1>13. \A i \in PipeIds : i \notin Used(p) => pipes'[i] = pipes[i]
  BY <1>10, OpenedPipes
<1>14. Moves(p, "fork")
  BY <1>8, <1>9 DEF Moves
<1> QED
  BY <1>3, <1>4, <1>8, <1>9, <1>11, <1>12, <1>13, <1>14 DEF SetsUp, ideal

\* Fork
LEMMA ForkFacts ==
  ASSUME Typed, NEW p \in Pids, Fork(p), life[p] = "alive"
  PROVE  \E c \in Pids : Forks(p, c)
<1>1. PICK c \in {q \in Pids : life[q] = "free"} :
        /\ life' = [life EXCEPT ![c] = "alive"]
        /\ parent' = [parent EXCEPT ![c] = p]
        /\ std' = [std EXCEPT ![c] = std[p]]
        /\ pipes' = Shared(pipes, p, c)
        /\ run' = [run EXCEPT ![p].at = "send", ![p].kid = c, ![c] = [run[p] EXCEPT !.at = "child"]]
  BY DEF Fork
<1>2. c \in Pids /\ life[c] = "free" /\ c # p
  BY <1>1
<1>3. life' \in [Pids -> Lives] /\ life'[c] = "alive" /\ \A q \in Pids : q # c => life'[q] = life[q]
  BY <1>1, <1>2 DEF Typed, Lives
<1>4. /\ parent' \in [Pids -> Pids \union {NoPid}]
      /\ parent'[c] = p /\ \A q \in Pids : q # c => parent'[q] = parent[q]
  BY <1>1, <1>2 DEF Typed
<1>5. std' \in [Pids -> StdType] /\ std'[c] = std[p] /\ \A q \in Pids : q # c => std'[q] = std[q]
  BY <1>1, <1>2 DEF Typed
<1>6. pipes \in [PipeIds -> PipeType]
  BY DEF Typed
<1>7. pipes' \in [PipeIds -> PipeType]
  BY <1>1, <1>2, <1>6, SharedPipes
<1>8. ASSUME NEW i \in PipeIds
      PROVE  /\ pipes'[i].data = pipes[i].data
             /\ \A q : q \in pipes'[i].readers <=> q \in pipes[i].readers \/ (q = c /\ p \in pipes[i].readers)
             /\ \A q : q \in pipes'[i].writers <=> q \in pipes[i].writers \/ (q = c /\ p \in pipes[i].writers)
  BY <1>1, <1>2, <1>6, SharedPipes
<1> DEFINE r == [run[p] EXCEPT !.at = "send", !.kid = c]
<1> DEFINE s == [run[p] EXCEPT !.at = "child"]
<1>9. run[p] \in RunType /\ run \in [Pids -> RunType]
  BY DEF Typed
<1>10. r \in RunType /\ s \in RunType
  BY <1>2, <1>9 DEF RunType, Stages
<1>11. run' = [run EXCEPT ![p] = r, ![c] = s]
  BY <1>1, <1>2, <1>9
<1> HIDE DEF r, s
<1>12. /\ run' \in [Pids -> RunType] /\ run'[p] = r /\ run'[c] = s
       /\ \A q \in Pids : q # p /\ q # c => run'[q] = run[q]
  BY <1>2, <1>9, <1>10, <1>11
<1>13. Forks(p, c)
  BY <1>2, <1>3, <1>4, <1>5, <1>7, <1>8, <1>12 DEF Forks, r, s
<1> QED
  BY <1>2, <1>13

\* Exec, by a process that was forked for a test of its parent
LEMMA ExecFacts ==
  ASSUME Typed, NEW c \in Pids, Exec(c), parent[c] \in Pids, run[c].test <= Len(suite)
  PROVE  Becomes(c)
<1> DEFINE in == <<parent[c], run[c].test, "in">>
<1> DEFINE out == <<parent[c], run[c].test, "out">>
<1> DEFINE err == <<parent[c], run[c].test, "err">>
<1>1. IsTest(Test(c)) /\ run[c].test \in Runs
  BY TestFacts
<1>2. in \in PipeIds /\ out \in PipeIds /\ err \in PipeIds
  BY <1>1, PipeIn DEF Ends
<1>3. Closes(c, {out, err}, {in})
  BY ClosedStep DEF Exec
<1> DEFINE new == [in |-> IF Test(c).input = Nothing THEN std[c].in ELSE in, out |-> out, err |-> err]
<1>4. new \in StdType
  BY <1>2 DEF Typed, StdType, Streams
<1>5. std' = [std EXCEPT ![c] = new]
  BY DEF Exec
<1>6. std' \in [Pids -> StdType] /\ std'[c] = new /\ \A q \in Pids : q # c => std'[q] = std[q]
  BY <1>4, <1>5 DEF Typed
<1>7. CASE onPath
  <2>1. run' = [run EXCEPT ![c] = NoRun] /\ job' = [job EXCEPT ![c] = Job(Test(c).options)]
    BY <1>7 DEF Exec
  <2>2. Job(Test(c).options) \in JobType
    BY <1>1, EmptyText DEF Job, JobType, JobStages, IsTest, Cocktails
  <2>3. /\ run' \in [Pids -> RunType] /\ run'[c] = NoRun
        /\ \A q \in Pids : q # c => run'[q] = run[q] /\ job'[q] = job[q]
        /\ job' \in [Pids -> JobType] /\ job'[c] = Job(Test(c).options)
    BY <2>1, <2>2, NoRunTyped DEF Typed
  <2> QED
    BY <1>2, <1>3, <1>6, <1>7, <2>3 DEF Becomes
<1>8. CASE ~ onPath
  <2>1. Concludes(c, "FAILED") /\ UNCHANGED job
    BY <1>8, ConcludeFacts DEF Exec, Fail
  <2> QED
    BY <1>2, <1>3, <1>6, <1>8, <2>1 DEF Becomes
<1> QED
  BY <1>7, <1>8

Sends(p) ==
  \/ Test(p).input = Nothing /\ Moves(p, "shut") /\ Keeps(p) /\ UNCHANGED pipes
  \/ /\ Test(p).input # Nothing /\ Moves(p, "write") /\ run'[p].left = Test(p).input
     /\ run'[p].kid = run[p].kid /\ run'[p].sent = run[p].sent /\ run'[p].out = run[p].out
     /\ run'[p].err = run[p].err /\ run'[p].ideal = run[p].ideal
     /\ Closes(p, {Pipe(p, "in")}, {})

\* A part of the input goes into the pipe, as much as fits
Passes(p, part) ==
  /\ run[p].left = part \o run'[p].left /\ part # <<>>
  /\ pipes'[Pipe(p, "in")].data = pipes[Pipe(p, "in")].data \o part
  /\ Len(pipes'[Pipe(p, "in")].data) <= PipeSize
  /\ run'[p].left # <<>> => Len(pipes'[Pipe(p, "in")].data) = PipeSize

WritesInput(p) ==
  \/ /\ pipes[Pipe(p, "in")].readers = {} /\ run[p].left # <<>> /\ run[p].sent
     /\ Concludes(p, "FAILED") /\ UNCHANGED pipes
  \/ /\ pipes[Pipe(p, "in")].readers = {} /\ run[p].left # <<>> /\ ~ run[p].sent
     /\ Moves(p, "shut") /\ Keeps(p) /\ UNCHANGED pipes
  \/ run[p].left = <<>> /\ Moves(p, "shut") /\ Keeps(p) /\ UNCHANGED pipes
  \/ /\ pipes[Pipe(p, "in")].readers # {}
     /\ Moves(p, IF run'[p].left = <<>> THEN "shut" ELSE "write") /\ run'[p].sent
     /\ run'[p].kid = run[p].kid /\ run'[p].out = run[p].out
     /\ run'[p].err = run[p].err /\ run'[p].ideal = run[p].ideal
     /\ \E part \in Text : Passes(p, part)
     /\ pipes' \in [PipeIds -> PipeType]
     /\ \A i \in PipeIds :
          /\ pipes'[i].readers = pipes[i].readers /\ pipes'[i].writers = pipes[i].writers
          /\ i # Pipe(p, "in") => pipes'[i].data = pipes[i].data

\* Of what a runner has, but its stage and its status, which wait gives it
KeepsBut(p) ==
  /\ run'[p].kid = run[p].kid /\ run'[p].sent = run[p].sent
  /\ run'[p].out = run[p].out /\ run'[p].err = run[p].err /\ run'[p].ideal = run[p].ideal

Reaps(p, c) ==
  /\ c \in Zombies(p) /\ life' \in [Pids -> Lives]
  /\ life'[c] = "reaped" /\ \A q \in Pids : q # c => life'[q] = life[q]
  /\ \/ c = run[p].kid /\ Moves(p, "out") /\ KeepsBut(p) /\ run'[p].status = life[c]
     \/ c # run[p].kid /\ Concludes(p, "FAILED")

Waits(p) ==
  \/ \E c \in Pids : Reaps(p, c)
  \/ /\ Children(p) = {} /\ UNCHANGED life
     /\ \/ run[p].kid = NoPid /\ Moves(p, "out") /\ KeepsBut(p)
        \/ run[p].kid # NoPid /\ Concludes(p, "FAILED")

ReadsOut(p) ==
  \/ /\ Moves(p, "out") /\ Drains(Pipe(p, "out"))
     /\ run'[p].out = run[p].out \o pipes[Pipe(p, "out")].data
     /\ run'[p].kid = run[p].kid /\ run'[p].sent = run[p].sent /\ run'[p].err = run[p].err
     /\ run'[p].status = run[p].status /\ run'[p].ideal = run[p].ideal
  \/ /\ AtEof(Pipe(p, "out")) /\ Closes(p, {Pipe(p, "out")}, {})
     /\ Moves(p, "err") /\ Keeps(p)

ReadsErr(p) ==
  \/ /\ Moves(p, "err") /\ Drains(Pipe(p, "err"))
     /\ run'[p].err = run[p].err \o pipes[Pipe(p, "err")].data
     /\ run'[p].kid = run[p].kid /\ run'[p].sent = run[p].sent /\ run'[p].out = run[p].out
     /\ run'[p].status = run[p].status /\ run'[p].ideal = run[p].ideal
  \/ /\ AtEof(Pipe(p, "err")) /\ Closes(p, {Pipe(p, "err")}, {})
     /\ Moves(p, "judge") /\ Keeps(p)

Prints(p) ==
  /\ pipes' \in [PipeIds -> PipeType]
  /\ \A i \in PipeIds :
       /\ pipes'[i].readers = pipes[i].readers /\ pipes'[i].writers = pipes[i].writers
       /\ \/ pipes'[i].data = pipes[i].data
          \/ /\ i = std[p].out /\ Len(pipes[i].data) < PipeSize
             /\ pipes'[i].data = Append(pipes[i].data, "TAP")

\* The smaller of two numbers
LEMMA MinOfTwo ==
  ASSUME NEW a \in Nat, NEW b \in Nat
  PROVE  /\ Min({a, b}) \in Nat /\ Min({a, b}) <= a /\ Min({a, b}) <= b
         /\ Min({a, b}) = a \/ Min({a, b}) = b
<1>1. \E x \in {a, b} : \A y \in {a, b} : x <= y
  <2>1. CASE a <= b
    BY <2>1
  <2>2. CASE ~ (a <= b)
    BY <2>2
  <2> QED
    BY <2>1, <2>2
<1>2. Min({a, b}) \in {a, b} /\ \A y \in {a, b} : Min({a, b}) <= y
  BY <1>1 DEF Min
<1> QED
  BY <1>2

\* Send
LEMMA SendFacts ==
  ASSUME Typed, NEW p \in Pids, Send(p), run[p].test <= Len(suite)
  PROVE  Sends(p)
<1>1. CASE Test(p).input = Nothing
  <2>1. Step(p, "shut") /\ UNCHANGED pipes
    BY <1>1 DEF Send
  <2> QED
    BY <1>1, <2>1, StepMoves DEF Sends, Stages
<1>2. CASE Test(p).input # Nothing
  <2>1. Test(p).input \in Text /\ run[p] \in RunType
    BY <1>2, TestFacts DEF IsTest, Typed
  <2> DEFINE r == [run[p] EXCEPT !.at = "write", !.left = Test(p).input]
  <2>2. /\ r \in RunType /\ r.at = "write" /\ r.left = Test(p).input /\ r.test = run[p].test
        /\ r.verdicts = run[p].verdicts /\ r.kid = run[p].kid /\ r.sent = run[p].sent
        /\ r.out = run[p].out /\ r.err = run[p].err /\ r.ideal = run[p].ideal
    BY <2>1 DEF RunType, Stages
  <2>3. run' = [run EXCEPT ![p] = r]
    BY <1>2 DEF Send
  <2> HIDE DEF r
  <2>4. run'[p] = r /\ run' \in [Pids -> RunType] /\ \A q \in Pids : q # p => run'[q] = run[q]
    BY <2>2, <2>3 DEF Typed
  <2>5. Closes(p, {Pipe(p, "in")}, {})
    BY <1>2, ClosedStep DEF Send
  <2> QED
    BY <1>2, <2>2, <2>4, <2>5 DEF Sends, Moves
<1> QED
  BY <1>1, <1>2

\* WriteInput
LEMMA WriteInputFacts ==
  ASSUME Typed, KernelInv, NEW p \in Pids, WriteInput(p), run[p].test <= Len(suite)
  PROVE  WritesInput(p)
<1> DEFINE in == Pipe(p, "in")
<1> DEFINE n == Min({PipeSize - Len(pipes[in].data), Len(run[p].left)})
<1> DEFINE left == SubSeq(run[p].left, n + 1, Len(run[p].left))
<1> DEFINE part == SubSeq(run[p].left, 1, n)
<1>1. CASE pipes[in].readers = {} /\ run[p].left # <<>> /\ UNCHANGED pipes
           /\ IF run[p].sent THEN Fail(p) ELSE Step(p, "shut")
  <2>1. CASE run[p].sent
    BY <1>1, <2>1, ConcludeFacts DEF WritesInput, Fail
  <2>2. CASE ~ run[p].sent
    BY <1>1, <2>2, StepMoves DEF WritesInput, Stages
  <2> QED
    BY <2>1, <2>2
<1>2. CASE run[p].left = <<>> /\ Step(p, "shut") /\ UNCHANGED pipes
  BY <1>2, StepMoves DEF WritesInput, Stages
<1>3. CASE /\ pipes[in].readers # {} /\ n > 0
           /\ pipes' = [pipes EXCEPT ![in].data = @ \o part]
           /\ run' = [run EXCEPT ![p].left = left, ![p].sent = TRUE,
                                 ![p].at = IF left = <<>> THEN "shut" ELSE "write"]
  <2>1. in \in PipeIds /\ run[p] \in RunType /\ run[p].left \in Text
    BY TestFacts DEF Typed, RunType
  <2>2. pipes[in] \in PipeType /\ pipes[in].data \in Text /\ Len(pipes[in].data) <= PipeSize
    BY <2>1 DEF Typed, PipeType, KernelInv
  <2>3. Len(run[p].left) \in Nat /\ Len(pipes[in].data) \in Nat /\ PipeSize \in Nat
    BY <2>1, <2>2, LenText, ProcessesAssumption
  <2>4. PipeSize - Len(pipes[in].data) \in Nat
    BY <2>2, <2>3
  <2>5. /\ n \in Nat /\ n <= PipeSize - Len(pipes[in].data) /\ n <= Len(run[p].left)
        /\ n = PipeSize - Len(pipes[in].data) \/ n = Len(run[p].left)
    BY <2>3, <2>4, MinOfTwo
  <2> HIDE DEF n
  <2>6. n \in 0..Len(run[p].left)
    BY <2>3, <2>5
  <2>7. /\ part \in Text /\ left \in Text /\ Len(part) = n /\ Len(left) = Len(run[p].left) - n
        /\ run[p].left = part \o left
    BY <2>1, <2>6, SplitText
  <2> HIDE DEF part, left
  <2>8. part # <<>>
    BY <1>3, <2>5, <2>7, LenText
  <2> DEFINE r == [run[p] EXCEPT !.left = left, !.sent = TRUE,
                                 !.at = IF left = <<>> THEN "shut" ELSE "write"]
  <2>9. /\ r \in RunType /\ r.left = left /\ r.sent /\ r.at = IF left = <<>> THEN "shut" ELSE "write"
        /\ r.test = run[p].test /\ r.verdicts = run[p].verdicts /\ r.kid = run[p].kid
        /\ r.out = run[p].out /\ r.err = run[p].err /\ r.ideal = run[p].ideal
    BY <2>1, <2>7 DEF RunType, Stages
  <2>10. run' = [run EXCEPT ![p] = r]
    BY <1>3
  <2> HIDE DEF r
  <2>11. run'[p] = r /\ run' \in [Pids -> RunType] /\ \A q \in Pids : q # p => run'[q] = run[q]
    BY <2>9, <2>10 DEF Typed
  <2>12. Moves(p, IF run'[p].left = <<>> THEN "shut" ELSE "write")
    BY <2>9, <2>11 DEF Moves
  <2> DEFINE data == pipes[in].data \o part
  <2>13. data \in Text /\ Len(data) = Len(pipes[in].data) + n
    BY <2>2, <2>7, ConcatText
  <2>14. pipes' = [pipes EXCEPT ![in] = [pipes[in] EXCEPT !.data = data]]
    BY <1>3
  <2> HIDE DEF data
  <2>15. /\ [pipes[in] EXCEPT !.data = data] \in PipeType
         /\ [pipes[in] EXCEPT !.data = data].data = data
         /\ [pipes[in] EXCEPT !.data = data].readers = pipes[in].readers
         /\ [pipes[in] EXCEPT !.data = data].writers = pipes[in].writers
    BY <2>2, <2>13 DEF PipeType
  <2>16. pipes \in [PipeIds -> PipeType]
    BY DEF Typed
  <2>17. /\ pipes' \in [PipeIds -> PipeType] /\ pipes'[in].data = data
         /\ \A i \in PipeIds :
              /\ pipes'[i].readers = pipes[i].readers /\ pipes'[i].writers = pipes[i].writers
              /\ i # in => pipes'[i].data = pipes[i].data
    BY <2>1, <2>14, <2>15, <2>16
  <2>18. Len(data) <= PipeSize /\ (left # <<>> => Len(data) = PipeSize)
    BY <2>3, <2>5, <2>7, <2>13, LenText
  <2>19. Passes(p, part)
    BY <2>7, <2>8, <2>9, <2>11, <2>17, <2>18 DEF Passes, data
  <2> QED
    BY <1>3, <2>7, <2>9, <2>11, <2>12, <2>17, <2>19 DEF WritesInput
<1> QED
  BY <1>1, <1>2, <1>3 DEF WriteInput

\* A record of a runner whose status wait gives
LEMMA StatusMoves ==
  ASSUME Typed, NEW p \in Pids, NEW s \in {"exited", "killed"},
         run' = [run EXCEPT ![p].at = "out", ![p].status = s]
  PROVE  Moves(p, "out") /\ KeepsBut(p) /\ run'[p].status = s
<1> DEFINE r == [run[p] EXCEPT !.at = "out", !.status = s]
<1>1. run[p] \in RunType
  BY DEF Typed
<1>2. /\ r \in RunType /\ r.at = "out" /\ r.status = s /\ r.test = run[p].test
      /\ r.verdicts = run[p].verdicts /\ r.kid = run[p].kid /\ r.sent = run[p].sent
      /\ r.out = run[p].out /\ r.err = run[p].err /\ r.ideal = run[p].ideal
  BY <1>1 DEF RunType, Stages
<1>3. run' = [run EXCEPT ![p] = r]
  OBVIOUS
<1> HIDE DEF r
<1>4. run'[p] = r /\ run' \in [Pids -> RunType] /\ \A q \in Pids : q # p => run'[q] = run[q]
  BY <1>2, <1>3 DEF Typed
<1> QED
  BY <1>2, <1>4 DEF Moves, KeepsBut

\* Wait
LEMMA WaitFacts ==
  ASSUME Typed, NEW p \in Pids, Wait(p)
  PROVE  Waits(p)
<1>1. ASSUME NEW c \in Zombies(p), life' = [life EXCEPT ![c] = "reaped"],
             IF c = run[p].kid THEN run' = [run EXCEPT ![p].at = "out", ![p].status = life[c]]
             ELSE Fail(p)
      PROVE  Waits(p)
  <2>1. c \in Pids /\ life[c] \in {"exited", "killed"}
    BY <1>1 DEF Zombies
  <2>2. /\ life' \in [Pids -> Lives] /\ life'[c] = "reaped"
        /\ \A q \in Pids : q # c => life'[q] = life[q]
    BY <1>1, <2>1 DEF Typed, Lives
  <2>3. CASE c = run[p].kid
    <3>1. Moves(p, "out") /\ KeepsBut(p) /\ run'[p].status = life[c]
      BY <1>1, <2>1, <2>3, StatusMoves
    <3> QED
      BY <1>1, <2>1, <2>2, <2>3, <3>1 DEF Waits, Reaps
  <2>4. CASE c # run[p].kid
    BY <1>1, <2>1, <2>2, <2>4, ConcludeFacts DEF Waits, Reaps, Fail
  <2> QED
    BY <2>3, <2>4
<1>2. CASE /\ Children(p) = {} /\ UNCHANGED life
           /\ IF run[p].kid = NoPid
              THEN \E any \in {"exited", "killed"} :
                     run' = [run EXCEPT ![p].at = "out", ![p].status = any]
              ELSE Fail(p)
  <2>1. CASE run[p].kid = NoPid
    BY <1>2, <2>1, StatusMoves DEF Waits
  <2>2. CASE run[p].kid # NoPid
    BY <1>2, <2>2, ConcludeFacts DEF Waits, Fail
  <2> QED
    BY <2>1, <2>2
<1> QED
  BY <1>1, <1>2 DEF Wait

\* ReadOut
LEMMA ReadOutFacts ==
  ASSUME Typed, NEW p \in Pids, ReadOut(p), run[p].test <= Len(suite)
  PROVE  ReadsOut(p)
<1> DEFINE out == Pipe(p, "out")
<1>1. out \in PipeIds /\ run[p] \in RunType /\ run[p].out \in Text /\ pipes[out].data \in Text
      /\ run[p].at = "out"
  BY TestFacts DEF Typed, RunType, PipeType, ReadOut, Running
<1>2. CASE Drain(out) /\ run' = [run EXCEPT ![p].out = @ \o pipes[out].data]
  <2> DEFINE text == run[p].out \o pipes[out].data
  <2>1. text \in Text
    BY <1>1, ConcatText
  <2>2. run' = [run EXCEPT ![p] = [run[p] EXCEPT !.out = text]]
    BY <1>2
  <2> HIDE DEF text
  <2> DEFINE r == [run[p] EXCEPT !.out = text]
  <2>3. /\ r \in RunType /\ r.at = "out" /\ r.out = text /\ r.status = run[p].status
        /\ r.test = run[p].test
        /\ r.verdicts = run[p].verdicts /\ r.kid = run[p].kid /\ r.sent = run[p].sent
        /\ r.err = run[p].err /\ r.ideal = run[p].ideal
    BY <1>1, <2>1 DEF RunType, Stages
  <2> HIDE DEF r
  <2>4. run'[p] = r /\ run' \in [Pids -> RunType] /\ \A q \in Pids : q # p => run'[q] = run[q]
    BY <2>2, <2>3 DEF Typed, r
  <2>5. Moves(p, "out")
    BY <2>3, <2>4 DEF Moves
  <2>6. Drains(out)
    BY <1>1, <1>2, DrainStep
  <2> QED
    BY <2>3, <2>4, <2>5, <2>6 DEF ReadsOut, text
<1>3. CASE AtEof(out) /\ pipes' = Closed(pipes, p, {out}, {}) /\ Step(p, "err")
  <2>1. Closes(p, {out}, {})
    BY <1>3, ClosedStep
  <2>2. Moves(p, "err") /\ Keeps(p)
    BY <1>3, StepMoves DEF Stages
  <2> QED
    BY <1>3, <2>1, <2>2 DEF ReadsOut
<1> QED
  BY <1>2, <1>3 DEF ReadOut

\* ReadErr
LEMMA ReadErrFacts ==
  ASSUME Typed, NEW p \in Pids, ReadErr(p), run[p].test <= Len(suite)
  PROVE  ReadsErr(p)
<1> DEFINE err == Pipe(p, "err")
<1>1. err \in PipeIds /\ run[p] \in RunType /\ run[p].err \in Text /\ pipes[err].data \in Text
      /\ run[p].at = "err"
  BY TestFacts DEF Typed, RunType, PipeType, ReadErr, Running
<1>2. CASE Drain(err) /\ run' = [run EXCEPT ![p].err = @ \o pipes[err].data]
  <2> DEFINE text == run[p].err \o pipes[err].data
  <2>1. text \in Text
    BY <1>1, ConcatText
  <2>2. run' = [run EXCEPT ![p] = [run[p] EXCEPT !.err = text]]
    BY <1>2
  <2> HIDE DEF text
  <2> DEFINE r == [run[p] EXCEPT !.err = text]
  <2>3. /\ r \in RunType /\ r.at = "err" /\ r.err = text /\ r.status = run[p].status
        /\ r.test = run[p].test
        /\ r.verdicts = run[p].verdicts /\ r.kid = run[p].kid /\ r.sent = run[p].sent
        /\ r.out = run[p].out /\ r.ideal = run[p].ideal
    BY <1>1, <2>1 DEF RunType, Stages
  <2> HIDE DEF r
  <2>4. run'[p] = r /\ run' \in [Pids -> RunType] /\ \A q \in Pids : q # p => run'[q] = run[q]
    BY <2>2, <2>3 DEF Typed, r
  <2>5. Moves(p, "err")
    BY <2>3, <2>4 DEF Moves
  <2>6. Drains(err)
    BY <1>1, <1>2, DrainStep
  <2> QED
    BY <2>3, <2>4, <2>5, <2>6 DEF ReadsErr, text
<1>3. CASE AtEof(err) /\ pipes' = Closed(pipes, p, {err}, {}) /\ Step(p, "judge")
  <2>1. Closes(p, {err}, {})
    BY <1>3, ClosedStep
  <2>2. Moves(p, "judge") /\ Keeps(p)
    BY <1>3, StepMoves DEF Stages
  <2> QED
    BY <1>3, <2>1, <2>2 DEF ReadsErr
<1> QED
  BY <1>2, <1>3 DEF ReadErr

\* FlushTap, where the results go
LEMMA FlushTapFacts ==
  ASSUME Typed, NEW p \in Pids, FlushTap(p)
  PROVE  Prints(p) /\ Moves(p, "return") /\ Keeps(p)
<1>1. std[p].out \in Streams /\ "TAP" \in Chunks /\ pipes \in [PipeIds -> PipeType]
  BY HarnessAssumption DEF Typed, StdType
<1>2. Prints(p)
  <2>1. CASE UNCHANGED pipes
    BY <1>1, <2>1 DEF Prints
  <2>2. CASE Write("TAP", std[p].out)
    <3>1. /\ pipes' \in [PipeIds -> PipeType]
          /\ \A i \in PipeIds :
               /\ pipes'[i].readers = pipes[i].readers /\ pipes'[i].writers = pipes[i].writers
               /\ \/ pipes'[i].data = pipes[i].data
                  \/ /\ i = std[p].out /\ Len(pipes[i].data) < PipeSize
                     /\ pipes'[i].data = Append(pipes[i].data, "TAP")
      BY <1>1, <2>2, WritePipes
    <3> QED
      BY <3>1 DEF Prints
  <2> QED
    BY <2>1, <2>2 DEF FlushTap
<1>3. Moves(p, "return") /\ Keeps(p)
  BY StepMoves DEF FlushTap, Stages
<1> QED
  BY <1>2, <1>3

-----------------------------------------------------------------------------
(* The steps of a runner, each with where it is taken and what it leaves.      *)
Settled == UNCHANGED <<life, parent, std, job>>

IsSkip(p)      == /\ run[p].at = "loop" /\ run[p].test <= Len(suite)
                  /\ Concludes(p, "SKIPPED") /\ Settled /\ UNCHANGED <<pipes, files, tap>>
IsSetUp(p)     == /\ run[p].at = "loop" /\ run[p].test <= Len(suite)
                  /\ SetsUp(p) /\ Settled /\ UNCHANGED tap
IsFork(p)      == /\ run[p].at = "fork"
                  /\ \E c \in Pids : Forks(p, c)
                  /\ UNCHANGED <<files, job, tap>>
IsForkFails(p) == /\ run[p].at = "fork"
                  /\ Moves(p, "send") /\ Keeps(p) /\ Settled /\ UNCHANGED <<pipes, files, tap>>
IsExec(p)      == /\ run[p].at = "child" /\ p # Root
                  /\ Becomes(p) /\ UNCHANGED <<life, parent, files, tap>>
IsSend(p)      == /\ run[p].at = "send"
                  /\ Sends(p) /\ Settled /\ UNCHANGED <<files, tap>>
IsWrite(p)     == /\ run[p].at = "write"
                  /\ WritesInput(p) /\ Settled /\ UNCHANGED <<files, tap>>
IsShut(p)      == /\ run[p].at = "shut"
                  /\ Moves(p, "wait") /\ Keeps(p) /\ Settled /\ UNCHANGED <<files, tap>>
                  /\ Closes(p, {}, {Pipe(p, "in"), Pipe(p, "out"), Pipe(p, "err")})
IsWait(p)      == /\ run[p].at = "wait"
                  /\ Waits(p) /\ UNCHANGED <<parent, std, pipes, files, job, tap>>
IsReadOut(p)   == /\ run[p].at = "out"
                  /\ ReadsOut(p) /\ Settled /\ UNCHANGED <<files, tap>>
IsReadErr(p)   == /\ run[p].at = "err"
                  /\ ReadsErr(p) /\ Settled /\ UNCHANGED <<files, tap>>
IsJudge(p)     == /\ run[p].at = "judge"
                  /\ Concludes(p, IF Meets(Test(p), [status |-> run[p].status, out |-> run[p].out,
                                                     err |-> run[p].err, files |-> files])
                                  THEN "PASSED" ELSE "FAILED")
                  /\ Settled /\ UNCHANGED <<pipes, files, tap>>
IsFlushTap(p)  == /\ run[p].at = "loop" /\ run[p].test > Len(suite)
                  /\ Prints(p) /\ Moves(p, "return") /\ Keeps(p) /\ Settled /\ UNCHANGED files
                  /\ IF std[p].out = Terminal
                     THEN tap' = Append(tap, run[p].verdicts) /\ UNCHANGED pipes
                     ELSE Write("TAP", std[p].out) /\ UNCHANGED tap
IsReturn(p)    == /\ run[p].at = "return"
                  /\ life' \in [Pids -> Lives] /\ life'[p] = "exited"
                  /\ \A q \in Pids : q # p => life'[q] = life[q]
                  /\ Closes(p, PipeIds, PipeIds)
                  /\ UNCHANGED <<parent, std, files, job, run, tap>>

RunnerStep(p) ==
  /\ life[p] = "alive" /\ UNCHANGED <<suite, onPath>>
  /\ \/ IsSkip(p) \/ IsSetUp(p) \/ IsFork(p) \/ IsForkFails(p) \/ IsExec(p) \/ IsSend(p)
     \/ IsWrite(p) \/ IsShut(p) \/ IsWait(p) \/ IsReadOut(p) \/ IsReadErr(p) \/ IsJudge(p)
     \/ IsFlushTap(p) \/ IsReturn(p)

\* Every step of a runner is one of these
LEMMA AnyRunnerStep ==
  ASSUME Typed, KernelInv, FamilyInv, RunInv, RootInv, NEW p \in Pids, Runner(p)
  PROVE  RunnerStep(p)
<1>1. CASE Skip(p)
  BY <1>1, ConcludeFacts DEF Skip, Running, IsSkip, RunnerStep, Settled, kernel, Suite
<1>2. CASE SetUp(p)
  BY <1>2, SetUpFacts DEF SetUp, Running, IsSetUp, RunnerStep, Settled, Suite
<1>3. CASE Fork(p)
  BY <1>3, ForkFacts DEF Fork, Running, IsFork, RunnerStep, Suite
<1>4. CASE ForkFails(p)
  BY <1>4, StepMoves DEF ForkFails, Running, IsForkFails, RunnerStep, Settled, kernel, Suite, Stages
<1>5. CASE Exec(p)
  <2>1. life[p] = "alive" /\ run[p].at = "child"
    BY <1>5 DEF Exec, Running
  <2>2. p # Root /\ run[p].test <= Len(suite)
    BY <2>1 DEF RootInv, RunInv, RunnerInv
  <2>3. parent[p] \in Pids
    BY <2>1, <2>2 DEF FamilyInv, Typed
  <2>4. Becomes(p)
    BY <1>5, <2>2, <2>3, ExecFacts
  <2> QED
    BY <1>5, <2>1, <2>2, <2>4 DEF Exec, IsExec, RunnerStep, Suite
<1>6. CASE Send(p)
  <2>1. run[p].test <= Len(suite)
    BY <1>6 DEF RunInv, RunnerInv, Send, Running
  <2> QED
    BY <1>6, <2>1, SendFacts DEF Send, Running, IsSend, RunnerStep, Settled, Suite
<1>7. CASE WriteInput(p)
  <2>1. run[p].test <= Len(suite)
    BY <1>7 DEF RunInv, RunnerInv, WriteInput, Running
  <2>2. WritesInput(p)
    BY <1>7, <2>1, WriteInputFacts
  <2>3. /\ life[p] = "alive" /\ run[p].at = "write"
        /\ UNCHANGED <<life, parent, std, files, job, Suite>>
    BY <1>7 DEF WriteInput, Running
  <2> QED
    BY <2>2, <2>3 DEF IsWrite, RunnerStep, Settled, Suite
<1>8. CASE Shut(p)
  BY <1>8, StepMoves, ClosedStep DEF Shut, Running, IsShut, RunnerStep, Settled, Suite, Stages
<1>9. CASE Wait(p)
  BY <1>9, WaitFacts DEF Wait, Running, IsWait, RunnerStep, Suite
<1>10. CASE ReadOut(p)
  <2>1. run[p].test <= Len(suite)
    BY <1>10 DEF RunInv, RunnerInv, ReadOut, Running
  <2> QED
    BY <1>10, <2>1, ReadOutFacts DEF ReadOut, Running, IsReadOut, RunnerStep, Settled, Suite
<1>11. CASE ReadErr(p)
  <2>1. run[p].test <= Len(suite)
    BY <1>11 DEF RunInv, RunnerInv, ReadErr, Running
  <2> QED
    BY <1>11, <2>1, ReadErrFacts DEF ReadErr, Running, IsReadErr, RunnerStep, Settled, Suite
<1>12. CASE Judge(p)
  <2> DEFINE mark == IF Meets(Test(p), [status |-> run[p].status, out |-> run[p].out,
                                        err |-> run[p].err, files |-> files])
                     THEN "PASSED" ELSE "FAILED"
  <2>1. Conclude(p, mark)
    BY <1>12 DEF Judge
  <2>2. mark \in {"SKIPPED", "PASSED", "FAILED"}
    OBVIOUS
  <2>3. Concludes(p, mark)
    BY <2>1, <2>2, ConcludeFacts
  <2> QED
    BY <1>12, <2>3 DEF Judge, Running, IsJudge, RunnerStep, Settled, kernel, Suite
<1>13. CASE FlushTap(p)
  BY <1>13, FlushTapFacts DEF FlushTap, Running, IsFlushTap, RunnerStep, Settled
<1>14. CASE Return(p)
  <2>1. End(p, "exited") /\ life[p] = "alive" /\ run[p].at = "return" /\ UNCHANGED <<job, run, Suite>>
    BY <1>14 DEF Return, Running
  <2>2. /\ life' \in [Pids -> Lives] /\ life'[p] = "exited"
        /\ \A q \in Pids : q # p => life'[q] = life[q]
    BY <2>1, EndPipes
  <2>3. Closes(p, PipeIds, PipeIds)
    BY <2>1, ClosedStep DEF End
  <2> QED
    BY <2>1, <2>2, <2>3 DEF End, IsReturn, RunnerStep, Suite
<1> QED
  BY <1>1, <1>2, <1>3, <1>4, <1>5, <1>6, <1>7, <1>8, <1>9, <1>10, <1>11, <1>12, <1>13, <1>14 DEF Runner

-----------------------------------------------------------------------------
(* Every step keeps every part of the invariant.                               *)

\* A step of a runner leaves the other processes what they are, but for a child
LEMMA OthersStay ==
  ASSUME Typed, NEW p \in Pids, RunnerStep(p), NEW q \in Pids, q # p
  PROVE  \/ /\ run'[q] = run[q] /\ job'[q] = job[q] /\ std'[q] = std[q] /\ parent'[q] = parent[q]
            /\ life'[q] = "alive" <=> life[q] = "alive"
            /\ life'[q] = "free" <=> life[q] = "free"
            /\ ~ Forks(p, q)
         \/ run[p].at = "fork" /\ Forks(p, q) /\ UNCHANGED <<files, job, tap>>
<1>1. CASE IsFork(p)
  <2>1. PICK c \in Pids : Forks(p, c)
    BY <1>1 DEF IsFork
  <2>2. CASE q = c
    BY <1>1, <2>1, <2>2 DEF IsFork
  <2>3. CASE q # c
    <3>1. life'[q] = life[q] /\ run'[q] = run[q] /\ std'[q] = std[q] /\ parent'[q] = parent[q]
      BY <2>1, <2>3 DEF Forks
    <3>2. UNCHANGED job
      BY <1>1 DEF IsFork
    <3>3. ~ Forks(p, q)
      BY <3>1 DEF Forks
    <3> QED
      BY <3>1, <3>2, <3>3
  <2> QED
    BY <2>2, <2>3
<1>2. CASE IsWait(p)
  <2>1. CASE \E c \in Pids : Reaps(p, c)
    <3>1. PICK c \in Pids : Reaps(p, c)
      BY <2>1
    <3>2. life[c] \in {"exited", "killed"} /\ run'[q] = run[q]
      BY <3>1 DEF Reaps, Zombies, Moves, Concludes
    <3>3. life'[c] = "reaped" /\ \A r \in Pids : r # c => life'[r] = life[r]
      BY <3>1 DEF Reaps
    <3>4. UNCHANGED <<parent, std, job>>
      BY <1>2 DEF IsWait
    <3>5. ~ Forks(p, q)
      BY <3>3 DEF Forks
    <3> QED
      BY <3>2, <3>3, <3>4, <3>5
  <2>2. CASE UNCHANGED life /\ run'[q] = run[q]
    BY <1>2, <2>2 DEF IsWait, Forks
  <2> QED
    BY <1>2, <2>1, <2>2 DEF IsWait, Waits, Moves, Concludes
<1>3. CASE IsReturn(p)
  BY <1>3 DEF IsReturn, Forks
<1>4. CASE IsExec(p)
  <2>1. UNCHANGED <<life, parent>> /\ std'[q] = std[q] /\ run'[q] = run[q] /\ job'[q] = job[q]
    BY <1>4 DEF IsExec, Becomes, Concludes
  <2> QED
    BY <2>1 DEF Forks
<1>5. CASE Settled /\ run'[q] = run[q]
  BY <1>5 DEF Settled, Forks
<1>6. CASE IsSkip(p) \/ IsJudge(p)
  BY <1>5, <1>6 DEF IsSkip, IsJudge, Concludes
<1>7. CASE IsSetUp(p) \/ IsForkFails(p) \/ IsShut(p) \/ IsFlushTap(p)
  BY <1>5, <1>7 DEF IsSetUp, SetsUp, IsForkFails, IsShut, IsFlushTap, Moves
<1>8. CASE IsSend(p)
  BY <1>5, <1>8 DEF IsSend, Sends, Moves
<1>9. CASE IsWrite(p)
  BY <1>5, <1>9 DEF IsWrite, WritesInput, Moves, Concludes
<1>10. CASE IsReadOut(p) \/ IsReadErr(p)
  BY <1>5, <1>10 DEF IsReadOut, IsReadErr, ReadsOut, ReadsErr, Moves
<1> QED
  BY <1>1, <1>2, <1>3, <1>4, <1>6, <1>7, <1>8, <1>9, <1>10 DEF RunnerStep

\* A runner's steps keep the types
LEMMA TypedRunner ==
  ASSUME Typed, NEW p \in Pids, RunnerStep(p)
  PROVE  Typed'
<1>1. CASE Settled /\ pipes' \in [PipeIds -> PipeType] /\ files' \in [Paths -> FileTexts]
           /\ run' \in [Pids -> RunType]
  BY <1>1 DEF Settled, Typed, RunnerStep
<1>2. CASE IsSkip(p) \/ IsJudge(p)
  BY <1>1, <1>2 DEF IsSkip, IsJudge, Concludes, Typed
<1>3. CASE IsSetUp(p)
  BY <1>1, <1>3 DEF IsSetUp, SetsUp, Moves
<1>4. CASE IsFork(p)
  <2>1. PICK c \in Pids : Forks(p, c)
    BY <1>4 DEF IsFork
  <2> QED
    BY <1>4, <2>1 DEF IsFork, Forks, Typed, RunnerStep
<1>5. CASE IsForkFails(p)
  BY <1>1, <1>5 DEF IsForkFails, Moves, Typed
<1>6. CASE IsExec(p)
  <2>1. /\ pipes' \in [PipeIds -> PipeType] /\ std' \in [Pids -> StdType]
        /\ run' \in [Pids -> RunType] /\ job' \in [Pids -> JobType]
    BY <1>6 DEF IsExec, Becomes, Closes, Concludes, Typed
  <2> QED
    BY <1>6, <2>1 DEF IsExec, Typed, RunnerStep
<1>7. CASE IsSend(p)
  <2>1. pipes' \in [PipeIds -> PipeType] /\ run' \in [Pids -> RunType]
    BY <1>7 DEF IsSend, Sends, Moves, Closes, Typed
  <2> QED
    BY <1>1, <1>7, <2>1 DEF IsSend, Typed
<1>8. CASE IsWrite(p)
  <2>1. pipes' \in [PipeIds -> PipeType] /\ run' \in [Pids -> RunType]
    BY <1>8 DEF IsWrite, WritesInput, Moves, Concludes, Typed
  <2> QED
    BY <1>1, <1>8, <2>1 DEF IsWrite, Typed
<1>9. CASE IsShut(p)
  BY <1>1, <1>9 DEF IsShut, Moves, Closes, Typed
<1>10. CASE IsWait(p)
  <2>1. life' \in [Pids -> Lives] /\ run' \in [Pids -> RunType]
    BY <1>10 DEF IsWait, Waits, Reaps, Moves, Concludes, Typed
  <2> QED
    BY <1>10, <2>1 DEF IsWait, Typed, RunnerStep
<1>11. CASE IsReadOut(p) \/ IsReadErr(p)
  <2>1. pipes' \in [PipeIds -> PipeType] /\ run' \in [Pids -> RunType]
    BY <1>11 DEF IsReadOut, IsReadErr, ReadsOut, ReadsErr, Moves, Closes, Drains
  <2> QED
    BY <1>1, <1>11, <2>1 DEF IsReadOut, IsReadErr, Typed
<1>12. CASE IsFlushTap(p)
  BY <1>1, <1>12 DEF IsFlushTap, Prints, Moves, Typed
<1>13. CASE IsReturn(p)
  <2>1. life' \in [Pids -> Lives] /\ pipes' \in [PipeIds -> PipeType]
    BY <1>13 DEF IsReturn, Closes
  <2> QED
    BY <1>13, <2>1 DEF IsReturn, Typed, RunnerStep
<1> QED
  BY <1>2, <1>3, <1>4, <1>5, <1>6, <1>7, <1>8, <1>9, <1>10, <1>11, <1>12, <1>13 DEF RunnerStep

\* A vinumc's steps keep the types
LEMMA TypedVinumc ==
  ASSUME Typed, NEW q \in Pids, VinumcStep(q), UNCHANGED <<run, Suite>>
  PROVE  Typed'
BY DEF VinumcStep, Typed, Suite

\* Who holds a pipe after a step of a runner
LEMMA HoldersStay ==
  ASSUME Typed, NEW p \in Pids, RunnerStep(p), NEW i \in PipeIds, NEW q \in Pids, Holds(q, i)'
  PROVE  \/ Holds(q, i) /\ ~ (run[p].at = "return" /\ q = p)
         \/ q = p /\ i \in Used(p) /\ run[p].at = "loop"
         \/ Forks(p, q) /\ Holds(p, i)
<1>1. CASE /\ \A r : r \in pipes'[i].readers => r \in pipes[i].readers
           /\ \A r : r \in pipes'[i].writers => r \in pipes[i].writers
           /\ run[p].at # "return"
  BY <1>1 DEF Holds
<1>2. CASE \/ IsSkip(p) \/ IsForkFails(p) \/ IsWait(p) \/ IsJudge(p)
  BY <1>1, <1>2 DEF IsSkip, IsForkFails, IsWait, IsJudge
<1>3. CASE IsSetUp(p)
  <2>1. CASE i \in Used(p)
    BY <1>3, <2>1 DEF IsSetUp, SetsUp, Holds
  <2>2. CASE i \notin Used(p)
    BY <1>1, <1>3, <2>2 DEF IsSetUp, SetsUp
  <2> QED
    BY <2>1, <2>2
<1>4. CASE IsFork(p)
  <2>1. PICK c \in Pids : Forks(p, c)
    BY <1>4 DEF IsFork
  <2>2. run[p].at # "return"
    BY <1>4 DEF IsFork
  <2>3. Holds(q, i) \/ (q = c /\ Holds(p, i))
    BY <2>1 DEF Forks, Holds
  <2> QED
    BY <2>1, <2>2, <2>3
<1>5. CASE IsExec(p)
  BY <1>1, <1>5 DEF IsExec, Becomes, Closes
<1>6. CASE IsSend(p)
  BY <1>1, <1>6 DEF IsSend, Sends, Closes
<1>7. CASE IsWrite(p)
  BY <1>1, <1>7 DEF IsWrite, WritesInput
<1>8. CASE IsShut(p)
  BY <1>1, <1>8 DEF IsShut, Closes
<1>9. CASE IsReadOut(p) \/ IsReadErr(p)
  BY <1>1, <1>9 DEF IsReadOut, IsReadErr, ReadsOut, ReadsErr, Drains, Closes
<1>10. CASE IsFlushTap(p)
  BY <1>1, <1>10 DEF IsFlushTap, Prints
<1>11. CASE IsReturn(p)
  BY <1>11 DEF IsReturn, Closes, Holds
<1> QED
  BY <1>2, <1>3, <1>4, <1>5, <1>6, <1>7, <1>8, <1>9, <1>10, <1>11 DEF RunnerStep

\* The pipes that a runner opens for a test are its own
LEMMA UsedOwn ==
  ASSUME NEW p, NEW i \in Used(p)
  PROVE  i[1] = p /\ i[2] = run[p].test
BY DEF Used, Pipe

\* What a runner does never overfills a pipe
LEMMA DataFits ==
  ASSUME Typed, KernelInv, NEW p \in Pids, RunnerStep(p), NEW i \in PipeIds
  PROVE  Len(pipes'[i].data) <= PipeSize
<1>1. Len(pipes[i].data) <= PipeSize /\ pipes[i].data \in Text
  BY DEF KernelInv, Typed, PipeType
<1>2. CASE pipes'[i].data = pipes[i].data \/ pipes'[i].data = <<>>
  BY <1>1, <1>2, EmptyText, LenText, ProcessesAssumption
<1>3. CASE \/ IsSkip(p) \/ IsForkFails(p) \/ IsWait(p) \/ IsJudge(p)
  BY <1>2, <1>3 DEF IsSkip, IsForkFails, IsWait, IsJudge
<1>4. CASE IsSetUp(p)
  BY <1>2, <1>4 DEF IsSetUp, SetsUp
<1>5. CASE IsFork(p) \/ IsExec(p) \/ IsSend(p) \/ IsShut(p) \/ IsReturn(p)
  BY <1>2, <1>5 DEF IsFork, IsExec, IsSend, IsShut, IsReturn, Forks, Becomes, Sends, Closes
<1>6. CASE IsWrite(p)
  <2>1. CASE UNCHANGED pipes
    BY <1>2, <2>1
  <2>2. CASE i = Pipe(p, "in") /\ \E part \in Text : Passes(p, part)
    BY <2>2 DEF Passes
  <2>3. CASE i # Pipe(p, "in") /\ pipes'[i].data = pipes[i].data
    BY <1>2, <2>3
  <2> QED
    BY <1>6, <2>1, <2>2, <2>3 DEF IsWrite, WritesInput
<1>7. CASE IsReadOut(p) \/ IsReadErr(p)
  BY <1>2, <1>7 DEF IsReadOut, IsReadErr, ReadsOut, ReadsErr, Drains, Closes
<1>8. CASE IsFlushTap(p)
  <2>1. CASE Len(pipes[i].data) < PipeSize /\ pipes'[i].data = Append(pipes[i].data, "TAP")
    BY <1>1, <2>1, AppendText, LenText, HarnessAssumption, ProcessesAssumption
  <2> QED
    BY <1>2, <1>8, <2>1 DEF IsFlushTap, Prints
<1> QED
  BY <1>3, <1>4, <1>5, <1>6, <1>7, <1>8 DEF RunnerStep

\* KernelInv
LEMMA KernelRunner ==
  ASSUME Typed, KernelInv, NEW p \in Pids, RunnerStep(p)
  PROVE  KernelInv'
<1>1. ASSUME NEW i \in PipeIds, NEW q \in Pids, Holds(q, i)'
      PROVE  life'[q] = "alive"
  <2>1. life[p] = "alive"
    BY DEF RunnerStep
  <2>2. CASE Holds(q, i) /\ ~ (run[p].at = "return" /\ q = p)
    <3>1. life[q] = "alive"
      BY <2>2 DEF KernelInv
    <3>2. CASE q # p
      BY <3>1, <3>2, OthersStay DEF Forks
    <3>3. CASE q = p
      <4>1. ~ IsReturn(p)
        BY <2>2, <3>3 DEF IsReturn
      <4>2. CASE IsFork(p)
        BY <3>1, <3>3, <4>2 DEF IsFork, Forks
      <4>3. CASE IsWait(p)
        BY <3>1, <3>3, <4>3 DEF IsWait, Waits, Reaps, Zombies
      <4> QED
        BY <3>1, <3>3, <4>1, <4>2, <4>3 DEF RunnerStep, IsSkip, IsSetUp, IsForkFails, IsExec, IsSend,
          IsWrite, IsShut, IsReadOut, IsReadErr, IsJudge, IsFlushTap, Settled
    <3> QED
      BY <3>2, <3>3
  <2>3. CASE q = p /\ i \in Used(p) /\ run[p].at = "loop"
    BY <2>1, <2>3 DEF RunnerStep, IsSkip, IsSetUp, IsFork, IsForkFails, IsExec, IsSend,
      IsWrite, IsShut, IsWait, IsReadOut, IsReadErr, IsJudge, IsFlushTap, IsReturn, Settled
  <2>4. CASE Forks(p, q)
    BY <2>4 DEF Forks
  <2> QED
    BY <1>1, <2>2, <2>3, <2>4, HoldersStay
<1>2. ASSUME NEW r \in Pids, NEW q \in Pids, NEW k \in Runs, NEW end \in Ends, life'[r] = "free",
             Holds(q, <<r, k, end>>)'
      PROVE  FALSE
  <2>1. life[p] = "alive" /\ <<r, k, end>> \in PipeIds
    BY PipeIn DEF RunnerStep
  <2>2. life[r] = "free" /\ r # p
    <3>1. CASE r = p
      <4>1. life'[p] = "free"
        BY <1>2, <3>1
      <4> QED
        BY <2>1, <4>1 DEF RunnerStep, IsSkip, IsSetUp, IsFork, IsForkFails, IsExec, IsSend, IsWrite,
          IsShut, IsWait, IsReadOut, IsReadErr, IsJudge, IsFlushTap, IsReturn, Settled, Forks, Waits, Reaps
    <3>2. CASE r # p
      BY <1>2, <3>2, OthersStay DEF Forks
    <3> QED
      BY <3>1, <3>2
  <2>3. ~ Holds(q, <<r, k, end>>) /\ ~ Holds(p, <<r, k, end>>)
    BY <2>2 DEF KernelInv
  <2>4. <<r, k, end>> \notin Used(p)
    BY <2>2, UsedOwn
  <2> QED
    BY <1>2, <2>1, <2>3, <2>4, HoldersStay
<1> QED
  BY <1>1, <1>2, DataFits DEF KernelInv

\* KernelInv
LEMMA KernelVinumc ==
  ASSUME Typed, KernelInv, NEW p \in Pids, VinumcStep(p)
  PROVE  KernelInv'
<1>1. ASSUME NEW i \in PipeIds PROVE Len(pipes'[i].data) <= PipeSize
  <2>1. Len(pipes[i].data) <= PipeSize /\ pipes[i].data \in Text
    BY DEF KernelInv, Typed, PipeType
  <2>2. CASE pipes'[i].data = pipes[i].data \/ pipes'[i].data = <<>>
    BY <2>1, <2>2, EmptyText, LenText, ProcessesAssumption
  <2>3. CASE Len(pipes[i].data) < PipeSize /\ \E x \in Chunks : pipes'[i].data = Append(pipes[i].data, x)
    BY <2>1, <2>3, AppendText, LenText, ProcessesAssumption
  <2> QED
    BY <2>2, <2>3 DEF VinumcStep
<1>2. ASSUME NEW i \in PipeIds, NEW q \in Pids, Holds(q, i)'
      PROVE  life'[q] = "alive" /\ Holds(q, i)
  BY <1>2 DEF VinumcStep, Holds, KernelInv
<1>3. ASSUME NEW r \in Pids, NEW q \in Pids, NEW k \in Runs, NEW end \in Ends, life'[r] = "free",
             Holds(q, <<r, k, end>>)'
      PROVE  FALSE
  <2>1. <<r, k, end>> \in PipeIds /\ life[r] = "free"
    BY <1>3, PipeIn DEF VinumcStep
  <2> QED
    BY <1>2, <1>3, <2>1 DEF KernelInv
<1> QED
  BY <1>1, <1>2, <1>3 DEF KernelInv

\* A runner lives until it returns
LEMMA SelfStays ==
  ASSUME Typed, NEW p \in Pids, RunnerStep(p)
  PROVE  /\ life[p] = "alive" /\ parent'[p] = parent[p]
         /\ life'[p] = IF run[p].at = "return" THEN "exited" ELSE "alive"
         /\ run[p].at # "none"
<1>1. life[p] = "alive"
  BY DEF RunnerStep
<1>2. CASE IsFork(p)
  BY <1>1, <1>2 DEF IsFork, Forks
<1>3. CASE IsWait(p)
  BY <1>1, <1>3 DEF IsWait, Waits, Reaps, Zombies
<1>4. CASE IsReturn(p)
  BY <1>1, <1>4 DEF IsReturn
<1> QED
  BY <1>1, <1>2, <1>3, <1>4 DEF RunnerStep, IsSkip, IsSetUp, IsForkFails, IsExec, IsSend,
    IsWrite, IsShut, IsReadOut, IsReadErr, IsJudge, IsFlushTap, Settled

\* FamilyInv
LEMMA FamilyRunner ==
  ASSUME Typed, FamilyInv, RootInv, NEW p \in Pids, RunnerStep(p)
  PROVE  FamilyInv'
<1>1. Root \in Pids /\ life[Root] # "free" /\ p \in Pids /\ p # NoPid
  BY ProcessesAssumption, HarnessAssumption DEF Root, RootInv
<1>2. parent'[Root] = NoPid
  <2>1. CASE Root = p
    BY <2>1, SelfStays DEF FamilyInv
  <2>2. CASE Root # p
    <3>1. ~ Forks(p, Root)
      BY <1>1 DEF Forks
    <3> QED
      BY <1>1, <2>2, <3>1, OthersStay DEF FamilyInv
  <2> QED
    BY <2>1, <2>2
<1>3. ASSUME NEW q \in Pids, life[q] # "free" PROVE life'[q] # "free"
  <2>1. CASE q = p
    BY <2>1, SelfStays
  <2>2. CASE q # p
    BY <1>3, <2>2, OthersStay DEF Forks
  <2> QED
    BY <2>1, <2>2
<1>4. ASSUME NEW q \in Pids
      PROVE  /\ parent'[q] # NoPid => life'[parent'[q]] # "free" /\ parent'[q] # q
             /\ q # Root /\ life'[q] # "free" => parent'[q] # NoPid
  <2>1. parent[q] \in Pids \union {NoPid}
    BY DEF Typed
  <2>2. CASE parent'[q] = parent[q] /\ (life'[q] # "free" => life[q] # "free")
    BY <1>3, <2>1, <2>2 DEF FamilyInv
  <2>3. CASE q = p
    BY <2>2, <2>3, SelfStays
  <2>4. CASE Forks(p, q)
    <3>1. parent'[q] = p /\ life[p] # "free" /\ q # p
      BY <2>4, SelfStays DEF Forks
    <3> QED
      BY <1>1, <1>3, <3>1
  <2> QED
    BY <2>2, <2>3, <2>4, OthersStay
<1> QED
  BY <1>2, <1>4 DEF FamilyInv

\* FamilyInv
LEMMA FamilyVinumc ==
  ASSUME Typed, FamilyInv, NEW p \in Pids, VinumcStep(p)
  PROVE  FamilyInv'
<1>1. UNCHANGED parent /\ \A q \in Pids : life'[q] = "free" <=> life[q] = "free"
  BY DEF VinumcStep
<1>2. \A q \in Pids : parent[q] \in Pids \union {NoPid}
  BY DEF Typed
<1> QED
  BY <1>1, <1>2 DEF FamilyInv

\* RunInv, of the runner that concludes a test
LEMMA RunConcludes ==
  ASSUME Typed, NEW p \in Pids, RunnerInv(p), UNCHANGED suite, NEW mark, Concludes(p, mark),
         run[p].at # "none", run[p].test <= Len(suite)
  PROVE  RunnerInv(p)'
<1>1. Len(run'[p].verdicts) = Len(run[p].verdicts) + 1
  BY ConcludeCut
<1>2. run[p].test \in Nat /\ Len(suite) \in Nat
  BY SuiteFacts DEF Typed, RunType
<1> QED
  BY <1>1, <1>2 DEF Concludes, RunnerInv, Early

\* RunInv, of the runner itself
LEMMA RunSelf ==
  ASSUME Typed, NEW p \in Pids, RunnerStep(p), RunnerInv(p)
  PROVE  RunnerInv(p)'
<1>1. /\ UNCHANGED suite /\ run[p].at # "none"
      /\ run[p].test \in Nat /\ Len(suite) \in Nat
  BY SelfStays, SuiteFacts DEF RunnerStep, Typed, RunType
<1>2. run[p].at \notin {"loop", "return"} => run[p].test <= Len(suite)
  BY <1>1 DEF RunnerInv
<1>3. CASE IsSkip(p)
  BY <1>1, <1>3, RunConcludes DEF IsSkip
<1>4. CASE IsSetUp(p)
  BY <1>1, <1>4 DEF IsSetUp, SetsUp, Moves, RunnerInv, Early
<1>5. CASE IsFork(p)
  <2>1. PICK c \in Pids : Forks(p, c)
    BY <1>5 DEF IsFork
  <2>2. run[p] \in RunType /\ run'[p] = [run[p] EXCEPT !.at = "send", !.kid = c]
    BY <2>1 DEF Forks, Typed
  <2>3. /\ run'[p].at = "send" /\ run'[p].test = run[p].test /\ run'[p].verdicts = run[p].verdicts
        /\ run'[p].sent = run[p].sent /\ run'[p].out = run[p].out /\ run'[p].err = run[p].err
    BY <2>2 DEF RunType
  <2>4. run[p].at = "fork"
    BY <1>5 DEF IsFork
  <2> QED
    BY <1>1, <2>3, <2>4 DEF RunnerInv, Early
<1>6. CASE IsForkFails(p)
  BY <1>1, <1>6 DEF IsForkFails, Moves, Keeps, RunnerInv, Early
<1>7. CASE IsExec(p)
  <2>1. CASE run'[p] = NoRun
    BY <1>1, <2>1 DEF RunnerInv, NoRun, Early
  <2>2. CASE Concludes(p, "FAILED")
    BY <1>1, <1>2, <1>7, <2>2, RunConcludes DEF IsExec
  <2> QED
    BY <1>7, <2>1, <2>2 DEF IsExec, Becomes
<1>8. CASE IsSend(p)
  BY <1>1, <1>8 DEF IsSend, Sends, Moves, Keeps, RunnerInv, Early
<1>9. CASE IsWrite(p)
  <2>1. CASE Concludes(p, "FAILED")
    BY <1>1, <1>2, <1>9, <2>1, RunConcludes DEF IsWrite
  <2>2. CASE Moves(p, "shut") /\ Keeps(p)
    BY <1>1, <1>9, <2>2 DEF IsWrite, Moves, Keeps, RunnerInv, Early
  <2>3. CASE /\ Moves(p, IF run'[p].left = <<>> THEN "shut" ELSE "write") /\ run'[p].sent
             /\ run'[p].kid = run[p].kid /\ run'[p].out = run[p].out /\ run'[p].err = run[p].err
    BY <1>1, <1>9, <2>3 DEF IsWrite, Moves, RunnerInv, Early
  <2> QED
    BY <1>9, <2>1, <2>2, <2>3 DEF IsWrite, WritesInput
<1>10. CASE IsShut(p)
  BY <1>1, <1>10 DEF IsShut, Moves, Keeps, RunnerInv, Early
<1>11. CASE IsWait(p)
  <2>1. CASE Concludes(p, "FAILED")
    BY <1>1, <1>2, <1>11, <2>1, RunConcludes DEF IsWait
  <2>2. CASE Moves(p, "out") /\ KeepsBut(p)
    BY <1>1, <1>11, <2>2 DEF IsWait, Moves, KeepsBut, RunnerInv, Early
  <2> QED
    BY <1>11, <2>1, <2>2 DEF IsWait, Waits, Reaps
<1>12. CASE IsReadOut(p)
  BY <1>1, <1>12 DEF IsReadOut, ReadsOut, Moves, Keeps, RunnerInv, Early
<1>13. CASE IsReadErr(p)
  BY <1>1, <1>13 DEF IsReadErr, ReadsErr, Moves, Keeps, RunnerInv, Early
<1>14. CASE IsJudge(p)
  BY <1>1, <1>2, <1>14, RunConcludes DEF IsJudge
<1>15. CASE IsFlushTap(p)
  <2>1. run[p].test = Len(suite) + 1
    BY <1>1, <1>15 DEF IsFlushTap, RunnerInv
  <2> QED
    BY <1>1, <1>15, <2>1 DEF IsFlushTap, Moves, Keeps, RunnerInv, Early
<1>16. CASE IsReturn(p)
  BY <1>1, <1>16 DEF IsReturn, RunnerInv
<1> QED
  BY <1>3, <1>4, <1>5, <1>6, <1>7, <1>8, <1>9, <1>10, <1>11, <1>12, <1>13, <1>14, <1>15, <1>16
  DEF RunnerStep

\* RunInv
LEMMA RunRunner ==
  ASSUME Typed, RunInv, NEW p \in Pids, RunnerStep(p)
  PROVE  RunInv'
<1> SUFFICES ASSUME NEW q \in Pids
             PROVE  /\ RunnerInv(q)'
                    /\ life'[q] = "free" => run'[q].at = "none" /\ job'[q].options = Nothing
                    /\ run'[q].at # "none" => job'[q].options = Nothing
  BY DEF RunInv
<1>1. UNCHANGED suite
  BY DEF RunnerStep
<1>2. CASE q = p
  <2>1. RunnerInv(p)'
    BY RunSelf DEF RunInv
  <2>2. life'[p] # "free" /\ run[p].at # "none"
    BY SelfStays
  <2>3. run'[p].at # "none" => job'[p].options = job[p].options
    <3>1. CASE IsExec(p)
      BY <3>1 DEF IsExec, Becomes, NoRun
    <3> QED
      BY <3>1 DEF RunnerStep, IsSkip, IsSetUp, IsFork, IsForkFails, IsSend, IsWrite, IsShut, IsWait,
        IsReadOut, IsReadErr, IsJudge, IsFlushTap, IsReturn, Settled
  <2> QED
    BY <1>2, <2>1, <2>2, <2>3 DEF RunInv
<1>3. CASE q # p /\ Forks(p, q) /\ run[p].at = "fork" /\ UNCHANGED job
  <2>1. run'[q] = [run[p] EXCEPT !.at = "child"] /\ run[p] \in RunType /\ RunnerInv(p)
    BY <1>3 DEF Forks, Typed, RunInv
  <2>2. /\ run'[q].at = "child" /\ run'[q].test = run[p].test /\ run'[q].verdicts = run[p].verdicts
        /\ run'[q].kid = run[p].kid /\ run'[q].sent = run[p].sent /\ run'[q].out = run[p].out
        /\ run'[q].err = run[p].err
    BY <2>1 DEF RunType
  <2>3. RunnerInv(q)'
    BY <1>1, <1>3, <2>1, <2>2 DEF RunnerInv, Early
  <2>4. life'[q] = "alive" /\ job'[q].options = Nothing
    BY <1>3 DEF Forks, RunInv
  <2> QED
    BY <2>3, <2>4
<1>4. CASE /\ run'[q] = run[q] /\ job'[q] = job[q]
           /\ life'[q] = "free" <=> life[q] = "free"
  BY <1>1, <1>4 DEF RunInv, RunnerInv
<1> QED
  BY <1>2, <1>3, <1>4, OthersStay

\* RunInv
LEMMA RunVinumc ==
  ASSUME Typed, RunInv, NEW p \in Pids, VinumcStep(p), UNCHANGED <<run, Suite>>
  PROVE  RunInv'
<1> SUFFICES ASSUME NEW q \in Pids
             PROVE  /\ RunnerInv(q)'
                    /\ life'[q] = "free" => run'[q].at = "none" /\ job'[q].options = Nothing
                    /\ run'[q].at # "none" => job'[q].options = Nothing
  BY DEF RunInv
<1>1. RunnerInv(q)'
  BY DEF RunInv, RunnerInv, Suite
<1>2. job'[q].options = job[q].options /\ (life'[q] = "free" => life[q] = "free")
  BY DEF VinumcStep
<1> QED
  BY <1>1, <1>2 DEF RunInv

\* What becomes of the life of the others
LEMMA OthersLive ==
  ASSUME Typed, NEW p \in Pids, RunnerStep(p), NEW q \in Pids, q # p
  PROVE  \/ life'[q] = life[q]
         \/ Forks(p, q)
         \/ run[p].at = "wait" /\ q \in Zombies(p) /\ Reaps(p, q)
<1>1. CASE IsFork(p)
  <2>1. PICK c \in Pids : Forks(p, c)
    BY <1>1 DEF IsFork
  <2>2. q # c => life'[q] = life[q]
    BY <2>1 DEF Forks
  <2> QED
    BY <2>1, <2>2
<1>2. CASE IsWait(p)
  <2>1. CASE \E c \in Pids : Reaps(p, c)
    <3>1. PICK c \in Pids : Reaps(p, c)
      BY <2>1
    <3>2. c \in Zombies(p) /\ \A r \in Pids : r # c => life'[r] = life[r]
      BY <3>1 DEF Reaps
    <3> QED
      BY <1>2, <3>1, <3>2 DEF IsWait
  <2>2. CASE UNCHANGED life
    BY <2>2
  <2> QED
    BY <1>2, <2>1, <2>2 DEF IsWait, Waits
<1> QED
  BY <1>1, <1>2 DEF RunnerStep, IsSkip, IsSetUp, IsForkFails, IsExec, IsSend, IsWrite, IsShut,
    IsReadOut, IsReadErr, IsJudge, IsFlushTap, IsReturn, Settled

\* The streams of a runner lead where they did, once it is one
LEMMA StreamsStay ==
  ASSUME Typed, NEW p \in Pids, RunnerStep(p), run[p].at # "child"
  PROVE  std'[p] = std[p] /\ run'[p].at \notin {"none", "child"} /\ job'[p] = job[p]
<1>1. CASE IsFork(p)
  <2>1. PICK c \in Pids : Forks(p, c)
    BY <1>1 DEF IsFork
  <2>2. std'[p] = std[p] /\ run'[p] = [run[p] EXCEPT !.at = "send", !.kid = c] /\ run[p] \in RunType
    BY <2>1 DEF Forks, Typed
  <2>3. run'[p].at = "send"
    BY <2>2 DEF RunType
  <2> QED
    BY <1>1, <2>2, <2>3 DEF IsFork
<1>2. CASE IsSkip(p) \/ IsJudge(p)
  BY <1>2 DEF IsSkip, IsJudge, Concludes, Settled
<1>3. CASE IsSetUp(p) \/ IsForkFails(p) \/ IsShut(p) \/ IsFlushTap(p)
  BY <1>3 DEF IsSetUp, SetsUp, IsForkFails, IsShut, IsFlushTap, Moves, Settled
<1>4. CASE IsSend(p)
  BY <1>4 DEF IsSend, Sends, Moves, Settled
<1>5. CASE IsWrite(p)
  BY <1>5 DEF IsWrite, WritesInput, Moves, Concludes, Settled
<1>6. CASE IsWait(p)
  BY <1>6 DEF IsWait, Waits, Reaps, Moves, Concludes
<1>7. CASE IsReadOut(p) \/ IsReadErr(p)
  BY <1>7 DEF IsReadOut, IsReadErr, ReadsOut, ReadsErr, Moves, Settled
<1>8. CASE IsReturn(p)
  BY <1>8 DEF IsReturn
<1> QED
  BY <1>1, <1>2, <1>3, <1>4, <1>5, <1>6, <1>7, <1>8 DEF RunnerStep, IsExec

\* RootInv
LEMMA RootRunner ==
  ASSUME Typed, KernelInv, FamilyInv, RunInv, StreamInv, RootInv, NEW p \in Pids, RunnerStep(p)
  PROVE  RootInv'
<1>1. Root \in Pids /\ p # NoPid
  BY ProcessesAssumption, HarnessAssumption DEF Root
<1>2. CASE p = Root
  <2>1. life'[Root] \in {"alive", "exited"}
    BY <1>2, SelfStays
  <2>2. std'[Root] = std[Root] /\ run'[Root].at \notin {"none", "child"}
    BY <1>2, StreamsStay DEF RootInv
  <2>3. tap' = IF run'[Root].at = "return" THEN <<run'[Root].verdicts>> ELSE <<>>
    <3>1. CASE IsFlushTap(p)
      <4>1. tap' = Append(tap, run[Root].verdicts) /\ tap = <<>>
        BY <1>2, <3>1 DEF IsFlushTap, RootInv
      <4>2. tap' = <<run[Root].verdicts>>
        BY <4>1
      <4> QED
        BY <1>2, <3>1, <4>2 DEF IsFlushTap, Moves
    <3>2. CASE IsReturn(p)
      BY <1>2, <3>2 DEF IsReturn, RootInv
    <3>3. CASE UNCHANGED tap /\ run[p].at # "return" /\ run'[p].at # "return"
      BY <1>2, <3>3 DEF RootInv
    <3>4. CASE IsFork(p)
      <4>1. PICK c \in Pids : Forks(p, c)
        BY <3>4 DEF IsFork
      <4>2. run'[p] = [run[p] EXCEPT !.at = "send", !.kid = c] /\ run[p] \in RunType
        BY <4>1 DEF Forks, Typed
      <4>3. run'[p].at = "send"
        BY <4>2 DEF RunType
      <4> QED
        BY <3>3, <3>4, <4>3 DEF IsFork
    <3>5. CASE IsSkip(p) \/ IsJudge(p)
      BY <3>3, <3>5 DEF IsSkip, IsJudge, Concludes
    <3>6. CASE IsSetUp(p) \/ IsForkFails(p) \/ IsShut(p)
      BY <3>3, <3>6 DEF IsSetUp, SetsUp, IsForkFails, IsShut, Moves
    <3>7. CASE IsSend(p)
      BY <3>3, <3>7 DEF IsSend, Sends, Moves
    <3>8. CASE IsWrite(p)
      BY <3>3, <3>8 DEF IsWrite, WritesInput, Moves, Concludes
    <3>9. CASE IsWait(p)
      BY <3>3, <3>9 DEF IsWait, Waits, Reaps, Moves, Concludes
    <3>10. CASE IsReadOut(p) \/ IsReadErr(p)
      BY <3>3, <3>10 DEF IsReadOut, IsReadErr, ReadsOut, ReadsErr, Moves
    <3> QED
      BY <1>2, <3>1, <3>2, <3>4, <3>5, <3>6, <3>7, <3>8, <3>9, <3>10 DEF RunnerStep, IsExec
  <2> QED
    BY <2>1, <2>2, <2>3 DEF RootInv
<1>3. CASE p # Root
  <2>1. ~ Forks(p, Root)
    BY DEF Forks, RootInv
  <2>2. Root \notin Zombies(p)
    BY <1>1 DEF Zombies, FamilyInv
  <2>3. life'[Root] = life[Root]
    BY <1>1, <1>3, <2>1, <2>2, OthersLive
  <2>4. run'[Root] = run[Root] /\ std'[Root] = std[Root]
    BY <1>1, <1>3, <2>1, OthersStay
  <2>5. UNCHANGED tap
    <3>1. CASE IsFlushTap(p)
      <4>1. life[p] # "free" /\ run[p].at # "child"
        BY <3>1 DEF IsFlushTap, RunnerStep
      <4>2. std[p].out # Terminal
        BY <1>3, <4>1 DEF StreamInv
      <4> QED
        BY <3>1, <4>2 DEF IsFlushTap
    <3> QED
      BY <3>1 DEF RunnerStep, IsSkip, IsSetUp, IsFork, IsForkFails, IsExec, IsSend, IsWrite, IsShut,
        IsWait, IsReadOut, IsReadErr, IsJudge, IsReturn
  <2> QED
    BY <2>3, <2>4, <2>5 DEF RootInv
<1> QED
  BY <1>2, <1>3

\* RootInv
LEMMA RootVinumc ==
  ASSUME Typed, RunInv, RootInv, NEW p \in Pids, VinumcStep(p), UNCHANGED <<run, Suite>>
  PROVE  RootInv'
<1>1. Root \in Pids
  BY ProcessesAssumption DEF Root
<1>2. p # Root
  BY <1>1 DEF RootInv, RunInv, VinumcStep
<1>3. life'[Root] = life[Root] /\ UNCHANGED <<std, run, tap>>
  BY <1>1, <1>2 DEF VinumcStep, Suite
<1> QED
  BY <1>3 DEF RootInv

\* StreamInv
LEMMA StreamRunner ==
  ASSUME Typed, StreamInv, NEW p \in Pids, RunnerStep(p)
  PROVE  StreamInv'
<1> SUFFICES ASSUME NEW q \in Pids
             PROVE  /\ std'[q].out = Terminal \/ std'[q].out[3] = "out"
                    /\ std'[q].err = Terminal \/ std'[q].err[3] = "err"
                    /\ q # Root /\ life'[q] # "free" /\ run'[q].at # "child" =>
                         /\ std'[q].out # Terminal /\ std'[q].out[1] = parent'[q]
                         /\ std'[q].err # Terminal /\ std'[q].err[1] = parent'[q]
  BY DEF StreamInv
<1>1. CASE q = p /\ run[p].at = "child"
  <2>1. IsExec(p)
    BY <1>1 DEF RunnerStep, IsSkip, IsSetUp, IsFork, IsForkFails, IsSend, IsWrite, IsShut,
        IsWait, IsReadOut, IsReadErr, IsJudge, IsFlushTap, IsReturn
  <2> DEFINE out == <<parent[p], run[p].test, "out">>
  <2> DEFINE err == <<parent[p], run[p].test, "err">>
  <2>2. /\ out \in PipeIds /\ err \in PipeIds /\ UNCHANGED parent
        /\ std'[p].out = out /\ std'[p].err = err
    BY <2>1 DEF IsExec, Becomes
  <2>3. out # Terminal /\ err # Terminal
    BY <2>2, NotTerminal
  <2>4. out[1] = parent[p] /\ out[3] = "out" /\ err[1] = parent[p] /\ err[3] = "err"
    OBVIOUS
  <2> HIDE DEF out, err
  <2> QED
    BY <1>1, <2>2, <2>3, <2>4
<1>2. CASE q = p /\ run[p].at # "child"
  BY <1>2, StreamsStay, SelfStays DEF StreamInv
<1>3. CASE q # p /\ Forks(p, q)
  <2>1. run'[q].at = "child"
    BY <1>3 DEF Forks, Typed, RunType
  <2>2. std'[q] = std[p]
    BY <1>3 DEF Forks
  <2> QED
    BY <2>1, <2>2 DEF StreamInv
<1>4. CASE q # p /\ ~ Forks(p, q)
  BY <1>4, OthersStay DEF StreamInv
<1> QED
  BY <1>1, <1>2, <1>3, <1>4

\* StreamInv
LEMMA StreamVinumc ==
  ASSUME Typed, StreamInv, NEW p \in Pids, VinumcStep(p), UNCHANGED <<run, Suite>>
  PROVE  StreamInv'
<1> SUFFICES ASSUME NEW q \in Pids
             PROVE  /\ std'[q].out = Terminal \/ std'[q].out[3] = "out"
                    /\ std'[q].err = Terminal \/ std'[q].err[3] = "err"
                    /\ q # Root /\ life'[q] # "free" /\ run'[q].at # "child" =>
                         /\ std'[q].out # Terminal /\ std'[q].out[1] = parent'[q]
                         /\ std'[q].err # Terminal /\ std'[q].err[1] = parent'[q]
  BY DEF StreamInv
<1>1. UNCHANGED <<std, parent, run>> /\ (life'[q] # "free" => life[q] # "free")
  BY DEF VinumcStep
<1> QED
  BY <1>1 DEF StreamInv

\* A vinumc that goes on to its next stage
LEMMA GotoJob ==
  ASSUME Typed, NEW q \in Pids, NEW stage \in JobStages, Goto(q, stage)
  PROVE  job'[q] = [job[q] EXCEPT !.at = stage]
BY DEF Goto, Typed

\* JobInv, of the vinumc itself
LEMMA JobSelf ==
  ASSUME Typed, NEW q \in Pids, Vinumc(q), JobOk(job[q])
  PROVE  JobOk(job'[q])
<1> DEFINE j == job[q]
<1>1. j \in JobType /\ job \in [Pids -> JobType]
  BY DEF Typed
<1>2. CASE UNCHANGED job
  BY <1>2
<1>3. CASE ParseCmdline(q)
  <2>1. CASE j.options.known /\ Goto(q, "usage")
    <3>1. job'[q] = [j EXCEPT !.at = "usage"] /\ j.at = "parse"
      BY <1>3, <2>1, GotoJob DEF JobStages, ParseCmdline, At
    <3> QED
      BY <1>1, <2>1, <3>1 DEF JobOk, JobType
  <2> QED
    BY <1>2, <1>3, <2>1 DEF ParseCmdline, Die
<1>4. CASE ShowUsage(q)
  <2>1. CASE j.options.usage = Nothing
    <3>1. job'[q] = [j EXCEPT !.at = "open"] /\ j.at = "usage"
      BY <1>4, <2>1, GotoJob DEF JobStages, ShowUsage, At
    <3> QED
      BY <1>1, <2>1, <3>1 DEF JobOk, JobType
  <2>2. CASE j.options.usage # Nothing
    <3>1. j.at = "usage" /\ j.dest = Terminal
      BY <1>4 DEF ShowUsage, At, JobOk
    <3>2. job'[q] = [j EXCEPT !.at = "flush", !.out = <<j.options.usage>>]
      BY <1>1, <1>4, <2>2 DEF ShowUsage
    <3>3. /\ job'[q].at = "flush" /\ job'[q].options = j.options /\ job'[q].dest = Terminal
      BY <1>1, <3>1, <3>2 DEF JobType
    <3> QED
      BY <3>1, <3>3, NotTerminal DEF JobOk
  <2> QED
    BY <2>1, <2>2
<1>5. CASE OpenOutput(q)
  <2> DEFINE path == j.options.output
  <2> DEFINE dest == IF path = Nothing THEN Terminal
                     ELSE IF files[path] = Directory THEN Nothing ELSE path
  <2>1. j.at = "open" /\ j.options.known /\ j.options.usage = Nothing
    BY <1>5 DEF OpenOutput, At, JobOk
  <2>2. job'[q] = [j EXCEPT !.at = "read", !.dest = dest]
    BY <1>1, <1>5 DEF OpenOutput
  <2>3. dest \in Paths => dest = path
    BY NotTerminal
  <2> HIDE DEF dest
  <2>4. job'[q].at = "read" /\ job'[q].options = j.options /\ job'[q].dest = dest
    BY <1>1, <2>2 DEF JobType
  <2> QED
    BY <2>1, <2>3, <2>4 DEF JobOk
<1>6. CASE ReadInputFile(q)
  <2>1. CASE job' = [job EXCEPT ![q].at = "effects", ![q].program = ReadAll(files[j.options.input])]
    <3>1. j.at = "read"
      BY <1>6 DEF ReadInputFile, At
    <3>2. job'[q].at = "effects" /\ job'[q].options = j.options /\ job'[q].dest = j.dest
      BY <1>1, <2>1 DEF JobType
    <3> QED
      BY <3>1, <3>2 DEF JobOk
  <2> QED
    BY <1>2, <1>6, <2>1 DEF ReadInputFile, Die
<1>7. CASE ReadStdin(q)
  <2>1. j.at = "read"
    BY <1>7 DEF ReadStdin, At
  <2>2. CASE Goto(q, "effects")
    <3>1. job'[q] = [j EXCEPT !.at = "effects"]
      BY <2>2, GotoJob DEF JobStages
    <3> QED
      BY <1>1, <2>1, <3>1 DEF JobOk, JobType
  <2>3. CASE job' = [job EXCEPT ![q].program = @ \o pipes[std[q].in].data]
    <3> DEFINE text == j.program \o pipes[std[q].in].data
    <3>1. job'[q] = [j EXCEPT !.program = text]
      BY <1>1, <2>3
    <3> HIDE DEF text
    <3>2. job'[q].at = "read" /\ job'[q].options = j.options /\ job'[q].dest = j.dest
      BY <1>1, <2>1, <3>1 DEF JobType
    <3> QED
      BY <2>1, <3>2 DEF JobOk
  <2> QED
    BY <1>7, <2>2, <2>3 DEF ReadStdin
<1>8. CASE ReadEffects(q)
  <2> DEFINE text == Effects(files, j.options.effects)
  <2>1. j.at = "effects" /\ job'[q] = [j EXCEPT !.at = "compile", !.cocktail = text]
    BY <1>1, <1>8 DEF ReadEffects, At
  <2> HIDE DEF text
  <2>2. job'[q].at = "compile" /\ job'[q].options = j.options /\ job'[q].dest = j.dest
    BY <1>1, <2>1 DEF JobType
  <2> QED
    BY <2>1, <2>2 DEF JobOk
<1>9. CASE CompileProgram(q)
  <2> DEFINE answer == Compile(j.program, j.cocktail)
  <2>1. /\ j.at = "compile"
        /\ job'[q] = [j EXCEPT !.at = "report", !.out = answer.out, !.err = answer.err,
                               !.dies = answer.dies]
    BY <1>1, <1>9 DEF CompileProgram, At
  <2> HIDE DEF answer
  <2>2. /\ job'[q].at = "report" /\ job'[q].options = j.options /\ job'[q].dest = j.dest
        /\ job'[q].out = answer.out /\ job'[q].program = j.program /\ job'[q].cocktail = j.cocktail
    BY <1>1, <2>1 DEF JobType
  <2> QED
    BY <2>1, <2>2 DEF JobOk, answer
<1>10. CASE Report(q)
  <2>1. j.at = "report" /\ job'[q] = [j EXCEPT !.err = Tail(j.err)]
    BY <1>1, <1>10 DEF Report, At
  <2>2. /\ job'[q].at = "report" /\ job'[q].options = j.options /\ job'[q].dest = j.dest
        /\ job'[q].out = j.out /\ job'[q].program = j.program /\ job'[q].cocktail = j.cocktail
    BY <1>1, <2>1 DEF JobType
  <2> QED
    BY <2>1, <2>2 DEF JobOk
<1>11. CASE Emit(q)
  <2>1. CASE j.dest # Nothing /\ Goto(q, "flush")
    <3>1. job'[q] = [j EXCEPT !.at = "flush"] /\ j.at = "report"
      BY <1>11, <2>1, GotoJob DEF JobStages, Emit, At
    <3>2. /\ job'[q].at = "flush" /\ job'[q].options = j.options /\ job'[q].dest = j.dest
          /\ job'[q].out = j.out /\ job'[q].program = j.program /\ job'[q].cocktail = j.cocktail
      BY <1>1, <3>1 DEF JobType
    <3> QED
      BY <2>1, <3>1, <3>2 DEF JobOk
  <2> QED
    BY <1>2, <1>11, <2>1 DEF Emit, Die
<1>12. CASE Flush(q)
  <2>1. j.at = "flush" /\ job'[q] = [j EXCEPT !.out = Tail(j.out), !.wrote = j.wrote + 1]
    BY <1>1, <1>12 DEF Flush, At
  <2>2. job'[q].at = "flush" /\ job'[q].options = j.options /\ job'[q].dest = j.dest
    BY <1>1, <2>1 DEF JobType
  <2> QED
    BY <2>1, <2>2 DEF JobOk
<1>13. CASE Exit(q)
  BY <1>2, <1>13 DEF Exit
<1> QED
  BY <1>3, <1>4, <1>5, <1>6, <1>7, <1>8, <1>9, <1>10, <1>11, <1>12, <1>13 DEF Vinumc

\* JobInv
LEMMA JobVinumc ==
  ASSUME Typed, JobInv, NEW p \in Pids, Vinumc(p), VinumcStep(p)
  PROVE  JobInv'
<1>1. JobOk(job'[p])
  BY JobSelf DEF JobInv, VinumcStep
<1>2. \A q \in Pids : q # p => job'[q] = job[q]
  BY DEF VinumcStep
<1> QED
  BY <1>1, <1>2 DEF JobInv, JobOk

\* A process's data stay what they are in a step of a runner, unless it becomes a vinumc
LEMMA JobStays ==
  ASSUME Typed, NEW p \in Pids, RunnerStep(p), NEW q \in Pids
  PROVE  job'[q] = job[q] \/ job'[q] = Job(Test(q).options)
<1>1. CASE q = p
  <2>1. CASE IsExec(p)
    BY <1>1, <2>1 DEF IsExec, Becomes
  <2>2. CASE run[p].at # "child"
    BY <1>1, <2>2, StreamsStay
  <2> QED
    BY <2>1, <2>2 DEF RunnerStep, IsSkip, IsSetUp, IsFork, IsForkFails, IsSend, IsWrite, IsShut,
      IsWait, IsReadOut, IsReadErr, IsJudge, IsFlushTap, IsReturn
<1>2. CASE q # p
  BY <1>2, OthersStay
<1> QED
  BY <1>1, <1>2

\* JobInv
LEMMA JobRunner ==
  ASSUME Typed, JobInv, NEW p \in Pids, RunnerStep(p)
  PROVE  JobInv'
<1> SUFFICES ASSUME NEW q \in Pids, job'[q].options # Nothing
             PROVE  JobOk(job'[q])
  BY DEF JobInv, JobOk
<1>1. CASE job'[q] = job[q]
  BY <1>1 DEF JobInv
<1>2. CASE job'[q] = Job(Test(q).options)
  BY <1>2, NotTerminal DEF Job, JobOk
<1> QED
  BY <1>1, <1>2, JobStays

\* The steps of vinumc that neither choose a file nor write one
LEMMA DestStays ==
  ASSUME Typed, NEW q \in Pids, Vinumc(q), ~ OpenOutput(q), ~ Flush(q)
  PROVE  UNCHANGED files /\ job'[q].dest = job[q].dest
<1> DEFINE j == job[q]
<1>1. j \in JobType /\ job \in [Pids -> JobType]
  BY DEF Typed
<1>2. ASSUME NEW stage \in JobStages, Goto(q, stage)
      PROVE  job'[q].dest = j.dest
  BY <1>1, <1>2, GotoJob DEF JobType
<1>3. CASE ParseCmdline(q)
  BY <1>2, <1>3 DEF ParseCmdline, Die, End, kernel, JobStages
<1>4. CASE ShowUsage(q)
  BY <1>1, <1>2, <1>4 DEF ShowUsage, kernel, JobStages, JobType
<1>5. CASE ReadInputFile(q)
  BY <1>1, <1>5 DEF ReadInputFile, Die, End, kernel, JobType
<1>6. CASE ReadStdin(q)
  BY <1>1, <1>2, <1>6 DEF ReadStdin, kernel, JobStages, JobType
<1>7. CASE ReadEffects(q)
  BY <1>1, <1>7 DEF ReadEffects, kernel, JobType
<1>8. CASE CompileProgram(q)
  BY <1>1, <1>8 DEF CompileProgram, kernel, JobType
<1>9. CASE Report(q)
  BY <1>1, <1>9 DEF Report, JobType
<1>10. CASE Emit(q)
  BY <1>2, <1>10 DEF Emit, Die, End, kernel, JobStages
<1>11. CASE Exit(q)
  BY <1>11 DEF Exit, End
<1> QED
  BY <1>3, <1>4, <1>5, <1>6, <1>7, <1>8, <1>9, <1>10, <1>11 DEF Vinumc

\* Where the output goes is chosen as its file is emptied, and no file ceases to be one
LEMMA DestVinumc ==
  ASSUME Typed, DestInv, NEW p \in Pids, Vinumc(p), VinumcStep(p)
  PROVE  DestInv'
<1> DEFINE j == job[p]
<1>1. j \in JobType /\ job \in [Pids -> JobType] /\ files \in [Paths -> FileTexts]
  BY DEF Typed
<1>2. CASE OpenOutput(p)
  <2> DEFINE path == j.options.output
  <2> DEFINE dest == IF path = Nothing THEN Terminal
                     ELSE IF files[path] = Directory THEN Nothing ELSE path
  <2>1. job' = [job EXCEPT ![p] = [j EXCEPT !.at = "read", !.dest = dest]]
    BY <1>2 DEF OpenOutput
  <2>2. dest \in Paths => /\ dest = path /\ files' = [files EXCEPT ![path] = <<>>]
    BY <1>2, NotTerminal DEF OpenOutput
  <2>3. \A f \in Paths : files[f] \in Text => files'[f] \in Text
    BY <1>1, <1>2, EmptyText DEF OpenOutput
  <2>4. job'[p].dest \in Paths => files'[job'[p].dest] \in Text
    <3> HIDE DEF dest
    <3>1. job'[p].dest = dest
      BY <1>1, <2>1 DEF JobType
    <3> QED
      BY <1>1, <2>2, <3>1, EmptyText
  <2> QED
    BY <2>3, <2>4 DEF DestInv, VinumcStep
<1>3. CASE Flush(p)
  <2>1. Head(j.out) \in Chunks
    BY <1>1, <1>3, HeadTailText DEF Flush, JobType
  <2>2. job'[p] = [j EXCEPT !.out = Tail(j.out), !.wrote = j.wrote + 1]
    BY <1>1, <1>3 DEF Flush
  <2>3. job'[p].dest = j.dest
    BY <1>1, <2>2 DEF JobType
  <2>4. ASSUME NEW f \in Paths, files[f] \in Text
        PROVE  files'[f] \in Text
    <3>1. CASE j.dest \in Paths
      <4>1. files' = [files EXCEPT ![j.dest] = Overwritten(files[j.dest], j.wrote, Head(j.out))]
        BY <1>3, <3>1 DEF Flush
      <4>2. CASE f = j.dest
        <5>1. Overwritten(files[f], j.wrote, Head(j.out)) \in Text
          BY <1>1, <2>1, <2>4, OverwrittenText DEF JobType
        <5> QED
          BY <1>1, <4>1, <4>2, <5>1
      <4> QED
        BY <1>1, <2>4, <4>1, <4>2
    <3>2. CASE j.dest \notin Paths
      BY <1>3, <2>4, <3>2 DEF Flush
    <3> QED
      BY <3>1, <3>2
  <2> QED
    BY <2>3, <2>4 DEF DestInv, VinumcStep
<1>4. CASE ~ OpenOutput(p) /\ ~ Flush(p)
  <2>1. UNCHANGED files /\ job'[p].dest = j.dest
    BY <1>1, <1>4, DestStays
  <2> QED
    BY <2>1 DEF DestInv, VinumcStep
<1> QED
  BY <1>2, <1>3, <1>4

\* A test makes files, and a new vinumc has opened none
LEMMA DestRunner ==
  ASSUME Typed, DestInv, NEW p \in Pids, RunnerStep(p)
  PROVE  DestInv'
<1>1. ASSUME NEW f \in Paths, files[f] \in Text
      PROVE  files'[f] \in Text
  <2>1. CASE IsSetUp(p)
    <3>1. files' = Made(Test(p)) /\ IsTest(Test(p))
      BY <2>1, TestFacts DEF IsSetUp, SetsUp
    <3> QED
      BY <1>1, <3>1 DEF Made, IsTest
  <2>2. CASE UNCHANGED files
    BY <1>1, <2>2
  <2> QED
    BY <2>1, <2>2 DEF RunnerStep, IsSkip, IsFork, IsForkFails, IsExec, IsSend, IsWrite, IsShut, IsWait,
      IsReadOut, IsReadErr, IsJudge, IsFlushTap, IsReturn
<1>2. ASSUME NEW q \in Pids, job'[q].dest \in Paths
      PROVE  job'[q] = job[q]
  <2>1. Job(Test(q).options).dest = Terminal
    BY DEF Job
  <2> QED
    BY <1>2, <2>1, JobStays, NotTerminal
<1> QED
  BY <1>1, <1>2 DEF DestInv

\* A step of a runner adds a verdict, or keeps those there are, or makes it a vinumc
LEMMA VerdictsGrow ==
  ASSUME Typed, NEW p \in Pids, RunnerStep(p)
  PROVE  \/ \E mark \in {"SKIPPED", "PASSED", "FAILED"} : Concludes(p, mark)
         \/ run'[p].at = "none"
         \/ run'[p].verdicts = run[p].verdicts
<1>1. CASE IsSkip(p) \/ IsJudge(p)
  BY <1>1 DEF IsSkip, IsJudge
<1>2. CASE IsFork(p)
  <2>1. PICK c \in Pids : Forks(p, c)
    BY <1>2 DEF IsFork
  <2>2. run'[p] = [run[p] EXCEPT !.at = "send", !.kid = c] /\ run[p] \in RunType
    BY <2>1 DEF Forks, Typed
  <2> QED
    BY <2>2 DEF RunType
<1>3. CASE IsExec(p)
  BY <1>3 DEF IsExec, Becomes, NoRun
<1>4. CASE IsSetUp(p) \/ IsForkFails(p) \/ IsShut(p) \/ IsFlushTap(p)
  BY <1>4 DEF IsSetUp, SetsUp, IsForkFails, IsShut, IsFlushTap, Moves
<1>5. CASE IsSend(p)
  BY <1>5 DEF IsSend, Sends, Moves
<1>6. CASE IsWrite(p)
  BY <1>6 DEF IsWrite, WritesInput, Moves
<1>7. CASE IsWait(p)
  BY <1>7 DEF IsWait, Waits, Reaps, Moves
<1>8. CASE IsReadOut(p) \/ IsReadErr(p)
  BY <1>8 DEF IsReadOut, IsReadErr, ReadsOut, ReadsErr, Moves
<1>9. CASE IsReturn(p)
  BY <1>9 DEF IsReturn
<1> QED
  BY <1>1, <1>2, <1>3, <1>4, <1>5, <1>6, <1>7, <1>8, <1>9 DEF RunnerStep

\* A runner whose inputs were whole had whole inputs before
LEMMA CleanBefore ==
  ASSUME Typed, NEW p \in Pids, RunnerStep(p), NEW q \in Pids, Clean(q)'
  PROVE  Clean(q) \/ (q # p /\ Forks(p, q))
<1>1. CASE q = p
  <2>1. life[p] = "alive" /\ run[p].at # "none"
    BY SelfStays
  <2>2. run'[p].at # "none" /\ ~ CutBefore(p)'
    BY <1>1 DEF Clean
  <2>3. ~ CutBefore(p)
    <3>1. CASE \E mark : Concludes(p, mark)
      BY <2>2, <3>1, ConcludeCut
    <3>2. CASE run'[p].verdicts = run[p].verdicts
      BY <2>2, <3>2, SameCut
    <3> QED
      BY <2>2, <3>1, <3>2, VerdictsGrow
  <2> QED
    BY <1>1, <2>1, <2>3 DEF Clean
<1>2. CASE q # p /\ ~ Forks(p, q)
  <2>1. run'[q] = run[q] /\ life[q] = "alive"
    BY <1>2, OthersStay DEF Clean
  <2>2. CutBefore(q)' <=> CutBefore(q)
    BY <2>1, SameCut
  <2> QED
    BY <2>1, <2>2 DEF Clean
<1> QED
  BY <1>1, <1>2

\* The same, of a step of a vinumc
LEMMA CleanVinumc ==
  ASSUME Typed, NEW p \in Pids, VinumcStep(p), RunInv, UNCHANGED <<run, Suite>>,
         NEW q \in Pids, Clean(q)'
  PROVE  Clean(q) /\ q # p
<1>1. life[q] = "alive" /\ UNCHANGED run
  BY DEF VinumcStep, Clean
<1>2. CutBefore(q)' <=> CutBefore(q)
  BY <1>1, SameCut
<1>3. q # p
  BY <1>1 DEF VinumcStep, RunInv, Clean
<1> QED
  BY <1>1, <1>2, <1>3 DEF Clean

\* Where no child comes or goes and none is waited for
LEMMA SameChildren ==
  ASSUME ChildrenInv, NEW p \in Pids, NEW c \in Pids, Clean(p),
         UNCHANGED <<life, parent>>,
         \/ run[p].at \in Waiting /\ run'[p].at \in Waiting /\ run'[p].kid = run[p].kid
         \/ run[p].at \notin Waiting /\ run'[p].at \notin Waiting
         \/ run[p].kid = NoPid /\ run'[p].kid = NoPid
  PROVE  parent'[c] = p /\ Unreaped(c)' <=> run'[p].at \in Waiting /\ run'[p].kid = c
<1>1. Unreaped(c)' <=> Unreaped(c)
  BY DEF Unreaped
<1>2. c # NoPid
  BY HarnessAssumption
<1>3. parent[c] = p /\ Unreaped(c) <=> run[p].at \in Waiting /\ run[p].kid = c
  BY DEF ChildrenInv
<1> QED
  BY <1>1, <1>2, <1>3

\* ChildrenInv, of the runner itself
LEMMA ChildrenSelf ==
  ASSUME Typed, RunInv, ChildrenInv, NEW p \in Pids, RunnerStep(p), Clean(p)', NEW c \in Pids
  PROVE  parent'[c] = p /\ Unreaped(c)' <=> run'[p].at \in Waiting /\ run'[p].kid = c
<1>1. Clean(p) /\ RunnerInv(p) /\ life'[p] = "alive" /\ run'[p].at # "none"
  BY CleanBefore DEF RunInv, Clean
<1>2. parent[c] = p /\ Unreaped(c) <=> run[p].at \in Waiting /\ run[p].kid = c
  BY <1>1 DEF ChildrenInv
<1>3. c # NoPid
  BY HarnessAssumption
<1>4. CASE IsSkip(p) \/ IsJudge(p)
  BY <1>1, <1>4, SameChildren DEF IsSkip, IsJudge, Settled, Concludes, Waiting
<1>5. CASE IsSetUp(p)
  BY <1>1, <1>5, SameChildren DEF IsSetUp, SetsUp, Moves, Settled, Waiting
<1>6. CASE IsFork(p)
  <2>1. PICK d \in Pids : Forks(p, d)
    BY <1>6 DEF IsFork
  <2>2. run'[p] = [run[p] EXCEPT !.at = "send", !.kid = d] /\ run[p] \in RunType
    BY <2>1 DEF Forks, Typed
  <2>3. run'[p].at = "send" /\ run'[p].kid = d
    BY <2>2 DEF RunType
  <2>4. CASE c = d
    BY <2>1, <2>3, <2>4 DEF Forks, Waiting, Unreaped
  <2>5. CASE c # d
    <3>1. parent'[c] = parent[c] /\ life'[c] = life[c]
      BY <2>1, <2>5 DEF Forks
    <3>2. run[p].at \notin Waiting
      BY <1>6 DEF IsFork, Waiting
    <3> QED
      BY <1>2, <2>3, <2>5, <3>1, <3>2 DEF Unreaped
  <2> QED
    BY <2>4, <2>5
<1>7. CASE IsForkFails(p)
  <2>1. run[p].kid = NoPid /\ run'[p].kid = NoPid
    BY <1>1, <1>7 DEF RunnerInv, IsForkFails, Keeps, Early
  <2> QED
    BY <1>1, <1>7, <2>1, SameChildren DEF IsForkFails, Settled
<1>8. CASE IsExec(p)
  <2>1. run'[p].at \in {"none", "loop"} /\ run[p].at = "child" /\ UNCHANGED <<life, parent>>
    BY <1>8 DEF IsExec, Becomes, NoRun, Concludes
  <2> QED
    BY <1>1, <2>1, SameChildren DEF Waiting
<1>9. CASE IsSend(p)
  <2>1. run'[p].at \in {"shut", "write"} /\ run[p].at = "send" /\ run'[p].kid = run[p].kid
        /\ UNCHANGED <<life, parent>>
    BY <1>9 DEF IsSend, Sends, Moves, Keeps, Settled
  <2> QED
    BY <1>1, <2>1, SameChildren DEF Waiting
<1>10. CASE IsWrite(p)
  <2>1. CASE run[p].sent /\ Concludes(p, "FAILED")
    <3>1. CutBefore(p)'
      BY <1>10, <2>1, ConcludeCut DEF IsWrite
    <3> QED
      BY <3>1 DEF Clean
  <2>2. CASE run'[p].at \in {"shut", "write"} /\ run'[p].kid = run[p].kid
    BY <1>1, <1>10, <2>2, SameChildren DEF IsWrite, Settled, Waiting
  <2> QED
    BY <1>10, <2>1, <2>2 DEF IsWrite, WritesInput, Moves, Keeps
<1>11. CASE IsShut(p)
  BY <1>1, <1>11, SameChildren DEF IsShut, Moves, Keeps, Settled, Waiting
<1>12. CASE IsWait(p)
  <2>1. run[p].at \in Waiting /\ UNCHANGED parent
    BY <1>12 DEF IsWait, Waiting
  <2>2. CASE \E d \in Pids : Reaps(p, d)
    <3>1. PICK d \in Pids : Reaps(p, d)
      BY <2>2
    <3>2. parent[d] = p /\ Unreaped(d)
      BY <3>1 DEF Reaps, Zombies, Unreaped
    <3>3. run[p].kid = d
      BY <1>1, <3>2 DEF ChildrenInv
    <3>4. run'[p].at = "out" /\ life'[d] = "reaped" /\ (c # d => life'[c] = life[c])
      BY <3>1, <3>3 DEF Reaps, Moves
    <3> QED
      BY <1>2, <2>1, <3>3, <3>4 DEF Unreaped, Waiting
  <2>3. CASE Children(p) = {} /\ UNCHANGED life
    <3>1. ~ (parent[c] = p /\ Unreaped(c))
      <4>1. life[c] \in Lives
        BY DEF Typed
      <4> QED
        BY <2>3, <4>1 DEF Children, Zombies, Unreaped, Lives
    <3>2. run'[p].at \in {"out", "loop"}
      <4>1. run[p].at = "wait"
        BY <1>12 DEF IsWait
      <4> QED
        BY <1>12, <2>3 DEF IsWait, Waits, Reaps, Moves, Concludes
    <3> QED
      BY <2>1, <2>3, <3>1, <3>2 DEF Waiting, Unreaped
  <2> QED
    BY <1>12, <2>2, <2>3 DEF IsWait, Waits
<1>13. CASE IsReadOut(p) \/ IsReadErr(p)
  <2>1. run'[p].at \in {"out", "err", "judge"} /\ run[p].at \in {"out", "err"} /\ Settled
    BY <1>13 DEF IsReadOut, IsReadErr, ReadsOut, ReadsErr, Moves
  <2> QED
    BY <1>1, <2>1, SameChildren DEF Settled, Waiting
<1>14. CASE IsFlushTap(p)
  BY <1>1, <1>14, SameChildren DEF IsFlushTap, Moves, Settled, Waiting
<1>15. CASE IsReturn(p)
  BY <1>1, <1>15 DEF IsReturn
<1> QED
  BY <1>4, <1>5, <1>6, <1>7, <1>8, <1>9, <1>10, <1>11, <1>12, <1>13, <1>14, <1>15 DEF RunnerStep

\* ChildrenInv
LEMMA ChildrenRunner ==
  ASSUME Typed, FamilyInv, RunInv, ChildrenInv, NEW p \in Pids, RunnerStep(p)
  PROVE  ChildrenInv'
<1> SUFFICES ASSUME NEW q \in Pids, NEW c \in Pids, Clean(q)'
             PROVE  parent'[c] = q /\ Unreaped(c)' <=> run'[q].at \in Waiting /\ run'[q].kid = c
  BY DEF ChildrenInv
<1>1. CASE q = p
  BY <1>1, ChildrenSelf
<1>2. CASE q # p /\ Forks(p, q)
  <2>1. run'[q].at = "child"
    BY <1>2 DEF Forks, Typed, RunType
  <2>2. parent'[c] # q
    <3>1. CASE c = q
      BY <1>2, <3>1 DEF Forks
    <3>2. CASE c # q
      <4>1. parent'[c] = parent[c] /\ life[q] = "free" /\ q # NoPid
        BY <1>2, <3>2, HarnessAssumption DEF Forks
      <4> QED
        BY <4>1 DEF FamilyInv
    <3> QED
      BY <3>1, <3>2
  <2> QED
    BY <2>1, <2>2 DEF Waiting
<1>3. CASE q # p /\ ~ Forks(p, q)
  <2>1. run'[q] = run[q] /\ Clean(q)
    BY <1>3, OthersStay, CleanBefore
  <2>2. parent[c] = q /\ Unreaped(c) <=> run[q].at \in Waiting /\ run[q].kid = c
    BY <2>1 DEF ChildrenInv
  <2>3. CASE c = p
    <3>1. parent'[c] = parent[c] /\ (Unreaped(c)' <=> Unreaped(c))
      BY <2>3, SelfStays DEF Unreaped
    <3> QED
      BY <2>1, <2>2, <3>1
  <2>4. CASE c # p /\ Forks(p, c)
    <3>1. parent'[c] = p /\ ~ Unreaped(c)
      BY <2>4 DEF Forks, Unreaped
    <3> QED
      BY <1>3, <2>1, <2>2, <3>1
  <2>5. CASE c # p /\ ~ Forks(p, c)
    <3>1. parent'[c] = parent[c]
      BY <2>5, OthersStay
    <3>2. life'[c] = life[c] \/ c \in Zombies(p)
      BY <2>5, OthersLive
    <3>3. c \in Zombies(p) => parent[c] = p
      BY DEF Zombies
    <3> QED
      BY <1>3, <2>1, <2>2, <3>1, <3>2, <3>3 DEF Unreaped
  <2> QED
    BY <2>3, <2>4, <2>5
<1> QED
  BY <1>1, <1>2, <1>3

\* ChildrenInv
LEMMA ChildrenVinumc ==
  ASSUME Typed, RunInv, ChildrenInv, NEW p \in Pids, VinumcStep(p), UNCHANGED <<run, Suite>>
  PROVE  ChildrenInv'
<1> SUFFICES ASSUME NEW q \in Pids, NEW c \in Pids, Clean(q)'
             PROVE  parent'[c] = q /\ Unreaped(c)' <=> run'[q].at \in Waiting /\ run'[q].kid = c
  BY DEF ChildrenInv
<1>1. Clean(q)
  BY CleanVinumc
<1>2. UNCHANGED <<parent, run>> /\ (Unreaped(c)' <=> Unreaped(c))
  BY DEF VinumcStep, Unreaped
<1> QED
  BY <1>1, <1>2 DEF ChildrenInv

\* The ends that a process has after a step of a runner, and those that it keeps
LEMMA EndsStay ==
  ASSUME Typed, NEW p \in Pids, RunnerStep(p), NEW i \in PipeIds, NEW q
  PROVE  /\ q \in pipes'[i].readers =>
              q \in pipes[i].readers \/ (IsSetUp(p) /\ q = p /\ i \in Used(p)) \/ Forks(p, q)
         /\ q \in pipes'[i].writers =>
              q \in pipes[i].writers \/ (IsSetUp(p) /\ q = p /\ i \in Used(p)) \/ Forks(p, q)
         /\ q # p /\ (IsSetUp(p) => i \notin Used(p)) =>
              /\ q \in pipes[i].readers => q \in pipes'[i].readers
              /\ q \in pipes[i].writers => q \in pipes'[i].writers
<1>1. CASE \/ IsSkip(p) \/ IsForkFails(p) \/ IsWait(p) \/ IsJudge(p)
  BY <1>1 DEF IsSkip, IsForkFails, IsWait, IsJudge
<1>2. CASE IsSetUp(p)
  <2>1. CASE i \in Used(p)
    BY <1>2, <2>1 DEF IsSetUp, SetsUp
  <2>2. CASE i \notin Used(p)
    BY <1>2, <2>2 DEF IsSetUp, SetsUp
  <2> QED
    BY <2>1, <2>2
<1>3. CASE IsFork(p)
  <2>1. PICK c \in Pids : Forks(p, c)
    BY <1>3 DEF IsFork
  <2>2. /\ q \in pipes'[i].readers <=> q \in pipes[i].readers \/ (q = c /\ p \in pipes[i].readers)
        /\ q \in pipes'[i].writers <=> q \in pipes[i].writers \/ (q = c /\ p \in pipes[i].writers)
    BY <2>1 DEF Forks
  <2> QED
    BY <2>1, <2>2
<1>4. CASE IsExec(p)
  BY <1>4 DEF IsExec, Becomes, Closes
<1>5. CASE IsSend(p)
  BY <1>5 DEF IsSend, Sends, Closes
<1>6. CASE IsWrite(p)
  BY <1>6 DEF IsWrite, WritesInput
<1>7. CASE IsShut(p)
  BY <1>7 DEF IsShut, Closes
<1>8. CASE IsReadOut(p) \/ IsReadErr(p)
  BY <1>8 DEF IsReadOut, IsReadErr, ReadsOut, ReadsErr, Drains, Closes
<1>9. CASE IsFlushTap(p)
  BY <1>9 DEF IsFlushTap, Prints
<1>10. CASE IsReturn(p)
  BY <1>10 DEF IsReturn, Closes
<1> QED
  BY <1>1, <1>2, <1>3, <1>4, <1>5, <1>6, <1>7, <1>8, <1>9, <1>10 DEF RunnerStep

\* The ends that a process has of the pipes of others
LEMMA OthersEnds ==
  ASSUME Typed, NEW p \in Pids, RunnerStep(p), ~ IsExec(p), ~ IsReturn(p), NEW i \in PipeIds, i[1] # p
  PROVE  p \in pipes[i].readers => p \in pipes'[i].readers
<1>1. \A end : i # Pipe(p, end)
  BY DEF Pipe
<1>2. CASE \/ IsSkip(p) \/ IsForkFails(p) \/ IsWait(p) \/ IsJudge(p)
  BY <1>2 DEF IsSkip, IsForkFails, IsWait, IsJudge
<1>3. CASE IsSetUp(p)
  <2>1. i \notin Used(p)
    BY UsedOwn
  <2> QED
    BY <1>3, <2>1 DEF IsSetUp, SetsUp
<1>4. CASE IsFork(p)
  BY <1>4 DEF IsFork, Forks
<1>5. CASE IsSend(p)
  BY <1>1, <1>5 DEF IsSend, Sends, Closes
<1>6. CASE IsWrite(p)
  BY <1>6 DEF IsWrite, WritesInput
<1>7. CASE IsShut(p)
  BY <1>7 DEF IsShut, Closes
<1>8. CASE IsReadOut(p) \/ IsReadErr(p)
  BY <1>1, <1>8 DEF IsReadOut, IsReadErr, ReadsOut, ReadsErr, Drains, Closes
<1>9. CASE IsFlushTap(p)
  BY <1>9 DEF IsFlushTap, Prints
<1> QED
  BY <1>2, <1>3, <1>4, <1>5, <1>6, <1>7, <1>8, <1>9 DEF RunnerStep

\* What is in the pipes of others
LEMMA OthersData ==
  ASSUME Typed, NEW p \in Pids, RunnerStep(p), NEW i \in PipeIds, i[1] # p
  PROVE  pipes'[i].data = pipes[i].data \/ (IsFlushTap(p) /\ i = std[p].out)
<1>1. \A end : i # Pipe(p, end)
  BY DEF Pipe
<1>2. CASE \/ IsSkip(p) \/ IsForkFails(p) \/ IsWait(p) \/ IsJudge(p)
  BY <1>2 DEF IsSkip, IsForkFails, IsWait, IsJudge
<1>3. CASE IsSetUp(p)
  <2>1. i \notin Used(p)
    BY UsedOwn
  <2> QED
    BY <1>3, <2>1 DEF IsSetUp, SetsUp
<1>4. CASE IsFork(p)
  BY <1>4 DEF IsFork, Forks
<1>5. CASE IsExec(p)
  BY <1>5 DEF IsExec, Becomes, Closes
<1>6. CASE IsSend(p)
  BY <1>6 DEF IsSend, Sends, Closes
<1>7. CASE IsWrite(p)
  BY <1>1, <1>7 DEF IsWrite, WritesInput
<1>8. CASE IsShut(p) \/ IsReturn(p)
  BY <1>8 DEF IsShut, IsReturn, Closes
<1>9. CASE IsReadOut(p) \/ IsReadErr(p)
  BY <1>1, <1>9 DEF IsReadOut, IsReadErr, ReadsOut, ReadsErr, Drains, Closes
<1>10. CASE IsFlushTap(p)
  BY <1>10 DEF IsFlushTap, Prints
<1> QED
  BY <1>2, <1>3, <1>4, <1>5, <1>6, <1>7, <1>8, <1>9, <1>10 DEF RunnerStep

\* While none of its inputs was cut short, what a runner waits for is the child of its test
LEMMA WaitsForKid ==
  ASSUME Typed, ChildrenInv, NEW p \in Pids, Clean(p), IsWait(p)
  PROVE  /\ Moves(p, "out") /\ KeepsBut(p)
         /\ run[p].kid # NoPid => Reaps(p, run[p].kid) /\ run'[p].status = life[run[p].kid]
<1>1. CASE \E d \in Pids : Reaps(p, d)
  <2>1. PICK d \in Pids : Reaps(p, d)
    BY <1>1
  <2>2. parent[d] = p /\ Unreaped(d)
    BY <2>1 DEF Reaps, Zombies, Unreaped
  <2>3. run[p].kid = d
    BY <2>2 DEF ChildrenInv
  <2> QED
    BY <2>1, <2>3 DEF Reaps
<1>2. CASE /\ Children(p) = {}
           /\ \/ run[p].kid = NoPid /\ Moves(p, "out") /\ KeepsBut(p)
              \/ run[p].kid # NoPid /\ Concludes(p, "FAILED")
  <2>1. CASE run[p].kid = NoPid
    BY <1>2, <2>1
  <2>2. CASE run[p].kid # NoPid
    <3>1. run[p].kid \in Pids
      BY <2>2 DEF Typed, RunType
    <3>2. parent[run[p].kid] = p /\ Unreaped(run[p].kid)
      BY <3>1 DEF ChildrenInv, IsWait, Waiting
    <3>3. life[run[p].kid] \in Lives
      BY <3>1 DEF Typed
    <3>4. run[p].kid \in Children(p)
      BY <3>1, <3>2, <3>3 DEF Children, Zombies, Unreaped, Lives
    <3> QED
      BY <1>2, <3>4
  <2> QED
    BY <2>1, <2>2
<1> QED
  BY <1>1, <1>2 DEF IsWait, Waits

\* While none was cut short, none is by this step
LEMMA WritesClean ==
  ASSUME Typed, NEW p \in Pids, IsWrite(p), ~ CutBefore(p)'
  PROVE  /\ run'[p].at \in {"write", "shut"} /\ run'[p].test = run[p].test
         /\ run'[p].kid = run[p].kid
         /\ \A i \in PipeIds : pipes'[i].readers = pipes[i].readers /\ pipes'[i].writers = pipes[i].writers
<1>1. ~ (run[p].sent /\ Concludes(p, "FAILED"))
  BY ConcludeCut DEF IsWrite
<1> QED
  BY <1>1 DEF IsWrite, WritesInput, Moves, Keeps

\* What may be held at each stage
LEMMA MayFacts ==
  /\ MayRead("none") = {} /\ MayWrite("none") = {} /\ MayRead("loop") = {} /\ MayWrite("loop") = {}
  /\ MayRead("child") = {} /\ MayWrite("child") = {} /\ MayRead("judge") = {} /\ MayWrite("judge") = {}
  /\ MayRead("return") = {} /\ MayWrite("return") = {}
  /\ MayRead("fork") = Ends /\ MayWrite("fork") = Ends /\ MayRead("send") = Ends /\ MayWrite("send") = Ends
  /\ MayRead("write") = {"out", "err"} /\ MayWrite("write") = Ends
  /\ MayRead("shut") = {"out", "err"} /\ MayWrite("shut") = Ends
  /\ MayRead("wait") = {"out", "err"} /\ MayWrite("wait") = {}
  /\ MayRead("out") = {"out", "err"} /\ MayWrite("out") = {}
  /\ MayRead("err") = {"err"} /\ MayWrite("err") = {}
BY DEF MayRead, MayWrite

\* Where the test goes on and no end is taken or closed that may still be held
LEMMA SameEnds ==
  ASSUME NEW p, NEW k, NEW end, EndOk(p, k, end), UNCHANGED suite, run'[p].test = run[p].test,
         p \in pipes'[<<p, k, end>>].readers => p \in pipes[<<p, k, end>>].readers,
         p \in pipes'[<<p, k, end>>].writers => p \in pipes[<<p, k, end>>].writers,
         MayRead(run[p].at) \subseteq MayRead(run'[p].at),
         MayWrite(run[p].at) \subseteq MayWrite(run'[p].at)
  PROVE  EndOk(p, k, end)'
BY DEF EndOk, Test, MayRead, MayWrite

\* Where no end was held
LEMMA NoEnds ==
  ASSUME NEW p, NEW k, NEW end, EndOk(p, k, end),
         p \in pipes'[<<p, k, end>>].readers => p \in pipes[<<p, k, end>>].readers,
         p \in pipes'[<<p, k, end>>].writers => p \in pipes[<<p, k, end>>].writers,
         MayRead(run[p].at) = {}, MayWrite(run[p].at) = {}
  PROVE  EndOk(p, k, end)'
BY DEF EndOk

\* EndsInv, of the runner itself
LEMMA EndsSelf ==
  ASSUME Typed, RunInv, ChildrenInv, NEW p \in Pids, RunnerStep(p), Clean(p)',
         NEW k \in Runs, NEW end \in Ends, EndOk(p, k, end)
  PROVE  EndOk(p, k, end)'
<1> DEFINE i == <<p, k, end>>
<1>1. i \in PipeIds /\ UNCHANGED suite /\ ~ Forks(p, p) /\ Clean(p)
  BY PipeIn, CleanBefore DEF RunnerStep, Forks
<1>2. ~ IsSetUp(p) => /\ p \in pipes'[i].readers => p \in pipes[i].readers
                      /\ p \in pipes'[i].writers => p \in pipes[i].writers
  BY <1>1, EndsStay
<1>3. life'[p] = "alive" /\ run'[p].at # "none" /\ ~ CutBefore(p)'
  BY DEF Clean
<1>4. CASE ~ IsSetUp(p) /\ run[p].at \in {"loop", "child", "judge"}
  BY <1>2, <1>4, MayFacts, NoEnds
<1>5. CASE IsSkip(p) \/ IsExec(p) \/ IsJudge(p) \/ IsFlushTap(p)
  <2>1. run[p].at \in {"loop", "child", "judge"}
    BY <1>5 DEF IsSkip, IsExec, IsJudge, IsFlushTap
  <2>2. CASE IsSetUp(p)
    <3>1. CASE run'[p].at = "fork"
      <4>1. FALSE
        BY <1>3, <1>5, <3>1 DEF IsSkip, IsExec, IsJudge, IsFlushTap, Concludes, Moves, Becomes, NoRun
      <4> QED
        BY <4>1
    <3> QED
      BY <2>2, <3>1 DEF IsSetUp, SetsUp, Moves
  <2> QED
    BY <1>4, <2>1, <2>2
<1>6. CASE IsSetUp(p)
  <2>1. run'[p].at = "fork" /\ run'[p].test = run[p].test /\ Test(p)' = Test(p)
    BY <1>1, <1>6 DEF IsSetUp, SetsUp, Moves, Test
  <2>2. CASE i \in Used(p)
    <3>1. k = run[p].test /\ (end = "in" => Test(p).input # Nothing)
      BY <2>2 DEF Used, Pipe
    <3> QED
      BY <2>1, <3>1, MayFacts DEF EndOk
  <2>3. CASE i \notin Used(p)
    <3>1. pipes'[i] = pipes[i]
      BY <1>1, <1>6, <2>3 DEF IsSetUp, SetsUp
    <3>2. MayRead(run[p].at) = {} /\ MayWrite(run[p].at) = {}
      BY <1>6, MayFacts DEF IsSetUp
    <3> QED
      BY <3>1, <3>2, NoEnds
  <2> QED
    BY <2>2, <2>3
<1>7. CASE ~ IsSetUp(p) /\ run'[p].test = run[p].test
           /\ MayRead(run[p].at) \subseteq MayRead(run'[p].at)
           /\ MayWrite(run[p].at) \subseteq MayWrite(run'[p].at)
  BY <1>1, <1>2, <1>7, SameEnds
<1>8. run[p].at # "loop" => ~ IsSetUp(p)
  BY DEF IsSetUp
<1>9. CASE IsFork(p)
  <2>1. PICK c \in Pids : Forks(p, c)
    BY <1>9 DEF IsFork
  <2>2. run'[p] = [run[p] EXCEPT !.at = "send", !.kid = c] /\ run[p] \in RunType
    BY <2>1 DEF Forks, Typed
  <2>3. run'[p].at = "send" /\ run'[p].test = run[p].test
    BY <2>2 DEF RunType
  <2> QED
    BY <1>7, <1>8, <1>9, <2>3, MayFacts DEF IsFork
<1>10. CASE IsForkFails(p)
  BY <1>7, <1>8, <1>10, MayFacts DEF IsForkFails, Moves
<1>11. CASE IsSend(p)
  <2>1. CASE Test(p).input = Nothing /\ Moves(p, "shut")
    <3>1. run[p].at = "send" /\ run'[p].at = "shut" /\ run'[p].test = run[p].test
      BY <1>11, <2>1 DEF IsSend, Moves
    <3>2. Test(p)' = Test(p)
      BY <1>1, <3>1 DEF Test
    <3> QED
      BY <1>2, <1>8, <2>1, <3>1, <3>2, MayFacts DEF EndOk, Ends
  <2>2. CASE Moves(p, "write") /\ Closes(p, {Pipe(p, "in")}, {})
    <3>1. run[p].at = "send" /\ run'[p].at = "write" /\ run'[p].test = run[p].test
      BY <1>11, <2>2 DEF IsSend, Moves
    <3>2. Test(p)' = Test(p)
      BY <1>1, <3>1 DEF Test
    <3>3. p \in pipes'[i].readers => i # Pipe(p, "in")
      BY <1>1, <2>2 DEF Closes
    <3>4. k = run[p].test /\ end = "in" => i = Pipe(p, "in")
      BY DEF Pipe
    <3> QED
      BY <1>2, <1>8, <3>1, <3>2, <3>3, <3>4, MayFacts DEF EndOk, Ends
  <2> QED
    BY <1>11, <2>1, <2>2 DEF IsSend, Sends
<1>12. CASE IsWrite(p)
  <2>1. run[p].at = "write" /\ run'[p].at \in {"write", "shut"} /\ run'[p].test = run[p].test
    BY <1>3, <1>12, WritesClean DEF IsWrite
  <2> QED
    BY <1>7, <1>8, <2>1, MayFacts
<1>13. CASE IsShut(p)
  <2>1. run[p].at = "shut" /\ run'[p].at = "wait" /\ run'[p].test = run[p].test
    BY <1>13 DEF IsShut, Moves
  <2>2. Test(p)' = Test(p)
    BY <1>1, <2>1 DEF Test
  <2>3. p \in pipes'[i].writers => i \notin {Pipe(p, "in"), Pipe(p, "out"), Pipe(p, "err")}
    BY <1>1, <1>13 DEF IsShut, Closes
  <2>4. k = run[p].test => i \in {Pipe(p, "in"), Pipe(p, "out"), Pipe(p, "err")}
    BY DEF Pipe, Ends
  <2> QED
    BY <1>2, <1>8, <2>1, <2>2, <2>3, <2>4, MayFacts DEF EndOk
<1>14. CASE IsWait(p)
  <2>1. run[p].at = "wait" /\ run'[p].at = "out" /\ run'[p].test = run[p].test
    BY <1>1, <1>14, WaitsForKid DEF IsWait, Moves
  <2> QED
    BY <1>7, <1>8, <2>1, MayFacts
<1>15. CASE IsReadOut(p)
  <2>1. CASE Moves(p, "out")
    BY <1>7, <1>8, <1>15, <2>1 DEF IsReadOut, Moves
  <2>2. CASE Closes(p, {Pipe(p, "out")}, {}) /\ Moves(p, "err")
    <3>1. run[p].at = "out" /\ run'[p].at = "err" /\ run'[p].test = run[p].test
      BY <1>15, <2>2 DEF IsReadOut, Moves
    <3>2. Test(p)' = Test(p)
      BY <1>1, <3>1 DEF Test
    <3>3. p \in pipes'[i].readers => i # Pipe(p, "out")
      BY <1>1, <2>2 DEF Closes
    <3>4. k = run[p].test /\ end = "out" => i = Pipe(p, "out")
      BY DEF Pipe
    <3> QED
      BY <1>2, <1>8, <3>1, <3>2, <3>3, <3>4, MayFacts DEF EndOk, Ends
  <2> QED
    BY <1>15, <2>1, <2>2 DEF IsReadOut, ReadsOut
<1>16. CASE IsReadErr(p)
  <2>1. CASE Moves(p, "err")
    BY <1>7, <1>8, <1>16, <2>1 DEF IsReadErr, Moves
  <2>2. CASE Closes(p, {Pipe(p, "err")}, {}) /\ Moves(p, "judge")
    <3>1. run[p].at = "err" /\ run'[p].at = "judge" /\ run'[p].test = run[p].test
      BY <1>16, <2>2 DEF IsReadErr, Moves
    <3>2. Test(p)' = Test(p)
      BY <1>1, <3>1 DEF Test
    <3>3. p \in pipes'[i].readers => i # Pipe(p, "err")
      BY <1>1, <2>2 DEF Closes
    <3>4. k = run[p].test /\ end = "err" => i = Pipe(p, "err")
      BY DEF Pipe
    <3> QED
      BY <1>2, <1>8, <3>1, <3>2, <3>3, <3>4, MayFacts DEF EndOk, Ends
  <2> QED
    BY <1>16, <2>1, <2>2 DEF IsReadErr, ReadsErr
<1>17. CASE IsReturn(p)
  BY <1>3, <1>17 DEF IsReturn
<1> QED
  BY <1>5, <1>6, <1>9, <1>10, <1>11, <1>12, <1>13, <1>14, <1>15, <1>16, <1>17 DEF RunnerStep

\* EndsInv
LEMMA EndsRunner ==
  ASSUME Typed, KernelInv, RunInv, ChildrenInv, EndsInv, NEW p \in Pids, RunnerStep(p)
  PROVE  EndsInv'
<1> SUFFICES ASSUME NEW q \in Pids, NEW k \in Runs, NEW end \in Ends, Clean(q)'
             PROVE  EndOk(q, k, end)'
  BY DEF EndsInv
<1> DEFINE i == <<q, k, end>>
<1>1. i \in PipeIds /\ UNCHANGED suite
  BY PipeIn DEF RunnerStep
<1>2. CASE q = p
  <2>1. EndOk(p, k, end)
    BY <1>2, CleanBefore DEF EndsInv, Forks
  <2> QED
    BY <1>2, <2>1, EndsSelf
<1>3. CASE q # p /\ Forks(p, q)
  <2>1. ~ Holds(q, i) /\ ~ Holds(p, i) /\ q # p
    BY <1>3 DEF KernelInv, Forks
  <2>2. /\ q \in pipes'[i].readers <=> q \in pipes[i].readers \/ (q = q /\ p \in pipes[i].readers)
        /\ q \in pipes'[i].writers <=> q \in pipes[i].writers \/ (q = q /\ p \in pipes[i].writers)
    BY <1>1, <1>3 DEF Forks
  <2>3. q \notin pipes'[i].readers /\ q \notin pipes'[i].writers
    BY <2>1, <2>2 DEF Holds
  <2> QED
    BY <2>3 DEF EndOk
<1>4. CASE q # p /\ ~ Forks(p, q)
  <2>1. run'[q] = run[q] /\ Clean(q)
    BY <1>4, OthersStay, CleanBefore
  <2>2. EndOk(q, k, end)
    BY <2>1 DEF EndsInv
  <2>3. /\ q \in pipes'[i].readers => q \in pipes[i].readers
        /\ q \in pipes'[i].writers => q \in pipes[i].writers
    BY <1>1, <1>4, EndsStay
  <2> QED
    BY <1>1, <2>1, <2>2, <2>3, SameEnds
<1> QED
  BY <1>2, <1>3, <1>4

\* EndsInv
LEMMA EndsVinumc ==
  ASSUME Typed, RunInv, EndsInv, NEW p \in Pids, VinumcStep(p), UNCHANGED <<run, Suite>>
  PROVE  EndsInv'
<1> SUFFICES ASSUME NEW q \in Pids, NEW k \in Runs, NEW end \in Ends, Clean(q)'
             PROVE  EndOk(q, k, end)'
  BY DEF EndsInv
<1> DEFINE i == <<q, k, end>>
<1>1. i \in PipeIds /\ UNCHANGED suite /\ Clean(q) /\ run'[q] = run[q]
  BY PipeIn, CleanVinumc DEF Suite
<1>2. EndOk(q, k, end)
  BY <1>1 DEF EndsInv
<1>3. /\ q \in pipes'[i].readers => q \in pipes[i].readers
      /\ q \in pipes'[i].writers => q \in pipes[i].writers
  BY <1>1 DEF VinumcStep
<1> QED
  BY <1>1, <1>2, <1>3, SameEnds

\* HeldInv, of the runner itself
LEMMA HeldSelf ==
  ASSUME Typed, RunInv, NEW p \in Pids, RunnerStep(p), HeldOk(p)
  PROVE  HeldOk(p)'
<1>1. UNCHANGED suite /\ run[p].at # "none"
  BY SelfStays DEF RunnerStep
<1>2. run[p].at \notin {"loop", "return"} =>
        Pipe(p, "in") \in PipeIds /\ Pipe(p, "out") \in PipeIds /\ Pipe(p, "err") \in PipeIds
  BY <1>1, TestFacts DEF RunInv, RunnerInv
<1>3. CASE run'[p].at \in {"none", "loop", "child", "judge", "return"}
  BY <1>3 DEF HeldOk, Waiting
<1>4. CASE IsSkip(p) \/ IsJudge(p)
  BY <1>3, <1>4 DEF IsSkip, IsJudge, Concludes
<1>5. CASE IsSetUp(p)
  <2>1. run'[p].at = "fork" /\ Test(p)' = Test(p) /\ run[p].test <= Len(suite)
        /\ \A end : Pipe(p, end)' = Pipe(p, end)
    BY <1>1, <1>5 DEF IsSetUp, SetsUp, Moves, Test, Pipe
  <2>2. Pipe(p, "in") \in PipeIds /\ Pipe(p, "out") \in PipeIds /\ Pipe(p, "err") \in PipeIds
    BY <2>1, TestFacts
  <2>3. \A i \in PipeIds : i \in Used(p) => p \in pipes'[i].readers /\ p \in pipes'[i].writers
    BY <1>5 DEF IsSetUp, SetsUp
  <2>4. /\ Pipe(p, "out") \in Used(p) /\ Pipe(p, "err") \in Used(p)
        /\ Test(p).input # Nothing => Pipe(p, "in") \in Used(p)
    BY DEF Used
  <2> QED
    BY <2>1, <2>2, <2>3, <2>4 DEF HeldOk, Waiting
<1>6. CASE IsFork(p)
  <2>1. PICK c \in Pids : Forks(p, c)
    BY <1>6 DEF IsFork
  <2>2. run'[p] = [run[p] EXCEPT !.at = "send", !.kid = c] /\ run[p] \in RunType
    BY <2>1 DEF Forks, Typed
  <2>3. run'[p].at = "send" /\ run'[p].test = run[p].test /\ run[p].at = "fork"
    BY <1>6, <2>2 DEF RunType, IsFork
  <2>4. Test(p)' = Test(p) /\ \A end : Pipe(p, end)' = Pipe(p, end)
    BY <1>1, <2>3 DEF Test, Pipe
  <2>5. \A i \in PipeIds : /\ p \in pipes[i].readers => p \in pipes'[i].readers
                           /\ p \in pipes[i].writers => p \in pipes'[i].writers
    BY <2>1 DEF Forks
  <2> QED
    BY <1>2, <2>3, <2>4, <2>5 DEF HeldOk, Waiting
<1>7. CASE IsForkFails(p)
  <2>1. run'[p].at = "send" /\ run'[p].test = run[p].test /\ run[p].at = "fork" /\ UNCHANGED pipes
    BY <1>7 DEF IsForkFails, Moves
  <2> QED
    BY <1>1, <2>1 DEF HeldOk, Waiting, Test, Pipe
<1>8. CASE IsExec(p)
  BY <1>3, <1>8 DEF IsExec, Becomes, NoRun, Concludes
<1>9. CASE IsSend(p)
  <2>1. CASE Test(p).input = Nothing /\ Moves(p, "shut") /\ UNCHANGED pipes
    BY <1>1, <1>9, <2>1 DEF IsSend, Moves, HeldOk, Waiting, Test, Pipe
  <2>2. CASE Moves(p, "write") /\ Closes(p, {Pipe(p, "in")}, {})
    <3>1. run'[p].at = "write" /\ run'[p].test = run[p].test /\ run[p].at = "send"
      BY <1>9, <2>2 DEF IsSend, Moves
    <3>2. Test(p)' = Test(p) /\ \A end : Pipe(p, end)' = Pipe(p, end)
      BY <1>1, <3>1 DEF Test, Pipe
    <3>3. Pipe(p, "in") # Pipe(p, "out") /\ Pipe(p, "in") # Pipe(p, "err")
      BY DEF Pipe
    <3> QED
      BY <1>2, <2>2, <3>1, <3>2, <3>3 DEF HeldOk, Waiting, Closes
  <2> QED
    BY <1>9, <2>1, <2>2 DEF IsSend, Sends
<1>10. CASE IsWrite(p)
  <2>1. CASE Concludes(p, "FAILED")
    BY <1>3, <2>1 DEF Concludes
  <2>2. CASE /\ run'[p].at \in {"write", "shut"} /\ run'[p].test = run[p].test
             /\ \A i \in PipeIds :
                  pipes'[i].readers = pipes[i].readers /\ pipes'[i].writers = pipes[i].writers
    <3>1. Test(p)' = Test(p) /\ \A end : Pipe(p, end)' = Pipe(p, end)
      BY <1>1, <2>2 DEF Test, Pipe
    <3>2. run[p].at = "write"
      BY <1>10 DEF IsWrite
    <3> QED
      BY <1>2, <2>2, <3>1, <3>2 DEF HeldOk, Waiting
  <2> QED
    BY <1>10, <2>1, <2>2 DEF IsWrite, WritesInput, Moves
<1>11. CASE IsShut(p)
  <2>1. run'[p].at = "wait" /\ run'[p].test = run[p].test /\ run[p].at = "shut"
    BY <1>11 DEF IsShut, Moves
  <2>2. \A i \in PipeIds : p \in pipes[i].readers => p \in pipes'[i].readers
    BY <1>11 DEF IsShut, Closes
  <2> QED
    BY <1>1, <1>2, <2>1, <2>2 DEF HeldOk, Waiting, Test, Pipe
<1>12. CASE IsWait(p)
  <2>1. CASE Moves(p, "out")
    BY <1>1, <1>12, <2>1 DEF IsWait, Moves, HeldOk, Waiting, Test, Pipe
  <2> QED
    BY <1>3, <1>12, <2>1 DEF IsWait, Waits, Reaps, Concludes
<1>13. CASE IsReadOut(p)
  <2>1. /\ run'[p].at \in {"out", "err"} /\ run'[p].test = run[p].test /\ run[p].at = "out"
        /\ \A i \in PipeIds : p \in pipes[i].readers =>
             p \in pipes'[i].readers \/ (i = Pipe(p, "out") /\ run'[p].at = "err")
    BY <1>13 DEF IsReadOut, ReadsOut, Moves, Closes, Drains
  <2>2. Pipe(p, "err") # Pipe(p, "out")
    BY DEF Pipe
  <2>3. Test(p)' = Test(p) /\ \A end : Pipe(p, end)' = Pipe(p, end)
    BY <1>1, <2>1 DEF Test, Pipe
  <2> QED
    BY <1>2, <2>1, <2>2, <2>3 DEF HeldOk, Waiting
<1>14. CASE IsReadErr(p)
  <2>1. CASE Moves(p, "err") /\ Drains(Pipe(p, "err"))
    <3>1. run'[p].at = "err" /\ run'[p].test = run[p].test /\ run[p].at = "err"
      BY <1>14, <2>1 DEF IsReadErr, Moves
    <3>2. \A i \in PipeIds : pipes'[i].readers = pipes[i].readers
      BY <2>1 DEF Drains
    <3> QED
      BY <1>1, <1>2, <3>1, <3>2 DEF HeldOk, Waiting, Test, Pipe
  <2>2. CASE Moves(p, "judge")
    BY <1>3, <2>2 DEF Moves
  <2> QED
    BY <1>14, <2>1, <2>2 DEF IsReadErr, ReadsErr
<1>15. CASE IsFlushTap(p)
  BY <1>3, <1>15 DEF IsFlushTap, Moves
<1>16. CASE IsReturn(p)
  BY <1>3, <1>16 DEF IsReturn
<1> QED
  BY <1>4, <1>5, <1>6, <1>7, <1>8, <1>9, <1>10, <1>11, <1>12, <1>13, <1>14, <1>15, <1>16
  DEF RunnerStep

\* The pipes of a runner that is at a test
LEMMA RunnerPipes ==
  ASSUME Typed, RunInv, NEW q \in Pids, run[q].at \notin {"none", "loop", "return"}
  PROVE  /\ Pipe(q, "in") \in PipeIds /\ Pipe(q, "out") \in PipeIds /\ Pipe(q, "err") \in PipeIds
         /\ IsTest(Test(q)) /\ \A end : Pipe(q, end)[1] = q /\ Pipe(q, end)[3] = end
<1>1. run[q].test <= Len(suite)
  BY DEF RunInv, RunnerInv
<1> QED
  BY <1>1, TestFacts DEF Pipe

\* HeldInv
LEMMA HeldRunner ==
  ASSUME Typed, RunInv, HeldInv, NEW p \in Pids, RunnerStep(p)
  PROVE  HeldInv'
<1> SUFFICES ASSUME NEW q \in Pids, life'[q] = "alive"
             PROVE  HeldOk(q)'
  BY DEF HeldInv
<1>1. CASE q = p
  BY <1>1, HeldSelf, SelfStays DEF HeldInv
<1>2. CASE q # p /\ Forks(p, q)
  <2>1. run'[q].at = "child"
    BY <1>2 DEF Forks, Typed, RunType
  <2> QED
    BY <2>1 DEF HeldOk, Waiting
<1>3. CASE q # p /\ ~ Forks(p, q)
  <2>1. run'[q] = run[q] /\ life[q] = "alive" /\ UNCHANGED suite
    BY <1>3, OthersStay DEF RunnerStep
  <2>2. HeldOk(q) /\ Test(q)' = Test(q) /\ \A end : Pipe(q, end)' = Pipe(q, end)
    BY <2>1 DEF HeldInv, Test, Pipe
  <2>3. CASE run[q].at \in {"none", "loop", "return"}
    BY <2>1, <2>3 DEF HeldOk, Waiting
  <2>4. CASE run[q].at \notin {"none", "loop", "return"}
    <3>1. ASSUME NEW end \in Ends
          PROVE  /\ q \in pipes[Pipe(q, end)].readers => q \in pipes'[Pipe(q, end)].readers
                 /\ q \in pipes[Pipe(q, end)].writers => q \in pipes'[Pipe(q, end)].writers
      <4>1. Pipe(q, end) \in PipeIds /\ Pipe(q, end)[1] = q
        BY <2>4, RunnerPipes DEF Ends
      <4>2. Pipe(q, end) \notin Used(p)
        BY <1>3, <4>1, UsedOwn
      <4> QED
        BY <1>3, <4>1, <4>2, EndsStay
    <3>2. "in" \in Ends /\ "out" \in Ends /\ "err" \in Ends
      BY DEF Ends
    <3> QED
      BY <2>1, <2>2, <3>1, <3>2 DEF HeldOk
  <2> QED
    BY <2>3, <2>4
<1> QED
  BY <1>1, <1>2, <1>3

\* HeldInv
LEMMA HeldVinumc ==
  ASSUME Typed, RunInv, HeldInv, NEW p \in Pids, VinumcStep(p), UNCHANGED <<run, Suite>>
  PROVE  HeldInv'
<1> SUFFICES ASSUME NEW q \in Pids, life'[q] = "alive"
             PROVE  HeldOk(q)'
  BY DEF HeldInv
<1>1. life[q] = "alive" /\ UNCHANGED suite
  BY DEF VinumcStep, Suite
<1>2. HeldOk(q) /\ Test(q)' = Test(q) /\ \A end : Pipe(q, end)' = Pipe(q, end)
  BY <1>1 DEF HeldInv, Test, Pipe
<1>3. CASE run[q].at \in {"none", "loop", "return"}
  BY <1>3 DEF HeldOk, Waiting
<1>4. CASE run[q].at \notin {"none", "loop", "return"}
  <2>1. ASSUME NEW end \in Ends
        PROVE  /\ q \in pipes[Pipe(q, end)].readers => q \in pipes'[Pipe(q, end)].readers
               /\ q \in pipes[Pipe(q, end)].writers => q \in pipes'[Pipe(q, end)].writers
    <3>1. Pipe(q, end) \in PipeIds
      BY <1>4, RunnerPipes DEF Ends
    <3> QED
      BY <3>1 DEF VinumcStep
  <2>2. "in" \in Ends /\ "out" \in Ends /\ "err" \in Ends
    BY DEF Ends
  <2> QED
    BY <1>2, <2>1, <2>2 DEF HeldOk
<1> QED
  BY <1>3, <1>4

\* The child that a runner waits for is another process
LEMMA KidFacts ==
  ASSUME Typed, FamilyInv, ChildrenInv, NEW p \in Pids, Clean(p), run[p].at \in Waiting,
         NEW c \in Pids, run[p].kid = c
  PROVE  c # p /\ parent[c] = p /\ Unreaped(c)
<1>1. parent[c] = p /\ Unreaped(c) /\ p # NoPid
  BY HarnessAssumption DEF ChildrenInv
<1> QED
  BY <1>1 DEF FamilyInv

\* KidInv, of the runner's own steps
LEMMA KidSelf ==
  ASSUME Typed, FamilyInv, RunInv, ChildrenInv, HeldInv, KidInv, NEW p \in Pids, RunnerStep(p),
         Clean(p)', run'[p].at \in Waiting, NEW c \in Pids, run'[p].kid = c
  PROVE  KidOk(p, c)'
<1>1. Clean(p) /\ UNCHANGED suite /\ RunnerInv(p)
  BY CleanBefore DEF Forks, RunnerStep, RunInv
<1>2. CASE IsFork(p)
  <2>1. PICK d \in Pids : Forks(p, d)
    BY <1>2 DEF IsFork
  <2>2. run'[p] = [run[p] EXCEPT !.at = "send", !.kid = d] /\ run[p] \in RunType
        /\ run'[d] = [run[p] EXCEPT !.at = "child"]
    BY <2>1 DEF Forks, Typed
  <2>3. run'[p].test = run[p].test /\ c = d /\ run'[d].at = "child" /\ run'[d].test = run[p].test
    BY <2>2 DEF RunType
  <2>4. std'[d] = std[p] /\ std'[p] = std[p] /\ d # p
    BY <2>1 DEF Forks
  <2>5. Test(p)' = Test(p) /\ Pipe(p, "in")' = Pipe(p, "in") /\ run[p].at = "fork"
    BY <1>1, <1>2, <2>3 DEF Test, Pipe, IsFork
  <2>6. Test(p).input # Nothing => p \in pipes[Pipe(p, "in")].readers
    BY <1>1, <2>5 DEF HeldInv, HeldOk, Clean
  <2>7. Pipe(p, "in") \in PipeIds
    BY <2>5, RunnerPipes
  <2>8. Test(p).input # Nothing => d \in pipes'[Pipe(p, "in")].readers
    BY <2>1, <2>6, <2>7 DEF Forks
  <2> QED
    BY <2>3, <2>4, <2>5, <2>8 DEF KidOk
<1>3. CASE /\ run[p].at \in {"send", "write", "shut"} /\ run'[p].test = run[p].test
           /\ run[p].kid = c
  <2>1. run[p].at \in Waiting /\ run[p].at # "child" /\ ~ IsSetUp(p) /\ ~ IsFork(p)
    BY <1>3 DEF Waiting, IsSetUp, IsFork
  <2>2. c # p /\ Unreaped(c) /\ KidOk(p, c)
    BY <1>1, <1>3, <2>1, KidFacts DEF KidInv
  <2>3. ~ Forks(p, c)
    BY <2>2 DEF Forks, Unreaped
  <2>4. run'[c] = run[c] /\ std'[c] = std[c] /\ (life'[c] = "alive" => life[c] = "alive")
    BY <2>2, <2>3, OthersStay
  <2>5. std'[p] = std[p]
    BY <2>1, StreamsStay
  <2>6. Test(p)' = Test(p) /\ \A end : Pipe(p, end)' = Pipe(p, end)
    BY <1>1, <1>3 DEF Test, Pipe
  <2>7. Pipe(p, "in") \in PipeIds
    BY <1>3, RunnerPipes
  <2>8. c \in pipes[Pipe(p, "in")].readers => c \in pipes'[Pipe(p, "in")].readers
    BY <2>1, <2>2, <2>7, EndsStay
  <2> QED
    BY <1>3, <2>2, <2>4, <2>5, <2>6, <2>8 DEF KidOk
<1>4. CASE IsForkFails(p)
  BY <1>1, <1>4, HarnessAssumption DEF IsForkFails, Keeps, RunnerInv, Early
<1>5. CASE IsSend(p)
  BY <1>3, <1>5 DEF IsSend, Sends, Moves, Keeps
<1>6. CASE IsWrite(p)
  <2>1. run'[p].test = run[p].test /\ run[p].kid = c
    BY <1>6, WritesClean DEF Clean
  <2> QED
    BY <1>3, <1>6, <2>1 DEF IsWrite
<1>7. CASE IsShut(p)
  BY <1>3, <1>7 DEF IsShut, Moves, Keeps
<1>8. CASE run'[p].at \notin Waiting
  BY <1>8
<1>9. CASE IsSkip(p) \/ IsJudge(p)
  BY <1>9 DEF IsSkip, IsJudge, Concludes, Waiting
<1>10. CASE IsSetUp(p) \/ IsFlushTap(p)
  BY <1>10 DEF IsSetUp, SetsUp, IsFlushTap, Moves, Waiting
<1>11. CASE IsExec(p)
  BY <1>11 DEF IsExec, Becomes, NoRun, Concludes, Waiting
<1>12. CASE IsWait(p)
  BY <1>1, <1>12, WaitsForKid DEF Moves, Waiting
<1>13. CASE IsReadOut(p) \/ IsReadErr(p)
  BY <1>13 DEF IsReadOut, IsReadErr, ReadsOut, ReadsErr, Moves, Waiting
<1>14. CASE IsReturn(p)
  BY <1>14 DEF IsReturn, Waiting
<1> QED
  BY <1>2, <1>4, <1>5, <1>6, <1>7, <1>9, <1>10, <1>11, <1>12, <1>13, <1>14 DEF RunnerStep

\* KidInv, of the child's own steps
LEMMA KidKid ==
  ASSUME Typed, RunInv, NEW p \in Pids, RunnerStep(p), NEW q \in Pids, q # p, parent[p] = q,
         run[q].at \in Waiting, run'[q] = run[q], std'[q] = std[q], KidOk(q, p)
  PROVE  KidOk(q, p)'
<1>1. UNCHANGED suite /\ Test(q)' = Test(q) /\ \A end : Pipe(q, end)' = Pipe(q, end)
  BY DEF RunnerStep, Test, Pipe
<1>2. Pipe(q, "in") \in PipeIds /\ Pipe(q, "in")[1] = q
  BY RunnerPipes DEF Waiting
<1>3. CASE IsExec(p)
  <2>1. run[p].at = "child" /\ run[p].test = run[q].test /\ std[p] = std[q]
    BY <1>3 DEF IsExec, KidOk
  <2>2. Test(p) = Test(q) /\ \A end : <<parent[p], run[p].test, end>> = Pipe(q, end)
    BY <2>1 DEF Test, Pipe
  <2>3. /\ std'[p].out = Pipe(q, "out") /\ std'[p].err = Pipe(q, "err")
        /\ std'[p].in = IF Test(q).input = Nothing THEN std[q].in ELSE Pipe(q, "in")
        /\ run'[p].at # "child"
        /\ Closes(p, {Pipe(q, "out"), Pipe(q, "err")}, {Pipe(q, "in")})
    <3>1. Becomes(p)
      BY <1>3 DEF IsExec
    <3>2. /\ std'[p].out = <<parent[p], run[p].test, "out">>
          /\ std'[p].err = <<parent[p], run[p].test, "err">>
          /\ std'[p].in = IF Test(p).input = Nothing THEN std[p].in
                          ELSE <<parent[p], run[p].test, "in">>
          /\ Closes(p, {<<parent[p], run[p].test, "out">>, <<parent[p], run[p].test, "err">>},
                       {<<parent[p], run[p].test, "in">>})
      BY <3>1 DEF Becomes
    <3>3. run'[p].at # "child"
      BY <3>1 DEF Becomes, NoRun, Concludes
    <3> QED
      BY <2>1, <2>2, <3>2, <3>3
  <2>4. Pipe(q, "in") # Pipe(q, "out") /\ Pipe(q, "in") # Pipe(q, "err")
    BY DEF Pipe
  <2>5. p \in pipes[Pipe(q, "in")].readers => p \in pipes'[Pipe(q, "in")].readers
    BY <1>2, <2>3, <2>4 DEF Closes
  <2>6. life[p] = "alive"
    BY SelfStays
  <2> QED
    BY <1>1, <2>3, <2>5, <2>6 DEF KidOk
<1>4. CASE ~ IsExec(p)
  <2>1. run[p].at # "child"
    BY <1>4 DEF RunnerStep, IsSkip, IsSetUp, IsFork, IsForkFails, IsSend, IsWrite, IsShut,
      IsWait, IsReadOut, IsReadErr, IsJudge, IsFlushTap, IsReturn
  <2>2. std'[p] = std[p] /\ run'[p].at # "child"
    BY <2>1, StreamsStay
  <2>3. life[p] = "alive"
    BY SelfStays
  <2>4. CASE IsReturn(p)
    BY <1>1, <2>1, <2>2, <2>4 DEF IsReturn, KidOk
  <2>5. CASE ~ IsReturn(p)
    <3>1. p \in pipes[Pipe(q, "in")].readers => p \in pipes'[Pipe(q, "in")].readers
      BY <1>2, <1>4, <2>5, OthersEnds
    <3> QED
      BY <1>1, <2>1, <2>2, <2>3, <3>1 DEF KidOk
  <2> QED
    BY <2>4, <2>5
<1> QED
  BY <1>3, <1>4

\* KidInv
LEMMA KidRunner ==
  ASSUME Typed, FamilyInv, RunInv, ChildrenInv, HeldInv, KidInv, NEW p \in Pids, RunnerStep(p)
  PROVE  KidInv'
<1> SUFFICES ASSUME NEW q \in Pids, NEW c \in Pids, Clean(q)', run'[q].at \in Waiting, run'[q].kid = c
             PROVE  KidOk(q, c)'
  BY DEF KidInv, Waiting
<1>1. CASE q = p
  BY <1>1, KidSelf
<1>2. CASE q # p /\ Forks(p, q)
  BY <1>2 DEF Forks, Typed, RunType, Waiting
<1>3. CASE q # p /\ ~ Forks(p, q)
  <2>1. run'[q] = run[q] /\ std'[q] = std[q] /\ Clean(q) /\ UNCHANGED suite
    BY <1>3, OthersStay, CleanBefore DEF RunnerStep
  <2>2. c # q /\ parent[c] = q /\ Unreaped(c) /\ KidOk(q, c)
    BY <2>1, KidFacts DEF KidInv
  <2>3. CASE c = p
    <3>1. KidOk(q, p)'
      BY <1>3, <2>1, <2>2, <2>3, KidKid
    <3> QED
      BY <2>3, <3>1
  <2>4. CASE c # p
    <3>1. ~ Forks(p, c)
      BY <2>2 DEF Forks, Unreaped
    <3>2. run'[c] = run[c] /\ std'[c] = std[c] /\ (life'[c] = "alive" => life[c] = "alive")
      BY <2>2, <2>4, <3>1, OthersStay
    <3>3. Pipe(q, "in") \in PipeIds /\ Pipe(q, "in")[1] = q
      BY <2>1, RunnerPipes DEF Waiting
    <3>4. Pipe(q, "in") \notin Used(p)
      BY <1>3, <3>3, UsedOwn
    <3>5. c \in pipes[Pipe(q, "in")].readers => c \in pipes'[Pipe(q, "in")].readers
      BY <2>4, <3>3, <3>4, EndsStay
    <3>6. Test(q)' = Test(q) /\ \A end : Pipe(q, end)' = Pipe(q, end)
      BY <2>1 DEF Test, Pipe
    <3>7. KidOk(q, c)'
      BY <2>1, <2>2, <3>2, <3>5, <3>6 DEF KidOk
    <3> QED
      BY <3>7
  <2> QED
    BY <2>3, <2>4
<1> QED
  BY <1>1, <1>2, <1>3

\* KidInv
LEMMA KidVinumc ==
  ASSUME Typed, FamilyInv, RunInv, ChildrenInv, KidInv, NEW p \in Pids, VinumcStep(p),
         UNCHANGED <<run, Suite>>
  PROVE  KidInv'
<1> SUFFICES ASSUME NEW q \in Pids, NEW c \in Pids, Clean(q)', run'[q].at \in Waiting, run'[q].kid = c
             PROVE  KidOk(q, c)'
  BY DEF KidInv, Waiting
<1>1. Clean(q) /\ UNCHANGED <<std, suite>>
  BY CleanVinumc DEF VinumcStep, Suite
<1>2. KidOk(q, c)
  BY <1>1 DEF KidInv
<1>3. Pipe(q, "in") \in PipeIds
  BY RunnerPipes DEF Waiting
<1>4. life'[c] = "alive" => life[c] = "alive"
  BY <1>2 DEF VinumcStep
<1>5. life'[c] = "alive" /\ c \in pipes[Pipe(q, "in")].readers => c \in pipes'[Pipe(q, "in")].readers
  BY <1>2, <1>3 DEF VinumcStep
<1>6. Test(q)' = Test(q) /\ \A end : Pipe(q, end)' = Pipe(q, end)
  BY <1>1 DEF Test, Pipe
<1>7. KidOk(q, c)'
  BY <1>1, <1>2, <1>4, <1>5, <1>6 DEF KidOk
<1> QED
  BY <1>7

\* WriteInv, of the runner itself
LEMMA WriteSelf ==
  ASSUME Typed, RunInv, NEW p \in Pids, RunnerStep(p), WriteOk(p)
  PROVE  WriteOk(p)'
<1>1. UNCHANGED suite /\ RunnerInv(p)
  BY DEF RunnerStep, RunInv
<1>2. CASE run'[p].at \notin {"fork", "send", "write"}
  BY <1>2 DEF WriteOk
<1>3. CASE run'[p].at \in {"fork", "send"} /\ run[p].at = "fork" /\ run'[p].test = run[p].test
           /\ run'[p].sent = run[p].sent
           /\ \A i \in PipeIds : pipes'[i].data = pipes[i].data
  <2>1. Pipe(p, "in") \in PipeIds
    BY <1>3, RunnerPipes
  <2>2. Test(p)' = Test(p) /\ Pipe(p, "in")' = Pipe(p, "in")
    BY <1>1, <1>3 DEF Test, Pipe
  <2> QED
    BY <1>3, <2>1, <2>2 DEF WriteOk
<1>4. CASE IsSetUp(p)
  <2>1. run'[p].at = "fork" /\ Test(p)' = Test(p) /\ run[p].test <= Len(suite)
        /\ Pipe(p, "in")' = Pipe(p, "in")
    BY <1>1, <1>4 DEF IsSetUp, SetsUp, Moves, Test, Pipe
  <2>2. Pipe(p, "in") \in PipeIds
    BY <2>1, TestFacts
  <2>3. Test(p).input # Nothing => pipes'[Pipe(p, "in")].data = <<>>
    BY <1>4, <2>2 DEF IsSetUp, SetsUp, Used
  <2> QED
    BY <2>1, <2>3 DEF WriteOk
<1>5. CASE IsFork(p)
  <2>1. PICK c \in Pids : Forks(p, c)
    BY <1>5 DEF IsFork
  <2>2. run'[p] = [run[p] EXCEPT !.at = "send", !.kid = c] /\ run[p] \in RunType
    BY <2>1 DEF Forks, Typed
  <2>3. run'[p].at = "send" /\ run'[p].test = run[p].test /\ run'[p].sent = run[p].sent
        /\ run[p].at = "fork"
    BY <1>5, <2>2 DEF RunType, IsFork
  <2>4. \A i \in PipeIds : pipes'[i].data = pipes[i].data
    BY <2>1 DEF Forks
  <2> QED
    BY <1>3, <2>3, <2>4
<1>6. CASE IsForkFails(p)
  BY <1>3, <1>6 DEF IsForkFails, Moves, Keeps
<1>7. CASE IsSend(p)
  <2>1. CASE Moves(p, "shut")
    BY <1>2, <2>1 DEF Moves
  <2>2. CASE /\ Test(p).input # Nothing /\ Moves(p, "write") /\ run'[p].left = Test(p).input
             /\ run'[p].sent = run[p].sent /\ Closes(p, {Pipe(p, "in")}, {})
    <3>1. run[p].at = "send" /\ run'[p].at = "write" /\ run'[p].test = run[p].test /\ ~ run[p].sent
      BY <1>1, <1>7, <2>2 DEF IsSend, Moves, RunnerInv
    <3>2. Test(p)' = Test(p) /\ Pipe(p, "in")' = Pipe(p, "in")
      BY <1>1, <3>1 DEF Test, Pipe
    <3>3. Pipe(p, "in") \in PipeIds
      BY <3>1, RunnerPipes
    <3>4. pipes'[Pipe(p, "in")].data = <<>>
      BY <2>2, <3>1, <3>3 DEF Closes, WriteOk
    <3> QED
      BY <2>2, <3>1, <3>2, <3>4 DEF WriteOk
  <2> QED
    BY <1>7, <2>1, <2>2 DEF IsSend, Sends
<1>8. CASE IsWrite(p)
  <2>1. CASE Concludes(p, "FAILED") \/ Moves(p, "shut")
    BY <1>2, <2>1 DEF Concludes, Moves
  <2>2. CASE /\ Moves(p, IF run'[p].left = <<>> THEN "shut" ELSE "write") /\ run'[p].sent
             /\ \E part \in Text : Passes(p, part)
    <3>1. PICK part \in Text : Passes(p, part)
      BY <2>2
    <3>2. run[p].at = "write" /\ run'[p].test = run[p].test
      BY <1>8, <2>2 DEF IsWrite, Moves
    <3>3. Test(p)' = Test(p) /\ Pipe(p, "in")' = Pipe(p, "in") /\ Test(p).input # Nothing
      BY <1>1, <3>2 DEF Test, Pipe, WriteOk
    <3>4. run[p].left \in Text /\ run'[p].left \in Text
      BY <2>2 DEF Typed, RunType, Moves
    <3>5. ASSUME run'[p].left # <<>>
          PROVE  Len(Test(p).input) > PipeSize
      <4>1. run[p].left = part \o run'[p].left /\ Len(pipes'[Pipe(p, "in")].data) = PipeSize
        BY <3>1, <3>5 DEF Passes
      <4>2. CASE run[p].sent
        <5>1. run[p].left # <<>>
          BY <3>4, <3>5, <4>1, ConcatText
        <5> QED
          BY <3>2, <4>2, <5>1 DEF WriteOk
      <4>3. CASE ~ run[p].sent
        <5>1. pipes[Pipe(p, "in")].data = <<>> /\ run[p].left = Test(p).input
          BY <3>2, <3>3, <4>3 DEF WriteOk
        <5>2. pipes'[Pipe(p, "in")].data = <<>> \o part
          BY <3>1, <5>1 DEF Passes
        <5>3. Len(part) = PipeSize
          BY <4>1, <5>2, LenText
        <5>4. Len(run[p].left) = Len(part) + Len(run'[p].left)
          BY <3>4, <4>1, ConcatText
        <5>5. Len(run'[p].left) \in Nat /\ Len(run'[p].left) # 0 /\ PipeSize \in Nat
          BY <3>4, <3>5, LenText, ProcessesAssumption
        <5> QED
          BY <5>1, <5>3, <5>4, <5>5
      <4> QED
        BY <4>2, <4>3
    <3> QED
      BY <2>2, <3>3, <3>5 DEF WriteOk, Moves
  <2> QED
    BY <1>8, <2>1, <2>2 DEF IsWrite, WritesInput
<1>9. CASE IsSkip(p) \/ IsJudge(p)
  BY <1>2, <1>9 DEF IsSkip, IsJudge, Concludes
<1>10. CASE IsShut(p) \/ IsFlushTap(p)
  BY <1>2, <1>10 DEF IsShut, IsFlushTap, Moves
<1>11. CASE IsExec(p)
  BY <1>2, <1>11 DEF IsExec, Becomes, NoRun, Concludes
<1>12. CASE IsWait(p)
  BY <1>2, <1>12 DEF IsWait, Waits, Reaps, Moves, Concludes
<1>13. CASE IsReadOut(p) \/ IsReadErr(p)
  BY <1>2, <1>13 DEF IsReadOut, IsReadErr, ReadsOut, ReadsErr, Moves
<1>14. CASE IsReturn(p)
  BY <1>2, <1>14 DEF IsReturn
<1> QED
  BY <1>4, <1>5, <1>6, <1>7, <1>8, <1>9, <1>10, <1>11, <1>12, <1>13, <1>14 DEF RunnerStep

\* WriteInv
LEMMA WriteRunner ==
  ASSUME Typed, RunInv, StreamInv, WriteInv, NEW p \in Pids, RunnerStep(p)
  PROVE  WriteInv'
<1> SUFFICES ASSUME NEW q \in Pids, life'[q] = "alive"
             PROVE  WriteOk(q)'
  BY DEF WriteInv
<1>1. CASE q = p
  BY <1>1, WriteSelf, SelfStays DEF WriteInv
<1>2. CASE q # p /\ Forks(p, q)
  <2>1. run'[q].at = "child"
    BY <1>2 DEF Forks, Typed, RunType
  <2> QED
    BY <2>1 DEF WriteOk
<1>3. CASE q # p /\ ~ Forks(p, q)
  <2>1. run'[q] = run[q] /\ life[q] = "alive" /\ UNCHANGED suite
    BY <1>3, OthersStay DEF RunnerStep
  <2>2. WriteOk(q) /\ Test(q)' = Test(q) /\ Pipe(q, "in")' = Pipe(q, "in")
    BY <2>1 DEF WriteInv, Test, Pipe
  <2>3. CASE run[q].at \notin {"fork", "send", "write"}
    BY <2>1, <2>3 DEF WriteOk
  <2>4. CASE run[q].at \in {"fork", "send", "write"}
    <3>1. Pipe(q, "in") \in PipeIds /\ Pipe(q, "in")[1] = q /\ Pipe(q, "in")[3] = "in"
      BY <2>4, RunnerPipes
    <3>2. Pipe(q, "in") # std[p].out
      BY <3>1, NotTerminal DEF StreamInv
    <3>3. pipes'[Pipe(q, "in")].data = pipes[Pipe(q, "in")].data
      BY <1>3, <3>1, <3>2, OthersData
    <3> QED
      BY <2>1, <2>2, <3>3 DEF WriteOk
  <2> QED
    BY <2>3, <2>4
<1> QED
  BY <1>1, <1>2, <1>3

\* WriteInv
LEMMA WriteVinumc ==
  ASSUME Typed, RunInv, StreamInv, WriteInv, NEW p \in Pids, VinumcStep(p), UNCHANGED <<run, Suite>>
  PROVE  WriteInv'
<1> SUFFICES ASSUME NEW q \in Pids, life'[q] = "alive"
             PROVE  WriteOk(q)'
  BY DEF WriteInv
<1>1. life[q] = "alive" /\ UNCHANGED suite
  BY DEF VinumcStep, Suite
<1>2. WriteOk(q) /\ Test(q)' = Test(q) /\ Pipe(q, "in")' = Pipe(q, "in")
  BY <1>1 DEF WriteInv, Test, Pipe
<1>3. CASE run[q].at \notin {"fork", "send", "write"}
  BY <1>3 DEF WriteOk
<1>4. CASE run[q].at \in {"fork", "send", "write"}
  <2>1. Pipe(q, "in") \in PipeIds /\ Pipe(q, "in")[3] = "in"
    BY <1>4, RunnerPipes
  <2>2. Pipe(q, "in") # std[p].out /\ Pipe(q, "in") # std[p].err
    BY <2>1, NotTerminal DEF StreamInv
  <2>3. \/ pipes'[Pipe(q, "in")].data = pipes[Pipe(q, "in")].data
        \/ pipes'[Pipe(q, "in")].data = <<>>
    BY <2>1, <2>2 DEF VinumcStep
  <2> QED
    BY <1>2, <2>3 DEF WriteOk
<1> QED
  BY <1>3, <1>4

-----------------------------------------------------------------------------
(* The whole invariant.                                                        *)
IInv ==
  /\ Typed /\ KernelInv /\ FamilyInv /\ RunInv /\ RootInv /\ StreamInv /\ JobInv /\ DestInv
  /\ ChildrenInv /\ EndsInv /\ HeldInv /\ KidInv /\ WriteInv

\* It holds at the start
LEMMA InitInv == Init => IInv
<1> SUFFICES ASSUME Init PROVE IInv
  OBVIOUS
<1>1. Root \in Pids /\ NoPid \notin Pids
  BY ProcessesAssumption, HarnessAssumption DEF Root
<1>2. /\ life[Root] = "alive" /\ \A p \in Pids : p # Root => life[p] = "free"
      /\ life \in [Pids -> Lives]
  BY <1>1 DEF Init, Lives
<1>3. \A p \in Pids : parent[p] = NoPid
  BY DEF Init
<1>4. \A p \in Pids : std[p] = [in |-> Terminal, out |-> Terminal, err |-> Terminal]
  BY DEF Init
<1>5. \A i \in PipeIds : pipes[i] = NoPipe
  BY DEF Init
<1>6. NoPipe \in PipeType /\ NoPipe.data = <<>> /\ NoPipe.readers = {} /\ NoPipe.writers = {}
  BY EmptyText DEF NoPipe, PipeType
<1>7. NoJob \in JobType /\ NoJob.options = Nothing
  BY EmptyText DEF NoJob, Job, JobType, JobStages, Cocktails
<1> DEFINE first == [NoRun EXCEPT !.at = "loop"]
<1>8. /\ run[Root] = first /\ \A p \in Pids : p # Root => run[p] = NoRun
      /\ run \in [Pids -> RunType]
  <2>1. NoRun \in RunType /\ first \in RunType
    BY NoRunTyped DEF RunType, Stages
  <2> QED
    BY <1>1, <2>1 DEF Init
<1>9. /\ NoRun.at = "none" /\ NoRun.test = 1 /\ NoRun.verdicts = <<>> /\ NoRun.kid = NoPid
      /\ ~ NoRun.sent /\ NoRun.out = <<>> /\ NoRun.err = <<>>
      /\ first.at = "loop" /\ first.test = 1 /\ first.verdicts = <<>> /\ first.kid = NoPid
      /\ ~ first.sent /\ first.out = <<>> /\ first.err = <<>>
  BY DEF NoRun
<1> HIDE DEF first
<1>10. \A p \in Pids : job[p] = NoJob
  BY DEF Init
<1>11. Typed
  <2>1. job \in [Pids -> JobType] /\ pipes \in [PipeIds -> PipeType]
    BY <1>6, <1>7 DEF Init
  <2>2. std \in [Pids -> StdType] /\ parent \in [Pids -> Pids \union {NoPid}]
    BY DEF Init, StdType, Streams
  <2>3. files \in [Paths -> FileTexts] /\ suite \in Suites /\ onPath \in BOOLEAN
    BY HarnessAssumption DEF Init
  <2> QED
    BY <1>2, <1>8, <2>1, <2>2, <2>3 DEF Typed
<1>12. KernelInv
  BY <1>5, <1>6, EmptyText, ProcessesAssumption, PipeIn DEF KernelInv, Holds
<1>13. FamilyInv
  BY <1>1, <1>2, <1>3 DEF FamilyInv
<1>14. RunInv
  <2>1. Len(suite) \in Nat
    BY <1>11, SuiteFacts
  <2>2. \A p \in Pids : RunnerInv(p)
    BY <1>8, <1>9, <2>1, EmptyText DEF RunnerInv, Early
  <2> QED
    BY <1>2, <1>7, <1>8, <1>9, <1>10, <2>2 DEF RunInv
<1>15. RootInv
  BY <1>1, <1>2, <1>4, <1>8, <1>9 DEF RootInv, Init
<1>16. StreamInv
  BY <1>2, <1>4 DEF StreamInv
<1>17. JobInv
  BY <1>7, <1>10 DEF JobInv
<1>18. \A p \in Pids : run[p].at \in {"none", "loop"}
  BY <1>8, <1>9
<1>19. ChildrenInv
  BY <1>1, <1>3, <1>18 DEF ChildrenInv, Waiting
<1>20. EndsInv
  <2>1. \A p \in Pids, k \in Runs, end \in Ends : EndOk(p, k, end)
    BY <1>5, <1>6, PipeIn DEF EndOk
  <2> QED
    BY <2>1 DEF EndsInv
<1>21. HeldInv
  BY <1>18 DEF HeldInv, HeldOk, Waiting
<1>22. KidInv
  BY <1>18 DEF KidInv, Waiting
<1>23. WriteInv
  BY <1>18 DEF WriteInv, WriteOk
<1>24. DestInv
  BY <1>10, NotTerminal DEF DestInv, NoJob, Job
<1> QED
  BY <1>11, <1>12, <1>13, <1>14, <1>15, <1>16, <1>17, <1>19, <1>20, <1>21, <1>22, <1>23, <1>24 DEF IInv

\* A step of a runner keeps it
LEMMA RunnerKeeps ==
  ASSUME IInv, NEW p \in Pids, Runner(p) PROVE IInv' /\ RunnerStep(p)
<1>1. /\ Typed /\ KernelInv /\ FamilyInv /\ RunInv /\ RootInv /\ StreamInv /\ JobInv /\ DestInv
      /\ ChildrenInv /\ EndsInv /\ HeldInv /\ KidInv /\ WriteInv
  BY DEF IInv
<1>2. RunnerStep(p)
  BY <1>1, AnyRunnerStep
<1>3. Typed'
  BY <1>1, <1>2, TypedRunner
<1>4. KernelInv'
  BY <1>1, <1>2, KernelRunner
<1>5. FamilyInv'
  BY <1>1, <1>2, FamilyRunner
<1>6. RunInv'
  BY <1>1, <1>2, RunRunner
<1>7. RootInv'
  BY <1>1, <1>2, RootRunner
<1>8. StreamInv'
  BY <1>1, <1>2, StreamRunner
<1>9. JobInv'
  BY <1>1, <1>2, JobRunner
<1>10. ChildrenInv'
  BY <1>1, <1>2, ChildrenRunner
<1>11. EndsInv'
  BY <1>1, <1>2, EndsRunner
<1>12. HeldInv'
  BY <1>1, <1>2, HeldRunner
<1>13. KidInv'
  BY <1>1, <1>2, KidRunner
<1>14. WriteInv'
  BY <1>1, <1>2, WriteRunner
<1>15. DestInv'
  BY <1>1, <1>2, DestRunner
<1> QED
  BY <1>2, <1>3, <1>4, <1>5, <1>6, <1>7, <1>8, <1>9, <1>10, <1>11, <1>12, <1>13, <1>14, <1>15 DEF IInv

\* A step of a vinumc keeps it
LEMMA VinumcKeeps ==
  ASSUME CompileAnswers, IInv, NEW p \in Pids, Vinumc(p), UNCHANGED <<run, Suite>>
  PROVE  IInv' /\ VinumcStep(p)
<1>1. /\ Typed /\ KernelInv /\ FamilyInv /\ RunInv /\ RootInv /\ StreamInv /\ JobInv /\ DestInv
      /\ ChildrenInv /\ EndsInv /\ HeldInv /\ KidInv /\ WriteInv
  BY DEF IInv
<1>2. VinumcStep(p)
  BY <1>1, AnyVinumcStep
<1>3. Typed'
  BY <1>1, <1>2, TypedVinumc
<1>4. KernelInv'
  BY <1>1, <1>2, KernelVinumc
<1>5. FamilyInv'
  BY <1>1, <1>2, FamilyVinumc
<1>6. RunInv'
  BY <1>1, <1>2, RunVinumc
<1>7. RootInv'
  BY <1>1, <1>2, RootVinumc
<1>8. StreamInv'
  BY <1>1, <1>2, StreamVinumc
<1>9. JobInv'
  BY <1>1, <1>2, JobVinumc
<1>10. ChildrenInv'
  BY <1>1, <1>2, ChildrenVinumc
<1>11. EndsInv'
  BY <1>1, <1>2, EndsVinumc
<1>12. HeldInv'
  BY <1>1, <1>2, HeldVinumc
<1>13. KidInv'
  BY <1>1, <1>2, KidVinumc
<1>14. WriteInv'
  BY <1>1, <1>2, WriteVinumc
<1>15. DestInv'
  BY <1>1, <1>2, DestVinumc
<1> QED
  BY <1>2, <1>3, <1>4, <1>5, <1>6, <1>7, <1>8, <1>9, <1>10, <1>11, <1>12, <1>13, <1>14, <1>15 DEF IInv

\* Where nothing happens
LEMMA StutterKeeps ==
  ASSUME IInv, UNCHANGED vars PROVE IInv'
<1>1. /\ Typed /\ KernelInv /\ FamilyInv /\ RunInv /\ RootInv /\ StreamInv /\ JobInv /\ DestInv
      /\ ChildrenInv /\ EndsInv /\ HeldInv /\ KidInv /\ WriteInv
  BY DEF IInv
<1>2. UNCHANGED <<life, parent, std, pipes, files, job, suite, onPath, run, tap>>
  BY DEF vars, kernel
<1>3. \A p \in Pids : Clean(p)' <=> Clean(p)
  BY <1>2 DEF Clean, CutBefore
<1>4. \A p : Test(p)' = Test(p) /\ \A end : Pipe(p, end)' = Pipe(p, end)
  BY <1>2 DEF Test, Pipe
<1>5. Typed' /\ FamilyInv' /\ RootInv' /\ StreamInv'
  BY <1>1, <1>2 DEF Typed, FamilyInv, RootInv, StreamInv
<1>6. KernelInv' /\ RunInv' /\ JobInv' /\ DestInv'
  BY <1>1, <1>2 DEF KernelInv, Holds, RunInv, RunnerInv, JobInv, JobOk, DestInv
<1>7. ChildrenInv'
  BY <1>1, <1>2, <1>3 DEF ChildrenInv, Unreaped
<1>8. EndsInv'
  BY <1>1, <1>2, <1>3, <1>4 DEF EndsInv, EndOk
<1>9. HeldInv'
  BY <1>1, <1>2, <1>4 DEF HeldInv, HeldOk
<1>10. KidInv'
  BY <1>1, <1>2, <1>3, <1>4 DEF KidInv, KidOk
<1>11. WriteInv'
  BY <1>1, <1>2, <1>4 DEF WriteInv, WriteOk
<1> QED
  BY <1>5, <1>6, <1>7, <1>8, <1>9, <1>10, <1>11 DEF IInv

\* Every step keeps it
LEMMA NextKeeps ==
  ASSUME CompileAnswers, IInv, [Next]_vars PROVE IInv'
<1>1. ASSUME NEW p \in Pids, Runner(p) \/ (Vinumc(p) /\ UNCHANGED <<run, Suite>>)
      PROVE  IInv'
  BY <1>1, RunnerKeeps, VinumcKeeps
<1> QED
  BY <1>1, StutterKeeps DEF Next

-----------------------------------------------------------------------------
(* The theorems.                                                               *)

\* The invariant holds in every state of every run
LEMMA Invariant ==
  ASSUME CompileAnswers PROVE Spec => []IInv
<1>1. IInv /\ [Next]_vars => IInv'
  BY NextKeeps
<1> QED
  BY <1>1, InitInv, PTL DEF Spec

(* No pipe is ever overfull or held by a process that has ended, and a runner  *)
(* has one verdict for each test that it is done with (vunit.c:213, 288).      *)
THEOREM TypeCorrect ==
  ASSUME CompileAnswers PROVE Spec => []TypeOK
<1>1. IInv => TypeOK
  <2> SUFFICES ASSUME IInv PROVE TypeOK
    OBVIOUS
  <2>1. Typed /\ KernelInv /\ RunInv /\ RootInv
    BY DEF IInv
  <2>2. life \in [Pids -> {"free", "alive", "exited", "killed", "reaped"}]
        /\ parent \in [Pids -> Pids \union {NoPid}]
    BY <2>1 DEF Typed, Lives
  <2>3. \A i \in PipeIds : /\ Len(pipes[i].data) <= PipeSize
                           /\ \A p \in pipes[i].readers \union pipes[i].writers : life[p] = "alive"
    <3>1. \A i \in PipeIds : pipes[i].readers \subseteq Pids /\ pipes[i].writers \subseteq Pids
      BY <2>1 DEF Typed, PipeType
    <3> QED
      BY <2>1, <3>1 DEF KernelInv, Holds
  <2>4. \A p \in Pids : /\ Len(run[p].verdicts) = run[p].test - 1
                        /\ run[p].at # "none" => run[p].test \in 1..(Len(suite) + 1)
    <3>1. \A p \in Pids : run[p].test \in Nat \ {0}
      BY <2>1 DEF Typed, RunType
    <3>2. Len(suite) \in Nat
      BY <2>1, SuiteFacts
    <3> QED
      BY <2>1, <3>1, <3>2 DEF RunInv, RunnerInv
  <2>5. Len(tap) <= Cardinality(Pids)
    <3>1. IsFiniteSet(Pids) /\ Root \in Pids
      BY ProcessesAssumption DEF Root
    <3>2. Cardinality(Pids) \in Nat /\ Cardinality(Pids) # 0
      BY <3>1, FS_CardinalityType, FS_EmptySet
    <3>3. Len(tap) = 0 \/ Len(tap) = 1
      BY <2>1 DEF RootInv
    <3> QED
      BY <3>2, <3>3
  <2> QED
    BY <2>2, <2>3, <2>4, <2>5 DEF TypeOK
<1> QED
  BY <1>1, Invariant, PTL

(* One process prints the results of the suite on its stdout, one line a test, *)
(* although a child that cannot become vinumc returns from main as well        *)
(* (vunit.c:361).                                                              *)
THEOREM PrintedOnce ==
  ASSUME CompileAnswers PROVE Spec => []TapOnce
<1>1. IInv => TapOnce
  <2> SUFFICES ASSUME IInv, tap # <<>>
               PROVE  tap = <<run[Root].verdicts>> /\ Len(tap[1]) = Len(suite)
    BY DEF TapOnce
  <2>1. Root \in Pids /\ Typed /\ RunInv /\ RootInv
    BY ProcessesAssumption DEF IInv, Root
  <2>2. run[Root].at = "return" /\ tap = <<run[Root].verdicts>>
    BY <2>1 DEF RootInv
  <2>3. Len(run[Root].verdicts) = run[Root].test - 1 /\ run[Root].test = Len(suite) + 1
    BY <2>1, <2>2 DEF RunInv, RunnerInv
  <2>4. Len(suite) \in Nat
    BY <2>1, SuiteFacts
  <2> QED
    BY <2>2, <2>3, <2>4
<1> QED
  BY <1>1, Invariant, PTL

(* A runner that comes back to its loop has closed all it opened for its tests,*)
(* unless an assertion of vunit_run_vinumc failed (vunit.c:299-318).           *)
THEOREM EndsClosed ==
  ASSUME CompileAnswers PROVE Spec => []NoEndLeft
<1>1. IInv => NoEndLeft
  <2> SUFFICES ASSUME IInv, NEW p \in Pids, Running(p, "loop"), ~ CutBefore(p),
                      NEW k \in Runs, NEW end \in {"in", "out", "err"}
               PROVE  p \notin pipes[<<p, k, end>>].readers \union pipes[<<p, k, end>>].writers
    BY DEF NoEndLeft
  <2>1. Clean(p) /\ run[p].at = "loop" /\ end \in Ends
    BY DEF Running, Clean, Ends
  <2>2. EndOk(p, k, end)
    BY <2>1 DEF IInv, EndsInv
  <2> QED
    BY <2>1, <2>2, MayFacts DEF EndOk
<1> QED
  BY <1>1, Invariant, PTL

=============================================================================
