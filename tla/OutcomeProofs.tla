--------------------------- MODULE OutcomeProofs ---------------------------
(* What the test runner reads of a run of vinumc is what that run comes to,    *)
(* and a test passes exactly when that is what it asks for.                    *)
EXTENDS HarnessProofs

\* How a run ends, what it prints and what it leaves in its files
Result(status, out, err, fs) == [status |-> status, out |-> out, err |-> err, files |-> fs]

(* What vinumc comes to from each of its stages on, on files fs, with stdin    *)
(* still to read, and out and err in the pipes already.                        *)
FromFlush(dest, text, fs, out, err) ==
  Result("exited", IF dest \in Paths THEN out ELSE out \o text, err,
         IF dest \in Paths THEN [fs EXCEPT ![dest] = @ \o text] ELSE fs)
FromReport(dies, dest, text, reports, fs, out, err) ==
  IF dies \/ dest = Nothing THEN Result("killed", out, err \o reports, fs)
  ELSE FromFlush(dest, text, fs, out, err \o reports)
FromCompile(program, cocktail, dest, fs, out, err) ==
  LET answer == Compile(program, cocktail)
  IN  FromReport(answer.dies, dest, answer.out, answer.err, fs, out, err)
FromEffects(o, program, dest, fs, out, err) ==
  FromCompile(program, Effects(fs, o.effects), dest, fs, out, err)
FromRead(o, dest, fs, stdin, out, err) ==
  IF o.input = Nothing THEN FromEffects(o, stdin, dest, fs, out, err)
  ELSE IF fs[o.input] = Absent THEN Result("killed", out, err, fs)
  ELSE FromEffects(o, ReadAll(fs[o.input]), dest, fs, out, err)
FromOpen(o, fs, stdin, out, err) ==
  IF o.output = Nothing THEN FromRead(o, Terminal, fs, stdin, out, err)
  ELSE IF fs[o.output] = Directory THEN FromRead(o, Nothing, fs, stdin, out, err)
  ELSE FromRead(o, o.output, [fs EXCEPT ![o.output] = <<>>], stdin, out, err)
FromUsage(o, fs, stdin, out, err) ==
  IF o.usage = Nothing THEN FromOpen(o, fs, stdin, out, err)
  ELSE Result("exited", out \o <<o.usage>>, err, fs)
FromParse(o, fs, stdin, out, err) ==
  IF o.known THEN FromUsage(o, fs, stdin, out, err) ELSE Result("killed", out, err, fs)

From(j, fs, stdin, out, err) ==
  CASE j.at = "parse"   -> FromParse(j.options, fs, stdin, out, err)
    [] j.at = "usage"   -> FromUsage(j.options, fs, stdin, out, err)
    [] j.at = "open"    -> FromOpen(j.options, fs, stdin, out, err)
    [] j.at = "read"    -> FromRead(j.options, j.dest, fs, j.program \o stdin, out, err)
    [] j.at = "effects" -> FromEffects(j.options, j.program, j.dest, fs, out, err)
    [] j.at = "compile" -> FromCompile(j.program, j.cocktail, j.dest, fs, out, err)
    [] j.at = "report"  -> FromReport(j.dies, j.dest, j.out, j.err, fs, out, err)
    [] j.at = "flush"   -> FromFlush(j.dest, j.out, fs, out, err)

\* What it comes to at its end and before
Comes(status, j, fs, stdin, out, err) ==
  IF status = "alive" THEN From(j, fs, stdin, out, err) ELSE Result(status, out, err, fs)

-----------------------------------------------------------------------------
(* The inductive invariant, beyond that of HarnessProofs.                      *)

(* Where vinumc is not found every process runs the suite, to its end; where   *)
(* it is, only the first does.                                                 *)
RunnersOk(p) ==
  /\ ~ onPath /\ life[p] # "free" => run[p].at # "none"
  /\ ~ onPath /\ life[p] \in {"exited", "killed", "reaped"} => run[p].at = "return"
  /\ onPath /\ p # Root => /\ run[p].at \in {"none", "child"} /\ parent[p] \in {NoPid, Root}
                           /\ life[p] # "free" => run[p].at = "child" \/ job[p].options # Nothing

RunnersInv == \A p \in Pids : RunnersOk(p)

\* What is in a pipe of its test
Data(p, end) == pipes[Pipe(p, end)].data

\* Where vinumc is not found, the runner reads what its child prints as a runner
TapOk(p) ==
  /\ run[p].at = "fork" => Data(p, "out") = <<>>
  /\ \A c \in Pids : run[p].at \in Waiting /\ run[p].kid = c =>
       /\ run[c].at = "return" => Data(p, "out") = <<"TAP">>
       /\ run[c].at # "return" => Data(p, "out") = <<>>
  /\ run[p].at = "out" /\ run[p].kid # NoPid => run[p].out \o Data(p, "out") = <<"TAP">>
  /\ run[p].at \in {"err", "judge"} /\ run[p].kid # NoPid => run[p].out = <<"TAP">>

TapInv == \A p \in Pids : ~ onPath /\ Clean(p) => TapOk(p)

\* What vinumc has still to be given of the input
Unsent == CASE run[Root].at \in {"fork", "send"} -> Test(Root).input
            [] run[Root].at = "write" -> run[Root].left
            [] OTHER -> <<>>
Stdin == IF Test(Root).input = Nothing THEN <<>> ELSE Data(Root, "in") \o Unsent

\* What the child comes to
Ending(c) ==
  IF life[c] = "alive" /\ run[c].at = "child"
  THEN FromParse(Test(Root).options, files, Stdin, Data(Root, "out"), Data(Root, "err"))
  ELSE Comes(life[c], job[c], files, Stdin, Data(Root, "out"), Data(Root, "err"))

\* From every state of a test on, its run of vinumc comes to what it came to at its start
OutcomeOk ==
  LET r == run[Root]
  IN  /\ r.at = "fork" =>
           r.ideal = FromParse(Test(Root).options, files, Stdin, Data(Root, "out"), Data(Root, "err"))
      /\ \A c \in Pids : r.at \in Waiting /\ r.kid = c => r.ideal = Ending(c)
      /\ r.at = "out" /\ r.kid # NoPid =>
           r.ideal = Result(r.status, r.out \o Data(Root, "out"), r.err \o Data(Root, "err"), files)
      /\ r.at = "err" /\ r.kid # NoPid =>
           r.ideal = Result(r.status, r.out, r.err \o Data(Root, "err"), files)
      /\ r.at = "judge" /\ r.kid # NoPid => r.ideal = Result(r.status, r.out, r.err, files)

OutcomeInv == onPath /\ Clean(Root) => OutcomeOk

\* What vinumc has written to its file is what the file has, and with the rest of it the answer
PlaceOk(j, fs) ==
  /\ j.at # "flush" => j.wrote = 0
  /\ j.dest \in Paths => j.wrote = Len(fs[j.dest])
  /\ j.dest \in Paths /\ j.at = "flush" => fs[j.dest] \o j.out = Compile(j.program, j.cocktail).out

\* Where vinumc is found, the first process outlives its child
PlacesInv ==
  onPath /\ ~ CutBefore(Root) =>
    \A c \in Pids : c # Root /\ life[c] = "alive" =>
      life[Root] = "alive" /\ (job[c].options # Nothing => PlaceOk(job[c], files))

\* The verdicts of a runner
VerdictOk(p, k) ==
  LET v == run[p].verdicts[k]
  IN  /\ v.mark # "SKIPPED" /\ v.forked /\ (\A j \in 1..k : ~ run[p].verdicts[j].cut)
           => (v.mark = "PASSED" <=> v.right)
      /\ v.cut => Len(suite[k].input) > PipeSize

-----------------------------------------------------------------------------
(* What a run of vinumc comes to, computed forwards and stage by stage.        *)

\* The fields of the options
LEMMA OptionFacts ==
  ASSUME NEW o \in Options
  PROVE  /\ o.known \in BOOLEAN /\ o.usage \in Chunks \union {Nothing}
         /\ o.input \in Paths \union {Nothing} /\ o.output \in Paths \union {Nothing}
         /\ o.effects \in Seq(Paths)
BY DEF Options

\* What the compiler's answer comes to, where the output was opened, and where it is not a file
ToFile(program, cocktail, path, fs) ==
  LET answer == Compile(program, cocktail)
  IN  IF answer.dies THEN Result("killed", <<>>, answer.err, fs)
      ELSE Result("exited", <<>>, answer.err, [fs EXCEPT ![path] = answer.out])
ToStream(program, cocktail, dest, fs) ==
  LET answer == Compile(program, cocktail)
  IN  IF answer.dies \/ dest = Nothing THEN Result("killed", <<>>, answer.err, fs)
      ELSE Result("exited", answer.out, answer.err, fs)

\* From an output that was opened on, in files that have it emptied
LEMMA CompiledOutcome ==
  ASSUME CompileAnswers, NEW program \in Text, NEW effects \in Seq(Paths), NEW fs \in [Paths -> FileTexts],
         NEW path \in Paths, fs[path] = <<>>
  PROVE  FromCompile(program, Effects(fs, effects), path, fs, <<>>, <<>>)
           = ToFile(program, Effects(fs, effects), path, fs)
<1> DEFINE cocktail == Effects(fs, effects)
           answer == Compile(program, cocktail)
<1>1. cocktail \in Cocktails
  BY DEF Cocktails
<1>2. answer.out \in Text /\ answer.err \in Text /\ answer.dies \in BOOLEAN
  BY <1>1 DEF CompileAnswers
<1>3. <<>> \o answer.err = answer.err
  BY <1>2, LenText
<1>4. path # Nothing
  BY NotTerminal
<1>5. <<>> \o answer.out = answer.out
  BY <1>2, LenText
<1> HIDE DEF cocktail
<1>6. FromCompile(program, cocktail, path, fs, <<>>, <<>>) =
        FromReport(answer.dies, path, answer.out, answer.err, fs, <<>>, <<>>)
  BY DEF FromCompile
<1> HIDE DEF answer
<1>7. FromReport(answer.dies, path, answer.out, answer.err, fs, <<>>, <<>>) =
        IF answer.dies THEN Result("killed", <<>>, answer.err, fs)
        ELSE FromFlush(path, answer.out, fs, <<>>, answer.err)
  BY <1>3, <1>4 DEF FromReport
<1>8. FromFlush(path, answer.out, fs, <<>>, answer.err)
        = Result("exited", <<>>, answer.err, [fs EXCEPT ![path] = answer.out])
  BY <1>5 DEF FromFlush
<1> QED
  BY <1>6, <1>7, <1>8 DEF answer, cocktail, ToFile

\* From a stream on, or from an output that was not opened
LEMMA StreamOutcome ==
  ASSUME CompileAnswers, NEW program \in Text, NEW effects \in Seq(Paths), NEW fs \in [Paths -> FileTexts],
         NEW dest \in {Terminal, Nothing}
  PROVE  FromCompile(program, Effects(fs, effects), dest, fs, <<>>, <<>>)
           = ToStream(program, Effects(fs, effects), dest, fs)
<1> DEFINE cocktail == Effects(fs, effects)
           answer == Compile(program, cocktail)
<1>1. cocktail \in Cocktails
  BY DEF Cocktails
<1>2. answer.out \in Text /\ answer.err \in Text /\ answer.dies \in BOOLEAN
  BY <1>1 DEF CompileAnswers
<1>3. <<>> \o answer.err = answer.err /\ <<>> \o answer.out = answer.out
  BY <1>2, LenText
<1>4. dest \notin Paths
  BY NotTerminal
<1> HIDE DEF cocktail
<1>6. FromCompile(program, cocktail, dest, fs, <<>>, <<>>) =
        FromReport(answer.dies, dest, answer.out, answer.err, fs, <<>>, <<>>)
  BY DEF FromCompile
<1> HIDE DEF answer
<1>7. FromReport(answer.dies, dest, answer.out, answer.err, fs, <<>>, <<>>) =
        IF answer.dies \/ dest = Nothing THEN Result("killed", <<>>, answer.err, fs)
        ELSE FromFlush(dest, answer.out, fs, <<>>, answer.err)
  BY <1>3 DEF FromReport
<1>8. FromFlush(dest, answer.out, fs, <<>>, answer.err)
        = Result("exited", answer.out, answer.err, fs)
  BY <1>3, <1>4 DEF FromFlush
<1> QED
  BY <1>6, <1>7, <1>8 DEF answer, cocktail, ToStream

\* Outcome, without its CASE
Staged(o, fs, stdin, emptied) ==
  LET writes  == o.output # Nothing /\ fs[o.output] # Directory
      program == IF o.input = Nothing THEN stdin ELSE ReadAll(emptied[o.input])
      answer  == Compile(program, Effects(emptied, o.effects))
  IN  IF ~ o.known THEN Result("killed", <<>>, <<>>, fs)
      ELSE IF o.usage # Nothing THEN Result("exited", <<o.usage>>, <<>>, fs)
      ELSE IF o.input # Nothing /\ emptied[o.input] = Absent
      THEN Result("killed", <<>>, <<>>, emptied)
      ELSE IF answer.dies \/ (o.output # Nothing /\ ~ writes)
      THEN Result("killed", <<>>, answer.err, emptied)
      ELSE IF writes
      THEN Result("exited", <<>>, answer.err, [emptied EXCEPT ![o.output] = answer.out])
      ELSE Result("exited", answer.out, answer.err, emptied)

\* The files once the output is opened
Empties(o, fs, emptied) ==
  emptied = IF o.output # Nothing /\ fs[o.output] # Directory
            THEN [fs EXCEPT ![o.output] = <<>>] ELSE fs

\* It is the outcome
LEMMA OutcomeCases ==
  ASSUME NEW o \in Options, NEW fs, NEW stdin, NEW emptied, Empties(o, fs, emptied)
  PROVE  Outcome(o, fs, stdin) = Staged(o, fs, stdin, emptied)
<1> DEFINE writes  == o.output # Nothing /\ fs[o.output] # Directory
           program == IF o.input = Nothing THEN stdin ELSE ReadAll(emptied[o.input])
           answer  == Compile(program, Effects(emptied, o.effects))
           killed  == [status |-> "killed", out |-> <<>>, err |-> <<>>, files |-> emptied]
           exited  == [status |-> "exited", out |-> IF writes THEN <<>> ELSE answer.out,
                       err |-> answer.err,
                       files |-> IF writes THEN [emptied EXCEPT ![o.output] = answer.out] ELSE emptied]
<1> USE DEF Empties
<1>11. o.known \in BOOLEAN
  BY OptionFacts
<1>1. Outcome(o, fs, stdin) =
        CASE ~ o.known                -> [killed EXCEPT !.files = fs]
          [] o.known /\ o.usage # Nothing ->
               [status |-> "exited", out |-> <<o.usage>>, err |-> <<>>, files |-> fs]
          [] o.known /\ o.usage = Nothing /\ o.input # Nothing /\ emptied[o.input] = Absent -> killed
          [] OTHER -> IF answer.dies \/ (o.output # Nothing /\ ~ writes)
                      THEN [killed EXCEPT !.err = answer.err] ELSE exited
  BY DEF Outcome
<1>2. [killed EXCEPT !.files = fs] = Result("killed", <<>>, <<>>, fs)
  BY DEF Result
<1>3. [killed EXCEPT !.err = answer.err] = Result("killed", <<>>, answer.err, emptied)
  BY DEF Result
<1>4. killed = Result("killed", <<>>, <<>>, emptied)
  BY DEF Result
<1>5. exited = IF writes
               THEN Result("exited", <<>>, answer.err, [emptied EXCEPT ![o.output] = answer.out])
               ELSE Result("exited", answer.out, answer.err, emptied)
  BY DEF Result
<1>6. [status |-> "exited", out |-> <<o.usage>>, err |-> <<>>, files |-> fs]
        = Result("exited", <<o.usage>>, <<>>, fs)
  BY DEF Result
<1> HIDE DEF killed, exited, answer, program, writes, Staged
<1>7. CASE ~ o.known
  BY <1>1, <1>2, <1>7 DEF killed, exited, answer, program, writes, Staged
<1>8. CASE o.known /\ o.usage # Nothing
  BY <1>1, <1>6, <1>8 DEF killed, exited, answer, program, writes, Staged
<1>9. CASE o.known /\ o.usage = Nothing /\ o.input # Nothing /\ emptied[o.input] = Absent
  <2>1. Outcome(o, fs, stdin) = killed
    BY <1>1, <1>9
  <2> QED
    BY <2>1, <1>4, <1>9 DEF killed, exited, answer, program, writes, Staged
<1>10. CASE o.known /\ o.usage = Nothing /\ ~ (o.input # Nothing /\ emptied[o.input] = Absent)
  <2>1. Outcome(o, fs, stdin) = IF answer.dies \/ (o.output # Nothing /\ ~ writes)
                                THEN [killed EXCEPT !.err = answer.err] ELSE exited
    BY <1>1, <1>10
  <2> QED
    BY <2>1, <1>3, <1>5, <1>10 DEF killed, exited, answer, program, writes, Staged
<1> QED
  BY <1>7, <1>8, <1>9, <1>10, <1>11

\* Where the text goes, and the files once the output is opened
Opens(o, fs, dest, emptied) ==
  \/ o.output = Nothing /\ dest = Terminal /\ emptied = fs
  \/ o.output # Nothing /\ fs[o.output] = Directory /\ dest = Nothing /\ emptied = fs
  \/ /\ o.output # Nothing /\ fs[o.output] # Directory /\ dest = o.output
     /\ emptied = [fs EXCEPT ![o.output] = <<>>]

\* Once the output is opened, or not
LEMMA OpenedOutcome ==
  ASSUME CompileAnswers, NEW o \in Options, o.known, o.usage = Nothing,
         NEW fs \in [Paths -> FileTexts], NEW stdin \in Text,
         NEW dest, NEW emptied \in [Paths -> FileTexts], Opens(o, fs, dest, emptied)
  PROVE  Outcome(o, fs, stdin) = FromRead(o, dest, emptied, stdin, <<>>, <<>>)
<1> DEFINE writes  == o.output # Nothing /\ fs[o.output] # Directory
           program == IF o.input = Nothing THEN stdin ELSE ReadAll(emptied[o.input])
           answer  == Compile(program, Effects(emptied, o.effects))
<1>1. Empties(o, fs, emptied)
  BY DEF Empties, Opens
<1>2. Outcome(o, fs, stdin) =
        IF o.input # Nothing /\ emptied[o.input] = Absent THEN Result("killed", <<>>, <<>>, emptied)
        ELSE IF answer.dies \/ (o.output # Nothing /\ ~ writes)
        THEN Result("killed", <<>>, answer.err, emptied)
        ELSE IF writes
        THEN Result("exited", <<>>, answer.err, [emptied EXCEPT ![o.output] = answer.out])
        ELSE Result("exited", answer.out, answer.err, emptied)
  <2>1. Outcome(o, fs, stdin) = Staged(o, fs, stdin, emptied)
    BY <1>1, OutcomeCases
  <2> QED
    BY <2>1 DEF Staged
<1> HIDE DEF answer, writes
<1>3. CASE o.input # Nothing /\ emptied[o.input] = Absent
  <2>1. FromRead(o, dest, emptied, stdin, <<>>, <<>>) = Result("killed", <<>>, <<>>, emptied)
    BY <1>3 DEF FromRead
  <2> QED
    BY <2>1, <1>2, <1>3
<1>4. CASE ~ (o.input # Nothing /\ emptied[o.input] = Absent)
  <2>1. program \in Text
    BY <1>4, OptionFacts, ReadAllText
  <2>2. FromRead(o, dest, emptied, stdin, <<>>, <<>>) = FromEffects(o, program, dest, emptied, <<>>, <<>>)
    BY <1>4 DEF FromRead
  <2>3. FromEffects(o, program, dest, emptied, <<>>, <<>>)
          = FromCompile(program, Effects(emptied, o.effects), dest, emptied, <<>>, <<>>)
    BY DEF FromEffects
  <2> HIDE DEF program
  <2>4. CASE writes
    <3>1. dest = o.output /\ dest \in Paths /\ emptied[dest] = <<>>
      BY <2>4, OptionFacts DEF writes, Opens
    <3>2. o.effects \in Seq(Paths)
      BY OptionFacts
    <3>3. FromCompile(program, Effects(emptied, o.effects), dest, emptied, <<>>, <<>>)
            = ToFile(program, Effects(emptied, o.effects), dest, emptied)
      BY <3>1, <3>2, <2>1, CompiledOutcome
    <3>4. ToFile(program, Effects(emptied, o.effects), dest, emptied)
            = IF answer.dies THEN Result("killed", <<>>, answer.err, emptied)
              ELSE Result("exited", <<>>, answer.err, [emptied EXCEPT ![dest] = answer.out])
      BY DEF ToFile, answer
    <3> QED
      BY <3>1, <3>3, <3>4, <2>2, <2>3, <2>4, <1>2, <1>4
  <2>5. CASE ~ writes
    <3>1. dest \in {Terminal, Nothing} /\ (dest = Nothing <=> o.output # Nothing)
      BY <2>5, NotTerminal DEF writes, Opens
    <3>2. o.effects \in Seq(Paths)
      BY OptionFacts
    <3>3. FromCompile(program, Effects(emptied, o.effects), dest, emptied, <<>>, <<>>)
            = ToStream(program, Effects(emptied, o.effects), dest, emptied)
      BY <3>1, <3>2, <2>1, StreamOutcome
    <3>4. ToStream(program, Effects(emptied, o.effects), dest, emptied)
            = IF answer.dies \/ dest = Nothing THEN Result("killed", <<>>, answer.err, emptied)
              ELSE Result("exited", answer.out, answer.err, emptied)
      BY DEF ToStream, answer
    <3> QED
      BY <3>1, <3>3, <3>4, <2>2, <2>3, <2>5, <1>2, <1>4
  <2> QED
    BY <2>4, <2>5
<1> QED
  BY <1>3, <1>4

\* Stage by stage, vinumc comes to its outcome
LEMMA OutcomeForwards ==
  ASSUME CompileAnswers, NEW o \in Options, NEW fs \in [Paths -> FileTexts], NEW stdin \in Text
  PROVE  Outcome(o, fs, stdin) = FromParse(o, fs, stdin, <<>>, <<>>)
<1> DEFINE emptied == IF o.output # Nothing /\ fs[o.output] # Directory
                      THEN [fs EXCEPT ![o.output] = <<>>] ELSE fs
<1>4. o.known \in BOOLEAN
  BY OptionFacts
<1>6. Empties(o, fs, emptied)
  BY DEF Empties
<1> HIDE DEF emptied
<1>5. Outcome(o, fs, stdin) = Staged(o, fs, stdin, emptied)
  BY <1>6, OutcomeCases
<1>1. CASE ~ o.known
  <2>1. Outcome(o, fs, stdin) = Result("killed", <<>>, <<>>, fs)
    BY <1>1, <1>5 DEF Staged
  <2> QED
    BY <2>1, <1>1 DEF FromParse
<1>2. CASE o.known /\ o.usage # Nothing
  <2>1. Outcome(o, fs, stdin) = Result("exited", <<o.usage>>, <<>>, fs)
    BY <1>2, <1>5 DEF Staged
  <2>2. <<o.usage>> \in Text
    BY <1>2, OptionFacts DEF Text
  <2>3. <<>> \o <<o.usage>> = <<o.usage>>
    BY <2>2, LenText
  <2> QED
    BY <2>1, <2>3, <1>2 DEF FromParse, FromUsage
<1>3. CASE o.known /\ o.usage = Nothing
  <2>1. FromParse(o, fs, stdin, <<>>, <<>>) = FromOpen(o, fs, stdin, <<>>, <<>>)
    BY <1>3 DEF FromParse, FromUsage
  <2>2. CASE o.output = Nothing
    <3>1. FromOpen(o, fs, stdin, <<>>, <<>>) = FromRead(o, Terminal, fs, stdin, <<>>, <<>>)
      BY <2>2 DEF FromOpen
    <3>5. Opens(o, fs, Terminal, fs)
      BY <2>2 DEF Opens
    <3>2. Outcome(o, fs, stdin) = FromRead(o, Terminal, fs, stdin, <<>>, <<>>)
      BY <1>3, <3>5, OpenedOutcome
    <3> QED
      BY <2>1, <3>1, <3>2
  <2>3. CASE o.output # Nothing /\ fs[o.output] = Directory
    <3>1. FromOpen(o, fs, stdin, <<>>, <<>>) = FromRead(o, Nothing, fs, stdin, <<>>, <<>>)
      BY <2>3 DEF FromOpen
    <3>5. Opens(o, fs, Nothing, fs)
      BY <2>3 DEF Opens
    <3>2. Outcome(o, fs, stdin) = FromRead(o, Nothing, fs, stdin, <<>>, <<>>)
      BY <1>3, <3>5, OpenedOutcome
    <3> QED
      BY <2>1, <3>1, <3>2
  <2>4. CASE o.output # Nothing /\ fs[o.output] # Directory
    <3> DEFINE blank == [fs EXCEPT ![o.output] = <<>>]
    <3>1. blank \in [Paths -> FileTexts]
      BY EmptyText DEF FileTexts
    <3> HIDE DEF blank
    <3>2. FromOpen(o, fs, stdin, <<>>, <<>>) = FromRead(o, o.output, blank, stdin, <<>>, <<>>)
      BY <2>4 DEF FromOpen, blank
    <3>5. Opens(o, fs, o.output, blank)
      BY <2>4 DEF Opens, blank
    <3>3. Outcome(o, fs, stdin) = FromRead(o, o.output, blank, stdin, <<>>, <<>>)
      BY <1>3, <3>5, <3>1, OpenedOutcome
    <3> QED
      BY <2>1, <3>2, <3>3
  <2> QED
    BY <2>2, <2>3, <2>4
<1> QED
  BY <1>1, <1>2, <1>3, <1>4

-----------------------------------------------------------------------------
(* No step of vinumc changes what it comes to.                                 *)

\* From each stage
LEMMA FromStages ==
  ASSUME NEW j, NEW fs, NEW stdin, NEW out, NEW err
  PROVE  /\ j.at = "parse" => From(j, fs, stdin, out, err) = FromParse(j.options, fs, stdin, out, err)
         /\ j.at = "usage" => From(j, fs, stdin, out, err) = FromUsage(j.options, fs, stdin, out, err)
         /\ j.at = "open" => From(j, fs, stdin, out, err) = FromOpen(j.options, fs, stdin, out, err)
         /\ j.at = "read" => From(j, fs, stdin, out, err)
                               = FromRead(j.options, j.dest, fs, j.program \o stdin, out, err)
         /\ j.at = "effects" => From(j, fs, stdin, out, err)
                                  = FromEffects(j.options, j.program, j.dest, fs, out, err)
         /\ j.at = "compile" => From(j, fs, stdin, out, err)
                                  = FromCompile(j.program, j.cocktail, j.dest, fs, out, err)
         /\ j.at = "report" => From(j, fs, stdin, out, err)
                                 = FromReport(j.dies, j.dest, j.out, j.err, fs, out, err)
         /\ j.at = "flush" => From(j, fs, stdin, out, err) = FromFlush(j.dest, j.out, fs, out, err)
BY DEF From

\* Three texts, one after the other
LEMMA ThreeTexts ==
  ASSUME NEW s \in Text, NEW t \in Text, NEW u \in Text
  PROVE  (s \o t) \o u = s \o (t \o u)
BY DEF Text

\* ParseCmdline
LEMMA ParseComes ==
  ASSUME Typed, NEW c \in Pids, ParseCmdline(c), NEW stdin, NEW out, NEW err
  PROVE  Comes(life'[c], job'[c], files', stdin, out, err) = Comes(life[c], job[c], files, stdin, out, err)
<1>1. life[c] = "alive" /\ job[c].at = "parse"
  BY DEF ParseCmdline, At
<1>2. Comes(life[c], job[c], files, stdin, out, err) = FromParse(job[c].options, files, stdin, out, err)
  BY <1>1, FromStages DEF Comes
<1>3. CASE job[c].options.known
  <2>1. Goto(c, "usage") /\ UNCHANGED kernel
    BY <1>3 DEF ParseCmdline
  <2>2. job'[c] = [job[c] EXCEPT !.at = "usage"]
    BY <2>1, GotoJob DEF JobStages
  <2>3. job'[c].at = "usage" /\ job'[c].options = job[c].options
    BY <2>2 DEF Typed, JobType
  <2>4. life'[c] = "alive" /\ files' = files
    BY <2>1, <1>1 DEF kernel
  <2>5. Comes(life'[c], job'[c], files', stdin, out, err)
          = FromUsage(job[c].options, files, stdin, out, err)
    BY <2>3, <2>4, FromStages DEF Comes
  <2> QED
    BY <1>2, <1>3, <2>5 DEF FromParse
<1>4. CASE ~ job[c].options.known
  <2>1. End(c, "killed")
    BY <1>4 DEF ParseCmdline, Die
  <2>2. life'[c] = "killed" /\ files' = files
    BY <2>1 DEF End, Typed
  <2> QED
    BY <1>2, <1>4, <2>2 DEF FromParse, Comes
<1> QED
  BY <1>3, <1>4

\* ShowUsage
LEMMA UsageComes ==
  ASSUME Typed, NEW c \in Pids, JobOk(job[c]), ShowUsage(c), NEW stdin, NEW out, NEW err
  PROVE  Comes(life'[c], job'[c], files', stdin, out, err) = Comes(life[c], job[c], files, stdin, out, err)
<1>1. life[c] = "alive" /\ job[c].at = "usage" /\ UNCHANGED kernel
  BY DEF ShowUsage, At
<1>2. Comes(life[c], job[c], files, stdin, out, err) = FromUsage(job[c].options, files, stdin, out, err)
  BY <1>1, FromStages DEF Comes
<1>5. life'[c] = "alive" /\ files' = files
  BY <1>1 DEF kernel
<1>3. CASE job[c].options.usage = Nothing
  <2>1. Goto(c, "open")
    BY <1>3 DEF ShowUsage
  <2>2. job'[c] = [job[c] EXCEPT !.at = "open"]
    BY <2>1, GotoJob DEF JobStages
  <2>3. job'[c].at = "open" /\ job'[c].options = job[c].options
    BY <2>2 DEF Typed, JobType
  <2>4. Comes(life'[c], job'[c], files', stdin, out, err)
          = FromOpen(job[c].options, files, stdin, out, err)
    BY <2>3, <1>5, FromStages DEF Comes
  <2> QED
    BY <1>2, <1>3, <2>4 DEF FromUsage
<1>4. CASE job[c].options.usage # Nothing
  <2> DEFINE text == <<job[c].options.usage>>
  <2>1. job' = [job EXCEPT ![c].at = "flush", ![c].out = text]
    BY <1>4 DEF ShowUsage
  <2>2. job'[c].at = "flush" /\ job'[c].out = text /\ job'[c].dest = job[c].dest
    BY <2>1 DEF Typed, JobType
  <2>3. job[c].dest \notin Paths
    BY <1>1, NotTerminal DEF JobOk
  <2>4. Comes(life'[c], job'[c], files', stdin, out, err)
          = FromFlush(job[c].dest, text, files, out, err)
    BY <2>2, <1>5, FromStages DEF Comes
  <2>5. FromFlush(job[c].dest, text, files, out, err) = Result("exited", out \o text, err, files)
    BY <2>3 DEF FromFlush
  <2> QED
    BY <1>2, <1>4, <2>4, <2>5 DEF FromUsage
<1> QED
  BY <1>3, <1>4

\* OpenOutput
LEMMA OpenComes ==
  ASSUME Typed, NEW c \in Pids, JobOk(job[c]), OpenOutput(c), NEW stdin \in Text, NEW out, NEW err
  PROVE  Comes(life'[c], job'[c], files', stdin, out, err) = Comes(life[c], job[c], files, stdin, out, err)
<1> DEFINE o == job[c].options
           dest == job'[c].dest
<1>1. life[c] = "alive" /\ job[c].at = "open" /\ o # Nothing /\ job[c] \in JobType
  BY DEF OpenOutput, At, Typed
<1>2. Comes(life[c], job[c], files, stdin, out, err) = FromOpen(o, files, stdin, out, err)
  BY <1>1, FromStages DEF Comes
<1>3. life'[c] = "alive"
  BY <1>1 DEF OpenOutput
<1>4. job'[c].at = "read" /\ job'[c].options = o /\ job'[c].program = job[c].program
      /\ dest = IF o.output = Nothing THEN Terminal
                 ELSE IF files[o.output] = Directory THEN Nothing ELSE o.output
  BY <1>1 DEF OpenOutput, Typed, JobType
<1>5. job[c].program = <<>>
  BY <1>1 DEF JobOk
<1>6. job'[c].program \o stdin = stdin
  BY <1>4, <1>5, LenText
<1> HIDE DEF o
<1>7. Comes(life'[c], job'[c], files', stdin, out, err) = FromRead(o, dest, files', stdin, out, err)
  <2>1. From(job'[c], files', stdin, out, err)
          = FromRead(job'[c].options, job'[c].dest, files', stdin, out, err)
    BY <1>4, <1>6 DEF From
  <2> QED
    BY <1>3, <1>4, <1>6, <2>1 DEF Comes
<1>8. CASE o.output = Nothing
  <2>1. files' = files
    BY <1>8 DEF OpenOutput, o
  <2> QED
    BY <1>2, <1>4, <1>7, <1>8, <2>1 DEF FromOpen
<1>9. CASE o.output # Nothing /\ files[o.output] = Directory
  <2>1. files' = files
    BY <1>9 DEF OpenOutput, o
  <2> QED
    BY <1>2, <1>4, <1>7, <1>9, <2>1 DEF FromOpen
<1>10. CASE o.output # Nothing /\ files[o.output] # Directory
  <2>1. files' = [files EXCEPT ![o.output] = <<>>]
    BY <1>10 DEF OpenOutput, o
  <2> QED
    BY <1>2, <1>4, <1>7, <1>10, <2>1 DEF FromOpen
<1> QED
  BY <1>8, <1>9, <1>10

\* ReadInputFile
LEMMA ReadFileComes ==
  ASSUME Typed, NEW c \in Pids, ReadInputFile(c), NEW stdin, NEW out, NEW err
  PROVE  Comes(life'[c], job'[c], files', stdin, out, err) = Comes(life[c], job[c], files, stdin, out, err)
<1> DEFINE o == job[c].options
<1>1. life[c] = "alive" /\ job[c].at = "read" /\ o.input # Nothing /\ job[c] \in JobType
  BY DEF ReadInputFile, At, Typed
<1>2. Comes(life[c], job[c], files, stdin, out, err)
        = FromRead(o, job[c].dest, files, job[c].program \o stdin, out, err)
  BY <1>1, FromStages DEF Comes
<1>3. CASE files[o.input] = Absent
  <2>1. End(c, "killed")
    BY <1>3 DEF ReadInputFile, Die
  <2>2. life'[c] = "killed" /\ files' = files
    BY <2>1 DEF End, Typed
  <2> QED
    BY <1>1, <1>2, <1>3, <2>2 DEF FromRead, Comes
<1>4. CASE files[o.input] # Absent
  <2> DEFINE program == ReadAll(files[o.input])
  <2>1. job' = [job EXCEPT ![c].at = "effects", ![c].program = program] /\ UNCHANGED kernel
    BY <1>4 DEF ReadInputFile
  <2> HIDE DEF program
  <2>2. job'[c].at = "effects" /\ job'[c].program = program /\ job'[c].options = o
        /\ job'[c].dest = job[c].dest
    BY <2>1 DEF Typed, JobType
  <2>3. life'[c] = "alive" /\ files' = files
    BY <1>1, <2>1 DEF kernel
  <2>4. Comes(life'[c], job'[c], files', stdin, out, err)
          = FromEffects(o, program, job[c].dest, files, out, err)
    BY <2>2, <2>3, FromStages DEF Comes
  <2> QED
    BY <1>1, <1>2, <1>4, <2>4 DEF FromRead, program
<1> QED
  BY <1>3, <1>4

\* ReadStdin, at the end of its stream
LEMMA ReadStdinEnds ==
  ASSUME Typed, NEW c \in Pids, At(c, "read"), job[c].options.input = Nothing,
         Goto(c, "effects"), UNCHANGED kernel, NEW out, NEW err
  PROVE  Comes(life'[c], job'[c], files', <<>>, out, err) = Comes(life[c], job[c], files, <<>>, out, err)
<1> DEFINE o == job[c].options
<1>1. life[c] = "alive" /\ job[c].at = "read" /\ job[c] \in JobType
  BY DEF At, Typed
<1>2. job[c].program \o <<>> = job[c].program
  BY <1>1, LenText DEF JobType
<1>3. From(job[c], files, <<>>, out, err)
        = FromRead(o, job[c].dest, files, job[c].program, out, err)
  BY <1>1, <1>2 DEF From
<1>4. FromRead(o, job[c].dest, files, job[c].program, out, err)
        = FromEffects(o, job[c].program, job[c].dest, files, out, err)
  BY DEF FromRead
<1>5. job'[c] = [job[c] EXCEPT !.at = "effects"]
  BY GotoJob DEF JobStages
<1>6. job'[c].at = "effects" /\ job'[c].program = job[c].program /\ job'[c].options = o
      /\ job'[c].dest = job[c].dest
  BY <1>1, <1>5 DEF JobType
<1>7. From(job'[c], files', <<>>, out, err)
        = FromEffects(job'[c].options, job'[c].program, job'[c].dest, files', out, err)
  BY <1>6, FromStages
<1>8. life'[c] = "alive" /\ files' = files
  BY <1>1 DEF kernel
<1> QED
  BY <1>1, <1>2, <1>3, <1>4, <1>6, <1>7, <1>8 DEF Comes

\* What is read is added to the program
Takes(c, data) == job' = [job EXCEPT ![c].program = @ \o data]

\* ReadStdin, of what is there
LEMMA ReadStdinComes ==
  ASSUME Typed, NEW c \in Pids, At(c, "read"), NEW data \in Text,
         Takes(c, data), UNCHANGED <<life, files>>,
         NEW stdin \in Text, NEW out, NEW err
  PROVE  Comes(life'[c], job'[c], files', stdin, out, err)
           = Comes(life[c], job[c], files, data \o stdin, out, err)
<1> DEFINE o == job[c].options
           program == job[c].program \o data
<1>1. life[c] = "alive" /\ job[c].at = "read" /\ job[c] \in JobType
  BY DEF At, Typed
<1>2. job[c].program \o (data \o stdin) = program \o stdin
  <2>1. job[c].program \in Text
    BY <1>1 DEF JobType
  <2> QED
    BY <2>1, ThreeTexts
<1>3. job'[c].at = "read" /\ job'[c].program = program /\ job'[c].options = o
      /\ job'[c].dest = job[c].dest
  <2> HIDE DEF program
  <2>1. job' = [job EXCEPT ![c].program = program]
    BY DEF program, Takes
  <2> QED
    BY <1>1, <2>1 DEF JobType, Typed
<1> HIDE DEF program
<1>4. From(job'[c], files', stdin, out, err)
        = FromRead(job'[c].options, job'[c].dest, files', program \o stdin, out, err)
  BY <1>3 DEF From
<1>5. From(job[c], files, data \o stdin, out, err)
        = FromRead(o, job[c].dest, files, program \o stdin, out, err)
  BY <1>1, <1>2 DEF From
<1> QED
  BY <1>1, <1>2, <1>3, <1>4, <1>5 DEF Comes

\* ReadEffects
LEMMA EffectsComes ==
  ASSUME Typed, NEW c \in Pids, ReadEffects(c), NEW stdin, NEW out, NEW err
  PROVE  Comes(life'[c], job'[c], files', stdin, out, err) = Comes(life[c], job[c], files, stdin, out, err)
<1> DEFINE cocktail == Effects(files, job[c].options.effects)
<1>1. life[c] = "alive" /\ job[c].at = "effects" /\ job[c] \in JobType
  BY DEF ReadEffects, At, Typed
<1>2. job' = [job EXCEPT ![c].at = "compile", ![c].cocktail = cocktail]
  BY DEF ReadEffects
<1> HIDE DEF cocktail
<1>3. job'[c].at = "compile" /\ job'[c].cocktail = cocktail /\ job'[c].program = job[c].program
      /\ job'[c].dest = job[c].dest
  BY <1>1, <1>2 DEF JobType, Typed
<1>4. life'[c] = "alive" /\ files' = files
  BY <1>1 DEF ReadEffects, kernel
<1>5. From(job'[c], files', stdin, out, err)
        = FromCompile(job'[c].program, job'[c].cocktail, job'[c].dest, files', out, err)
  BY <1>3, FromStages
<1>6. From(job[c], files, stdin, out, err)
        = FromEffects(job[c].options, job[c].program, job[c].dest, files, out, err)
  BY <1>1, FromStages
<1>7. FromEffects(job[c].options, job[c].program, job[c].dest, files, out, err)
        = FromCompile(job[c].program, cocktail, job[c].dest, files, out, err)
  BY DEF FromEffects, cocktail
<1> QED
  BY <1>1, <1>3, <1>4, <1>5, <1>6, <1>7 DEF Comes

\* CompileProgram
LEMMA CompileComes ==
  ASSUME Typed, NEW c \in Pids, CompileProgram(c), NEW stdin, NEW out, NEW err
  PROVE  Comes(life'[c], job'[c], files', stdin, out, err) = Comes(life[c], job[c], files, stdin, out, err)
<1> DEFINE answer == Compile(job[c].program, job[c].cocktail)
<1>1. life[c] = "alive" /\ job[c].at = "compile" /\ job[c] \in JobType
  BY DEF CompileProgram, At, Typed
<1>2. job' = [job EXCEPT ![c].at = "report", ![c].out = answer.out,
                         ![c].err = answer.err, ![c].dies = answer.dies]
  BY DEF CompileProgram
<1>3. FromCompile(job[c].program, job[c].cocktail, job[c].dest, files, out, err)
        = FromReport(answer.dies, job[c].dest, answer.out, answer.err, files, out, err)
  BY DEF FromCompile
<1> HIDE DEF answer
<1>4. job'[c].at = "report" /\ job'[c].out = answer.out /\ job'[c].err = answer.err
      /\ job'[c].dies = answer.dies /\ job'[c].dest = job[c].dest
  BY <1>1, <1>2 DEF JobType, Typed
<1>5. life'[c] = "alive" /\ files' = files
  BY <1>1 DEF CompileProgram, kernel
<1>6. From(job'[c], files', stdin, out, err)
        = FromReport(job'[c].dies, job'[c].dest, job'[c].out, job'[c].err, files', out, err)
  BY <1>4, FromStages
<1>7. From(job[c], files, stdin, out, err)
        = FromCompile(job[c].program, job[c].cocktail, job[c].dest, files, out, err)
  BY <1>1, FromStages
<1> QED
  BY <1>1, <1>3, <1>4, <1>5, <1>6, <1>7 DEF Comes

\* A text, and what goes out of another, chunk by chunk
LEMMA ChunkOut ==
  ASSUME NEW s \in Text, NEW t \in Text, t # <<>>
  PROVE  Append(s, Head(t)) \o Tail(t) = s \o t
<1>1. Head(t) \in Chunks /\ Tail(t) \in Text /\ t = <<Head(t)>> \o Tail(t)
  BY HeadTailText
<1>2. <<Head(t)>> \in Text
  BY <1>1 DEF Text
<1>3. Append(s, Head(t)) = s \o <<Head(t)>>
  BY <1>1, AppendText
<1>4. (s \o <<Head(t)>>) \o Tail(t) = s \o (<<Head(t)>> \o Tail(t))
  BY <1>1, <1>2, ThreeTexts
<1> QED
  BY <1>1, <1>3, <1>4

\* Report
LEMMA ReportComes ==
  ASSUME Typed, NEW c \in Pids, Report(c), UNCHANGED life, NEW stdin, NEW out, NEW err \in Text
  PROVE  Comes(life'[c], job'[c], files', stdin, out, Append(err, Head(job[c].err)))
           = Comes(life[c], job[c], files, stdin, out, err)
<1>1. life[c] = "alive" /\ job[c].at = "report" /\ job[c] \in JobType /\ job[c].err # <<>>
  BY DEF Report, At, Typed
<1>2. job' = [job EXCEPT ![c].err = Tail(job[c].err)] /\ files' = files
  BY <1>1 DEF Report, Typed
<1>3. job'[c] = [job[c] EXCEPT !.err = Tail(job[c].err)]
  BY <1>2 DEF Typed
<1>4. job'[c].at = "report" /\ job'[c].err = Tail(job[c].err) /\ job'[c].dies = job[c].dies
      /\ job'[c].dest = job[c].dest /\ job'[c].out = job[c].out
  BY <1>1, <1>3 DEF JobType
<1>5. Append(err, Head(job[c].err)) \o Tail(job[c].err) = err \o job[c].err
  BY <1>1, ChunkOut DEF JobType
<1> DEFINE more == Append(err, Head(job[c].err))
           rest == Tail(job[c].err)
<1>6. more \o rest = err \o job[c].err
  BY <1>5
<1>10. job'[c].err = rest
  BY <1>4
<1> HIDE DEF more, rest
<1>7. From(job'[c], files', stdin, out, more)
        = FromReport(job[c].dies, job[c].dest, job[c].out, rest, files, out, more)
  BY <1>2, <1>4, <1>10 DEF From
<1>8. From(job[c], files, stdin, out, err)
        = FromReport(job[c].dies, job[c].dest, job[c].out, job[c].err, files, out, err)
  BY <1>1, FromStages
<1>9. FromReport(job[c].dies, job[c].dest, job[c].out, rest, files, out, more)
        = FromReport(job[c].dies, job[c].dest, job[c].out, job[c].err, files, out, err)
  BY <1>6 DEF FromReport
<1> QED
  BY <1>1, <1>7, <1>8, <1>9 DEF Comes, more

\* Emit
LEMMA EmitComes ==
  ASSUME Typed, NEW c \in Pids, Emit(c), NEW stdin, NEW out, NEW err \in Text
  PROVE  Comes(life'[c], job'[c], files', stdin, out, err) = Comes(life[c], job[c], files, stdin, out, err)
<1>1. life[c] = "alive" /\ job[c].at = "report" /\ job[c] \in JobType /\ job[c].err = <<>>
  BY DEF Emit, At, Typed
<1>2. From(job[c], files, stdin, out, err)
        = FromReport(job[c].dies, job[c].dest, job[c].out, <<>>, files, out, err)
  BY <1>1, FromStages
<1>3. err \o <<>> = err
  BY LenText
<1>4. CASE job[c].dies \/ job[c].dest = Nothing
  <2>1. End(c, "killed")
    BY <1>4 DEF Emit, Die
  <2>2. life'[c] = "killed" /\ files' = files
    BY <2>1 DEF End, Typed
  <2>3. FromReport(job[c].dies, job[c].dest, job[c].out, <<>>, files, out, err)
          = Result("killed", out, err, files)
    BY <1>3, <1>4 DEF FromReport
  <2> QED
    BY <1>1, <1>2, <2>2, <2>3 DEF Comes
<1>5. CASE ~ (job[c].dies \/ job[c].dest = Nothing)
  <2>1. Goto(c, "flush") /\ UNCHANGED kernel
    BY <1>5 DEF Emit
  <2>2. job'[c] = [job[c] EXCEPT !.at = "flush"]
    BY <2>1, GotoJob DEF JobStages
  <2>3. job'[c].at = "flush" /\ job'[c].out = job[c].out /\ job'[c].dest = job[c].dest
    BY <1>1, <2>2 DEF JobType
  <2>4. life'[c] = "alive" /\ files' = files
    BY <2>1, <1>1 DEF kernel
  <2>5. From(job'[c], files', stdin, out, err) = FromFlush(job[c].dest, job[c].out, files, out, err)
    BY <2>3, <2>4, FromStages
  <2>6. FromReport(job[c].dies, job[c].dest, job[c].out, <<>>, files, out, err)
          = FromFlush(job[c].dest, job[c].out, files, out, err)
    BY <1>3, <1>5 DEF FromReport
  <2> QED
    BY <1>1, <1>2, <2>4, <2>5, <2>6 DEF Comes
<1> QED
  BY <1>4, <1>5

\* The next part of the text goes to the end of the file
LEMMA FlushFileStep ==
  ASSUME Typed, DestInv, NEW c \in Pids, Flush(c), job[c].dest \in Paths, PlaceOk(job[c], files)
  PROVE  /\ files' = [files EXCEPT ![job[c].dest] = Append(files[job[c].dest], Head(job[c].out))]
         /\ job'[c] = [job[c] EXCEPT !.out = Tail(job[c].out), !.wrote = job[c].wrote + 1]
         /\ job'[c].at = "flush" /\ job'[c].out = Tail(job[c].out) /\ job'[c].dest = job[c].dest
         /\ job'[c].wrote = job[c].wrote + 1 /\ job'[c].program = job[c].program
         /\ job'[c].cocktail = job[c].cocktail
<1> DEFINE dest == job[c].dest
<1>1. job[c].at = "flush" /\ job[c] \in JobType /\ job[c].out # <<>> /\ files[dest] \in Text
  BY DEF Flush, At, Typed, DestInv
<1>2. Head(job[c].out) \in Chunks /\ job[c].wrote = Len(files[dest]) /\ job[c].wrote \in Nat
  BY <1>1, HeadTailText DEF PlaceOk, JobType
<1>3. Overwritten(files[dest], job[c].wrote, Head(job[c].out)) = Append(files[dest], Head(job[c].out))
  BY <1>1, <1>2, OverwrittenText
<1>4. files' = [files EXCEPT ![dest] = Append(files[dest], Head(job[c].out))]
  BY <1>3 DEF Flush
<1>5. job'[c] = [job[c] EXCEPT !.out = Tail(job[c].out), !.wrote = job[c].wrote + 1]
  BY DEF Flush, Typed
<1> QED
  BY <1>1, <1>4, <1>5 DEF JobType

\* Flush, to a file
LEMMA FlushFileComes ==
  ASSUME Typed, DestInv, NEW c \in Pids, Flush(c), job[c].dest \in Paths, PlaceOk(job[c], files),
         UNCHANGED life, NEW stdin, NEW out, NEW err
  PROVE  Comes(life'[c], job'[c], files', stdin, out, err) = Comes(life[c], job[c], files, stdin, out, err)
<1> DEFINE dest == job[c].dest
           text == job[c].out
           more == Append(files[dest], Head(text))
<1>1. life[c] = "alive" /\ job[c].at = "flush" /\ job[c] \in JobType /\ text # <<>>
  BY DEF Flush, At, Typed
<1>2. files' = [files EXCEPT ![dest] = more] /\ job'[c].at = "flush" /\ job'[c].out = Tail(text)
      /\ job'[c].dest = dest
  BY FlushFileStep
<1>3. more \o Tail(text) = files[dest] \o text
  BY <1>1, ChunkOut DEF JobType, DestInv
<1>8. files \in [Paths -> FileTexts] /\ dest \in Paths
  BY DEF Typed
<1> HIDE DEF dest, text, more
<1>4. From(job[c], files, stdin, out, err) = FromFlush(dest, text, files, out, err)
  BY <1>1, FromStages DEF dest, text
<1>5. From(job'[c], files', stdin, out, err) = FromFlush(dest, Tail(text), files', out, err)
  BY <1>2 DEF From
<1>6. [files' EXCEPT ![dest] = files'[dest] \o Tail(text)] = [files EXCEPT ![dest] = files[dest] \o text]
  <2>1. files'[dest] = more
    BY <1>2, <1>8
  <2> QED
    BY <1>2, <1>3, <1>8, <2>1
<1>7. FromFlush(dest, Tail(text), files', out, err) = FromFlush(dest, text, files, out, err)
  BY <1>6, <1>8 DEF FromFlush
<1> QED
  BY <1>1, <1>4, <1>5, <1>7 DEF Comes

\* Flush, to a stream
LEMMA FlushStreamComes ==
  ASSUME Typed, NEW c \in Pids, Flush(c), job[c].dest \notin Paths, UNCHANGED life,
         NEW stdin, NEW out \in Text, NEW err
  PROVE  Comes(life'[c], job'[c], files', stdin, Append(out, Head(job[c].out)), err)
           = Comes(life[c], job[c], files, stdin, out, err)
<1> DEFINE more == Append(out, Head(job[c].out))
           rest == Tail(job[c].out)
<1>1. life[c] = "alive" /\ job[c].at = "flush" /\ job[c] \in JobType /\ job[c].out # <<>>
  BY DEF Flush, At, Typed
<1>2. job'[c] = [job[c] EXCEPT !.out = rest, !.wrote = job[c].wrote + 1] /\ files' = files
  BY <1>1 DEF Flush, Typed
<1>3. more \o rest = out \o job[c].out
  BY <1>1, ChunkOut DEF JobType
<1> HIDE DEF more, rest
<1>4. job'[c].at = "flush" /\ job'[c].out = rest /\ job'[c].dest = job[c].dest
  BY <1>1, <1>2 DEF JobType, Typed
<1>5. From(job'[c], files', stdin, more, err) = FromFlush(job[c].dest, rest, files, more, err)
  BY <1>2, <1>4 DEF From
<1>6. From(job[c], files, stdin, out, err) = FromFlush(job[c].dest, job[c].out, files, out, err)
  BY <1>1, FromStages
<1>7. FromFlush(job[c].dest, rest, files, more, err) = FromFlush(job[c].dest, job[c].out, files, out, err)
  BY <1>3 DEF FromFlush
<1> QED
  BY <1>1, <1>5, <1>6, <1>7 DEF Comes, more

\* Exit
LEMMA ExitComes ==
  ASSUME Typed, DestInv, NEW c \in Pids, Exit(c), NEW stdin, NEW out \in Text, NEW err
  PROVE  Comes(life'[c], job'[c], files', stdin, out, err) = Comes(life[c], job[c], files, stdin, out, err)
<1>1. life[c] = "alive" /\ job[c].at = "flush" /\ job[c].out = <<>> /\ End(c, "exited")
  BY DEF Exit, At
<1>2. life'[c] = "exited" /\ files' = files
  BY <1>1 DEF End, Typed
<1>3. From(job[c], files, stdin, out, err) = FromFlush(job[c].dest, <<>>, files, out, err)
  BY <1>1, FromStages
<1>4. out \o <<>> = out
  BY LenText
<1>5. FromFlush(job[c].dest, <<>>, files, out, err) = Result("exited", out, err, files)
  <2>1. job[c].dest \in Paths => files[job[c].dest] \o <<>> = files[job[c].dest]
    BY LenText DEF DestInv
  <2>2. job[c].dest \in Paths => [files EXCEPT ![job[c].dest] = files[job[c].dest]] = files
    BY DEF Typed
  <2> QED
    BY <1>4, <2>1, <2>2 DEF FromFlush
<1> QED
  BY <1>1, <1>2, <1>3, <1>5 DEF Comes

-----------------------------------------------------------------------------
(* Who runs the suite.                                                         *)

\* It holds at the start
LEMMA RunnersInit ==
  ASSUME Init PROVE RunnersInv
<1>1. ASSUME NEW p \in Pids PROVE RunnersOk(p)
  <2>1. life[p] = IF p = Root THEN "alive" ELSE "free"
    BY DEF Init
  <2>2. run[p].at = IF p = Root THEN "loop" ELSE "none"
    BY DEF Init, NoRun
  <2>3. parent[p] = NoPid
    BY DEF Init
  <2> QED
    BY <2>1, <2>2, <2>3 DEF RunnersOk
<1> QED
  BY <1>1 DEF RunnersInv

\* A runner stays one, or becomes a vinumc
LEMMA SelfRuns ==
  ASSUME Typed, RunInv, NEW p \in Pids, RunnerStep(p)
  PROVE  \/ run'[p].at # "none" /\ (run[p].at # "child" => run'[p].at # "child")
         \/ onPath /\ run[p].at = "child" /\ run'[p].at = "none" /\ job'[p].options # Nothing
<1>1. CASE IsExec(p)
  <2>1. Becomes(p)
    BY <1>1 DEF IsExec
  <2>2. CASE onPath /\ run'[p] = NoRun /\ job'[p] = Job(Test(p).options)
    <3>1. IsTest(Test(p))
      BY <1>1, RunnerPipes DEF IsExec
    <3>2. Test(p).options # Nothing
      BY <3>1, HarnessAssumption DEF IsTest
    <3> QED
      BY <1>1, <2>2, <3>2 DEF IsExec, NoRun, Job
  <2>3. CASE Concludes(p, "FAILED")
    BY <2>3 DEF Concludes
  <2> QED
    BY <2>1, <2>2, <2>3 DEF Becomes
<1>2. CASE IsFork(p)
  <2>1. PICK c \in Pids : Forks(p, c)
    BY <1>2 DEF IsFork
  <2>2. run[p] \in RunType
    BY DEF Typed
  <2>3. run'[p].at = "send"
    BY <2>1, <2>2 DEF Forks, RunType
  <2> QED
    BY <2>3
<1>3. CASE IsWrite(p)
  BY <1>3 DEF IsWrite, WritesInput, Moves, Concludes
<1>4. CASE IsWait(p)
  BY <1>4 DEF IsWait, Waits, Reaps, Moves, Concludes
<1>5. CASE IsSkip(p) \/ IsSetUp(p) \/ IsForkFails(p) \/ IsSend(p) \/ IsShut(p) \/ IsReadOut(p)
           \/ IsReadErr(p) \/ IsJudge(p) \/ IsFlushTap(p)
  BY <1>5 DEF IsSkip, IsSetUp, SetsUp, IsForkFails, IsSend, Sends, IsShut, IsReadOut, ReadsOut,
    IsReadErr, ReadsErr, IsJudge, IsFlushTap, Moves, Concludes
<1>6. CASE IsReturn(p)
  BY <1>6 DEF IsReturn
<1> QED
  BY <1>1, <1>2, <1>3, <1>4, <1>5, <1>6 DEF RunnerStep

\* A runner's steps keep it
LEMMA RunnersRunner ==
  ASSUME Typed, RunInv, RunnersInv, NEW p \in Pids, RunnerStep(p)
  PROVE  RunnersInv'
<1>1. life[p] = "alive" /\ onPath' = onPath
  BY DEF RunnerStep
<1>2. RunnersOk(p)'
  <2>1. RunnersOk(p)
    BY DEF RunnersInv
  <2>2. /\ life'[p] = IF run[p].at = "return" THEN "exited" ELSE "alive"
        /\ run[p].at # "none" /\ parent'[p] = parent[p]
    BY SelfStays
  <2>3. run[p].at = "return" => run'[p].at = "return"
    <3>1. run[p].at = "return" => IsReturn(p)
      BY DEF RunnerStep, IsSkip, IsSetUp, IsFork, IsForkFails, IsExec, IsSend, IsWrite, IsShut, IsWait,
        IsReadOut, IsReadErr, IsJudge, IsFlushTap
    <3> QED
      BY <3>1 DEF IsReturn
  <2>4. \/ run'[p].at # "none" /\ (run[p].at # "child" => run'[p].at # "child")
        \/ onPath /\ run[p].at = "child" /\ run'[p].at = "none" /\ job'[p].options # Nothing
    BY SelfRuns
  <2>5. onPath /\ p # Root => run[p].at = "child" /\ run'[p].at = "none" /\ job'[p].options # Nothing
    <3>1. run[p].at = "child" => IsExec(p)
      BY DEF RunnerStep, IsSkip, IsSetUp, IsFork, IsForkFails, IsSend, IsWrite, IsShut, IsWait,
        IsReadOut, IsReadErr, IsJudge, IsFlushTap, IsReturn
    <3>2. IsExec(p) /\ onPath => run'[p] = NoRun
      BY DEF IsExec, Becomes
    <3>3. NoRun.at = "none"
      BY DEF NoRun
    <3> QED
      BY <2>1, <2>2, <2>4, <3>1, <3>2, <3>3 DEF RunnersOk
  <2> QED
    BY <1>1, <2>1, <2>2, <2>3, <2>4, <2>5 DEF RunnersOk
<1>3. ASSUME NEW q \in Pids, q # p PROVE RunnersOk(q)'
  <2>1. RunnersOk(q) /\ RunnersOk(p)
    BY DEF RunnersInv
  <2>2. CASE Forks(p, q) /\ run[p].at = "fork"
    <3>1. life'[q] = "alive" /\ parent'[q] = p
      BY <2>2 DEF Forks
    <3>2. run[p] \in RunType
      BY DEF Typed
    <3>3. run'[q].at = "child"
      BY <2>2, <3>2 DEF Forks, RunType
    <3>4. onPath => p = Root
      BY <2>1, <2>2 DEF RunnersOk
    <3> QED
      BY <1>1, <3>1, <3>3, <3>4 DEF RunnersOk
  <2>3. CASE /\ run'[q] = run[q] /\ job'[q] = job[q] /\ parent'[q] = parent[q]
             /\ life'[q] = "free" <=> life[q] = "free"
             /\ ~ Forks(p, q)
    <3>1. life'[q] = life[q] \/ life[q] \in {"exited", "killed"}
      BY <1>3, <2>3, OthersLive DEF Zombies
    <3> QED
      BY <1>1, <2>1, <2>3, <3>1 DEF RunnersOk
  <2> QED
    BY <1>3, <2>2, <2>3, OthersStay
<1> QED
  BY <1>2, <1>3 DEF RunnersInv

\* Only where vinumc is found does one run
LEMMA FoundToRun ==
  ASSUME RunInv, RunnersInv, NEW p \in Pids, VinumcStep(p)
  PROVE  onPath /\ run[p].at = "none"
<1>1. RunnersOk(p) /\ life[p] = "alive" /\ job[p].options # Nothing
  BY DEF RunnersInv, VinumcStep
<1>2. run[p].at = "none"
  BY <1>1 DEF RunInv
<1> QED
  BY <1>1, <1>2 DEF RunnersOk

\* A vinumc's steps keep it
LEMMA RunnersVinumc ==
  ASSUME RunInv, RunnersInv, NEW p \in Pids, VinumcStep(p), UNCHANGED <<run, Suite>>
  PROVE  RunnersInv'
<1>1. onPath /\ onPath' = onPath
  BY FoundToRun DEF Suite
<1>2. ASSUME NEW q \in Pids PROVE RunnersOk(q)'
  <2>1. run'[q] = run[q] /\ parent'[q] = parent[q] /\ job'[q].options = job[q].options
        /\ (life'[q] # "free" => life[q] # "free")
    BY DEF VinumcStep
  <2>2. RunnersOk(q)
    BY DEF RunnersInv
  <2> QED
    BY <1>1, <2>1, <2>2 DEF RunnersOk
<1> QED
  BY <1>2 DEF RunnersInv

-----------------------------------------------------------------------------
(* What a runner reads where vinumc is not found.                              *)

\* What a runner that is no vinumc's child prints, once
LEMMA TapText ==
  /\ <<"TAP">> \in Text /\ Append(<<>>, "TAP") = <<"TAP">>
  /\ <<>> \o <<"TAP">> = <<"TAP">> /\ <<"TAP">> \o <<>> = <<"TAP">>
<1>1. "TAP" \in Chunks
  BY HarnessAssumption
<1>2. <<"TAP">> \in Text
  BY <1>1 DEF Text
<1>3. Append(<<>>, "TAP") = <<"TAP">>
  OBVIOUS
<1> QED
  BY <1>2, <1>3, LenText

\* It holds at the start
LEMMA TapInit ==
  ASSUME Init PROVE TapInv
<1>1. ASSUME NEW p \in Pids PROVE run[p].at \in {"none", "loop"}
  BY DEF Init, NoRun
<1> QED
  BY <1>1 DEF TapInv, TapOk, Waiting

\* What the runner's own steps leave in the pipe
LEMMA TapSelf ==
  ASSUME Typed, FamilyInv, RunInv, ChildrenInv, RunnersInv, NEW p \in Pids, RunnerStep(p),
         ~ onPath, Clean(p), Clean(p)', TapOk(p)
  PROVE  TapOk(p)'
<1> DEFINE read == run[p].out
           data == Data(p, "out")
<1>1. run[p] \in RunType /\ RunnerInv(p) /\ NoPid \notin Pids
  BY HarnessAssumption DEF Typed, RunInv
<1>2. run'[p].test = run[p].test => Pipe(p, "out")' = Pipe(p, "out")
  BY DEF Pipe
<1>3. CASE run'[p].at \in {"none", "loop", "child", "return"}
  BY <1>3 DEF TapOk, Waiting
<1>4. CASE IsSetUp(p)
  <2>1. SetsUp(p) /\ run[p].test <= Len(suite)
    BY <1>4 DEF IsSetUp
  <2>2. run'[p].at = "fork" /\ Pipe(p, "out")' = Pipe(p, "out")
    BY <1>2, <2>1 DEF SetsUp, Moves
  <2>3. Pipe(p, "out") \in PipeIds /\ Pipe(p, "out") \in Used(p)
    BY <2>1, TestFacts DEF Used
  <2>4. pipes'[Pipe(p, "out")].data = <<>>
    BY <2>1, <2>3 DEF SetsUp
  <2> QED
    BY <2>2, <2>4 DEF TapOk, Waiting, Data
<1>5. CASE IsFork(p)
  <2>1. run[p].at = "fork" /\ data = <<>>
    BY <1>5 DEF IsFork, TapOk
  <2>2. PICK c \in Pids : Forks(p, c)
    BY <1>5 DEF IsFork
  <2>3. run'[p].at = "send" /\ run'[p].kid = c /\ run'[p].test = run[p].test
        /\ run'[c].at = "child"
    BY <2>2, <1>1 DEF Forks, RunType
  <2>4. Pipe(p, "out") \in PipeIds
    BY <2>1, RunnerPipes
  <2>5. Data(p, "out")' = data
    BY <1>2, <2>2, <2>3, <2>4 DEF Forks, Data
  <2> QED
    BY <2>1, <2>3, <2>5 DEF TapOk
<1>6. CASE IsForkFails(p)
  <2>1. run'[p].kid = NoPid /\ run'[p].at = "send"
    BY <1>1, <1>6 DEF IsForkFails, Moves, Keeps, RunnerInv, Early
  <2> QED
    BY <1>1, <2>1 DEF TapOk
<1>7. CASE IsSend(p) \/ IsShut(p) \/ (IsWrite(p) /\ run'[p].at # "loop")
  <2>1. run[p].at \in Waiting /\ run'[p].at \in Waiting /\ run'[p].kid = run[p].kid
        /\ run'[p].test = run[p].test
    BY <1>7 DEF IsSend, Sends, IsShut, IsWrite, WritesInput, Concludes, Moves, Keeps, Waiting
  <2>2. Pipe(p, "out") \in PipeIds /\ Pipe(p, "out") # Pipe(p, "in")
    BY <2>1, RunnerPipes DEF Waiting, Pipe
  <2>3. pipes'[Pipe(p, "out")].data = data
    BY <1>7, <2>2 DEF IsSend, Sends, IsShut, IsWrite, WritesInput, Closes, Concludes, Data
  <2>4. \A c \in Pids : run[p].kid = c => run'[c].at = run[c].at
    <3>1. \A c \in Pids : run[p].kid = c => c # p
      BY <2>1, KidFacts
    <3>2. \A q \in Pids : q # p => run'[q] = run[q]
      BY <1>7 DEF IsSend, Sends, IsShut, IsWrite, WritesInput, Concludes, Moves
    <3> QED
      BY <3>1, <3>2
  <2> QED
    BY <1>2, <2>1, <2>3, <2>4 DEF TapOk, Data, Waiting
<1>8. CASE IsWait(p)
  <2>1. Moves(p, "out") /\ KeepsBut(p)
        /\ (run[p].kid # NoPid => Reaps(p, run[p].kid) /\ run'[p].status = life[run[p].kid])
    BY <1>8, WaitsForKid
  <2>2. run'[p].at = "out" /\ run'[p].kid = run[p].kid /\ run'[p].out = <<>>
    <3>1. run[p].out = <<>>
      BY <1>1, <1>8 DEF RunnerInv, IsWait
    <3> QED
      BY <2>1, <3>1 DEF Moves, KeepsBut
  <2>3. Data(p, "out")' = data
    BY <1>2, <1>8, <2>1 DEF IsWait, Data, Moves
  <2>4. CASE run[p].kid # NoPid
    <3>1. run[p].kid \in Pids /\ life[run[p].kid] \in {"exited", "killed"}
      BY <2>1, <2>4, <1>1 DEF Reaps, Zombies, RunType
    <3>2. run[run[p].kid].at = "return"
      BY <3>1 DEF RunnersInv, RunnersOk
    <3>3. data = <<"TAP">>
      BY <3>1, <3>2, <1>8 DEF TapOk, IsWait, Waiting
    <3> QED
      BY <2>2, <2>3, <3>3, TapText DEF TapOk, Waiting
  <2>5. CASE run[p].kid = NoPid
    BY <2>2, <2>5 DEF TapOk, Waiting
  <2> QED
    BY <2>4, <2>5
<1>9. CASE IsReadOut(p)
  <2>1. run[p].at = "out" /\ Pipe(p, "out") \in PipeIds /\ ReadsOut(p)
    BY <1>9, RunnerPipes DEF IsReadOut
  <2>2. read \in Text /\ data \in Text
    BY <2>1, <1>1 DEF RunType, Data, Typed, PipeType
  <2>3. CASE Moves(p, "out") /\ Drains(Pipe(p, "out")) /\ run'[p].out = read \o data
             /\ run'[p].kid = run[p].kid
    <3>1. run'[p].at = "out" /\ Data(p, "out")' = <<>>
      BY <1>2, <2>3 DEF Moves, Drains, Data
    <3>2. run[p].kid # NoPid => run'[p].out = <<"TAP">>
      BY <2>1, <2>3 DEF TapOk
    <3> QED
      BY <2>3, <3>1, <3>2, TapText DEF TapOk, Waiting
  <2>4. CASE AtEof(Pipe(p, "out")) /\ Moves(p, "err") /\ Keeps(p)
    <3>1. run'[p].at = "err" /\ run'[p].out = read /\ run'[p].kid = run[p].kid /\ data = <<>>
      BY <2>4 DEF Moves, Keeps, AtEof, Data
    <3>2. read \o data = read
      BY <3>1, <2>2, LenText
    <3>3. run[p].kid # NoPid => read = <<"TAP">>
      BY <2>1, <3>2 DEF TapOk
    <3> QED
      BY <3>1, <3>3 DEF TapOk, Waiting
  <2> QED
    BY <2>1, <2>3, <2>4 DEF ReadsOut, Data
<1>10. CASE IsReadErr(p)
  <2>1. run[p].at = "err" /\ run'[p].at \in {"err", "judge"} /\ run'[p].out = read
        /\ run'[p].kid = run[p].kid
    BY <1>10 DEF IsReadErr, ReadsErr, Moves, Keeps
  <2>2. run[p].kid # NoPid => read = <<"TAP">>
    BY <2>1 DEF TapOk
  <2> QED
    BY <2>1, <2>2 DEF TapOk, Waiting
<1>11. IsSkip(p) \/ IsJudge(p) \/ IsFlushTap(p) => run'[p].at \in {"loop", "return"}
  BY DEF IsSkip, IsJudge, IsFlushTap, Concludes, Moves
<1>12. IsExec(p) => run'[p].at = "loop"
  BY DEF IsExec, Becomes, Concludes
<1>13. IsReturn(p) => run'[p].at = "return"
  BY DEF IsReturn
<1> QED
  BY <1>3, <1>4, <1>5, <1>6, <1>7, <1>8, <1>9, <1>10, <1>11, <1>12, <1>13 DEF RunnerStep

\* A runner returns once it has printed its results
LEMMA SelfReturns ==
  ASSUME Typed, RunInv, NEW p \in Pids, RunnerStep(p), run'[p].at = "return"
  PROVE  IsFlushTap(p) \/ IsReturn(p)
<1>1. CASE IsExec(p)
  BY <1>1 DEF IsExec, Becomes, Concludes, NoRun
<1>2. CASE IsFork(p)
  <2>1. PICK c \in Pids : Forks(p, c)
    BY <1>2 DEF IsFork
  <2>2. run[p] \in RunType
    BY DEF Typed
  <2> QED
    BY <2>1, <2>2 DEF Forks, RunType
<1>3. CASE IsWrite(p)
  BY <1>3 DEF IsWrite, WritesInput, Moves, Concludes
<1>4. CASE IsWait(p)
  BY <1>4 DEF IsWait, Waits, Reaps, Moves, Concludes
<1>5. CASE IsSkip(p) \/ IsSetUp(p) \/ IsForkFails(p) \/ IsSend(p) \/ IsShut(p) \/ IsReadOut(p)
           \/ IsReadErr(p) \/ IsJudge(p)
  BY <1>5 DEF IsSkip, IsSetUp, SetsUp, IsForkFails, IsSend, Sends, IsShut, IsReadOut, ReadsOut,
    IsReadErr, ReadsErr, IsJudge, Moves, Concludes
<1> QED
  BY <1>1, <1>2, <1>3, <1>4, <1>5 DEF RunnerStep

\* The runner whose pipe a process prints into waits for it
LEMMA PrintsToParent ==
  ASSUME RootInv, StreamInv, ChildrenInv, NEW p \in Pids, life[p] = "alive", run[p].at # "child",
         NEW q \in Pids, Clean(q), NEW i \in PipeIds, i[1] = q, i = std[p].out
  PROVE  run[q].at \in Waiting /\ run[q].kid = p
<1>1. i # Terminal
  BY NotTerminal
<1>2. p # Root
  BY <1>1 DEF RootInv
<1>3. parent[p] = q
  BY <1>2 DEF StreamInv
<1>4. Unreaped(p)
  BY DEF Unreaped
<1> QED
  BY <1>3, <1>4 DEF ChildrenInv

\* What other runners leave in the pipe
LEMMA TapOthers ==
  ASSUME Typed, KernelInv, FamilyInv, RunInv, RootInv, StreamInv, ChildrenInv, HeldInv, KidInv,
         NEW p \in Pids, RunnerStep(p), ~ onPath, NEW q \in Pids, q # p, Clean(q), TapOk(q)
  PROVE  TapOk(q)'
<1>1. life[q] = "alive" /\ run[q].at # "none" /\ life[p] = "alive"
  BY DEF Clean, RunnerStep
<1>2. run'[q] = run[q]
  BY <1>1, OthersStay DEF Forks
<1>3. Pipe(q, "out")' = Pipe(q, "out")
  BY <1>2 DEF Pipe
<1>4. CASE run[q].at \in {"none", "loop", "child", "return"}
  BY <1>2, <1>4 DEF TapOk, Waiting
<1>5. CASE run[q].at \notin {"none", "loop", "child", "return"}
  <2> DEFINE i == Pipe(q, "out")
  <2>1. i \in PipeIds /\ i[1] = q /\ i = Pipe(q, "out")
    BY <1>5, RunnerPipes
  <2> HIDE DEF i
  <2>2. pipes'[i].data = pipes[i].data \/ (IsFlushTap(p) /\ i = std[p].out)
    BY <2>1, OthersData
  <2>3. CASE pipes'[i].data = pipes[i].data /\ ~ (run[q].at \in Waiting /\ run[q].kid = p /\ IsFlushTap(p))
    <3>1. Data(q, "out")' = Data(q, "out")
      BY <2>1, <2>3, <1>3 DEF Data
    <3>2. \A c \in Pids : run[q].at \in Waiting /\ run[q].kid = c =>
            (run'[c].at = "return" <=> run[c].at = "return")
      <4> SUFFICES ASSUME NEW c \in Pids, run[q].at \in Waiting, run[q].kid = c
                   PROVE  run'[c].at = "return" <=> run[c].at = "return"
        OBVIOUS
      <4>1. Unreaped(c)
        BY KidFacts
      <4>2. CASE c # p
        <5>1. ~ Forks(p, c)
          BY <4>1 DEF Unreaped, Forks
        <5>2. run'[c] = run[c]
          BY <4>2, <5>1, OthersStay
        <5> QED
          BY <5>2
      <4>3. CASE c = p
        <5>1. ~ IsFlushTap(p)
          BY <2>3, <4>3
        <5>2. CASE IsReturn(p)
          BY <4>3, <5>2 DEF IsReturn
        <5>3. CASE ~ IsReturn(p)
          <6>1. run[p].at # "return"
            BY <5>3 DEF RunnerStep, IsSkip, IsSetUp, IsFork, IsForkFails, IsExec, IsSend, IsWrite, IsShut,
              IsWait, IsReadOut, IsReadErr, IsJudge, IsFlushTap
          <6>2. run'[p].at # "return"
            BY <5>1, <5>3, SelfReturns
          <6> QED
            BY <4>3, <6>1, <6>2
        <5> QED
          BY <5>2, <5>3
      <4> QED
        BY <4>2, <4>3
    <3> QED
      BY <1>2, <3>1, <3>2 DEF TapOk
  <2>4. CASE run[q].at \in Waiting /\ run[q].kid = p /\ IsFlushTap(p)
    <3>1. run[p].at = "loop" /\ run'[p].at = "return"
      BY <2>4 DEF IsFlushTap, Moves
    <3>2. KidOk(q, p)
      BY <2>4 DEF KidInv
    <3>3. std[p].out = i /\ i # Terminal
      BY <2>1, <3>1, <3>2, NotTerminal DEF KidOk
    <3>4. q \in pipes[i].readers
      BY <2>1, <2>4, <1>1 DEF HeldInv, HeldOk
    <3>5. Write("TAP", i)
      BY <2>4, <3>3 DEF IsFlushTap
    <3>6. pipes' = [pipes EXCEPT ![i].data = Append(@, "TAP")]
      BY <3>3, <3>4, <3>5 DEF Write
    <3>7. pipes[i].data = <<>>
      BY <2>1, <2>4, <3>1 DEF TapOk, Data
    <3>8. pipes'[i].data = <<"TAP">>
      BY <2>1, <3>6, <3>7, TapText DEF Typed, PipeType
    <3>9. Data(q, "out")' = <<"TAP">>
      BY <2>1, <3>8, <1>3 DEF Data
    <3> QED
      BY <1>2, <2>4, <3>1, <3>9 DEF TapOk, Waiting
  <2>5. IsFlushTap(p) /\ i = std[p].out => run[q].at \in Waiting /\ run[q].kid = p
    <3>1. IsFlushTap(p) => run[p].at # "child"
      BY DEF IsFlushTap
    <3> QED
      BY <1>1, <2>1, <3>1, PrintsToParent
  <2> QED
    BY <2>2, <2>3, <2>4, <2>5
<1> QED
  BY <1>4, <1>5

\* A runner's steps keep it
LEMMA TapRunner ==
  ASSUME IInv, RunnersInv, TapInv, NEW p \in Pids, RunnerStep(p)
  PROVE  TapInv'
<1>1. /\ Typed /\ KernelInv /\ FamilyInv /\ RunInv /\ RootInv /\ StreamInv /\ ChildrenInv
      /\ HeldInv /\ KidInv
  BY DEF IInv
<1>2. onPath' = onPath
  BY DEF RunnerStep
<1>3. ASSUME NEW q \in Pids, ~ onPath, Clean(q)' PROVE TapOk(q)'
  <2>1. CASE q # p /\ Forks(p, q)
    <3>1. run[p] \in RunType
      BY <1>1 DEF Typed
    <3>2. run'[q].at = "child"
      BY <2>1, <3>1 DEF Forks, RunType
    <3> QED
      BY <3>2 DEF TapOk, Waiting
  <2>2. CASE Clean(q)
    <3>1. TapOk(q)
      BY <1>3, <2>2 DEF TapInv
    <3>2. CASE q = p
      BY <1>1, <1>3, <2>2, <3>1, <3>2, TapSelf
    <3>3. CASE q # p
      BY <1>1, <1>3, <2>2, <3>1, <3>3, TapOthers
    <3> QED
      BY <3>2, <3>3
  <2> QED
    BY <1>1, <1>3, <2>1, <2>2, CleanBefore
<1> QED
  BY <1>2, <1>3 DEF TapInv

-----------------------------------------------------------------------------
(* What a runner reads where vinumc is found.                                  *)

\* The one process besides the first is the child of its test
LEMMA FoundKid ==
  ASSUME IInv, RunnersInv, onPath, Clean(Root), NEW q \in Pids, q # Root, life[q] = "alive"
  PROVE  run[Root].at \in Waiting /\ run[Root].kid = q
<1>1. Root \in Pids /\ NoPid \notin Pids
  BY ProcessesAssumption, HarnessAssumption DEF Root
<1>2. parent[q] = Root
  BY <1>1 DEF IInv, FamilyInv, RunnersInv, RunnersOk
<1>3. Unreaped(q)
  BY DEF Unreaped
<1> QED
  BY <1>1, <1>2, <1>3 DEF IInv, ChildrenInv

\* The first process's test, the pipes and what is left of the input
LEMMA RootTest ==
  ASSUME IInv, run[Root].at \notin {"none", "loop", "return"}
  PROVE  /\ Root \in Pids /\ IsTest(Test(Root)) /\ run[Root] \in RunType /\ RunnerInv(Root)
         /\ Pipe(Root, "in") \in PipeIds /\ Pipe(Root, "out") \in PipeIds
         /\ Pipe(Root, "err") \in PipeIds
         /\ Pipe(Root, "in") # Pipe(Root, "out") /\ Pipe(Root, "in") # Pipe(Root, "err")
         /\ Pipe(Root, "out") # Pipe(Root, "err")
         /\ Data(Root, "in") \in Text /\ Data(Root, "out") \in Text /\ Data(Root, "err") \in Text
<1>1. Root \in Pids /\ Typed /\ RunInv
  BY ProcessesAssumption DEF Root, IInv
<1>2. /\ Pipe(Root, "in") \in PipeIds /\ Pipe(Root, "out") \in PipeIds /\ Pipe(Root, "err") \in PipeIds
      /\ IsTest(Test(Root))
  BY <1>1, RunnerPipes
<1>3. \A i \in PipeIds : pipes[i].data \in Text
  BY <1>1 DEF Typed, PipeType
<1>4. run[Root] \in RunType /\ RunnerInv(Root)
  BY <1>1 DEF Typed, RunInv
<1>5. /\ Pipe(Root, "in") # Pipe(Root, "out") /\ Pipe(Root, "in") # Pipe(Root, "err")
      /\ Pipe(Root, "out") # Pipe(Root, "err")
  BY DEF Pipe
<1> QED
  BY <1>1, <1>2, <1>3, <1>4, <1>5 DEF Data

\* What is left of the input is a text
LEMMA StdinText ==
  ASSUME IInv, run[Root].at \notin {"none", "loop", "return"}
  PROVE  /\ Stdin \in Text
         /\ Test(Root).input # Nothing => Unsent \in Text /\ Stdin = Data(Root, "in") \o Unsent
         /\ Test(Root).input = Nothing => Stdin = <<>>
<1>1. IsTest(Test(Root)) /\ run[Root] \in RunType /\ Data(Root, "in") \in Text
  BY RootTest
<1>2. Test(Root).input # Nothing => Unsent \in Text
  BY <1>1, EmptyText DEF Unsent, IsTest, RunType
<1> QED
  BY <1>1, <1>2, EmptyText, ConcatText DEF Stdin

\* A step of vinumc that leaves what is in the pipes
LEMMA QuietComes ==
  ASSUME IInv, NEW c \in Pids, Vinumc(c), VinumcStep(c), run[Root].at \notin {"none", "loop", "return"},
         PlaceOk(job[c], files),
         \/ ParseCmdline(c) \/ ShowUsage(c) \/ OpenOutput(c) \/ ReadInputFile(c)
         \/ ReadEffects(c) \/ CompileProgram(c) \/ Emit(c) \/ Exit(c)
         \/ (Flush(c) /\ job[c].dest \in Paths)
  PROVE  /\ \A i \in PipeIds : pipes'[i].data = pipes[i].data
         /\ Comes(life'[c], job'[c], files', Stdin, Data(Root, "out"), Data(Root, "err"))
              = Comes(life[c], job[c], files, Stdin, Data(Root, "out"), Data(Root, "err"))
<1>1. Typed /\ DestInv /\ JobOk(job[c])
  BY DEF IInv, JobInv, VinumcStep
<1>2. Stdin \in Text /\ Data(Root, "out") \in Text /\ Data(Root, "err") \in Text
  BY RootTest, StdinText
<1>3. Comes(life'[c], job'[c], files', Stdin, Data(Root, "out"), Data(Root, "err"))
        = Comes(life[c], job[c], files, Stdin, Data(Root, "out"), Data(Root, "err"))
  <2>1. Flush(c) /\ job[c].dest \in Paths => UNCHANGED life
    BY DEF Flush
  <2> QED
    BY <1>1, <1>2, <2>1, ParseComes, UsageComes, OpenComes, ReadFileComes, EffectsComes, CompileComes,
       EmitComes, ExitComes, FlushFileComes
<1>4. End(c, "exited") \/ End(c, "killed") \/ UNCHANGED pipes
  BY DEF ParseCmdline, ShowUsage, OpenOutput, ReadInputFile, ReadEffects, CompileProgram, Emit, Exit,
    Flush, Die, kernel
<1>5. \A i \in PipeIds : pipes'[i].data = pipes[i].data
  BY <1>1, <1>4, EndPipes
<1> QED
  BY <1>3, <1>5

\* The streams of the child, once it is vinumc
LEMMA KidStreams ==
  ASSUME IInv, RunnersInv, onPath, Clean(Root), NEW c \in Pids, c # Root, life[c] = "alive",
         run[c].at = "none"
  PROVE  /\ run[Root].at \in Waiting /\ run[Root].kid = c
         /\ std[c].out = Pipe(Root, "out") /\ std[c].err = Pipe(Root, "err")
         /\ Test(Root).input = Nothing => std[c].in = Terminal
         /\ Test(Root).input # Nothing => std[c].in = Pipe(Root, "in")
         /\ Root \in pipes[Pipe(Root, "out")].readers /\ Root \in pipes[Pipe(Root, "err")].readers
<1>1. Root \in Pids /\ run[Root].at \in Waiting /\ run[Root].kid = c
  BY FoundKid, ProcessesAssumption DEF Root
<1>2. KidOk(Root, c)
  BY <1>1 DEF IInv, KidInv
<1>3. HeldOk(Root)
  BY <1>1 DEF IInv, HeldInv, Clean
<1>4. std[Root].in = Terminal
  BY DEF IInv, RootInv
<1>5. /\ std[c].out = Pipe(Root, "out") /\ std[c].err = Pipe(Root, "err")
      /\ Test(Root).input = Nothing => std[c].in = Terminal
      /\ Test(Root).input # Nothing => std[c].in = Pipe(Root, "in")
  BY <1>2, <1>4 DEF KidOk
<1>6. Root \in pipes[Pipe(Root, "out")].readers /\ Root \in pipes[Pipe(Root, "err")].readers
  BY <1>1, <1>3 DEF HeldOk
<1> QED
  BY <1>1, <1>5, <1>6

\* A chunk that is written where somebody reads
LEMMA WrittenChunk ==
  ASSUME Typed, NEW x, NEW i \in PipeIds, pipes[i].readers # {}, Write(x, i)
  PROVE  /\ pipes'[i].data = Append(pipes[i].data, x)
         /\ \A j \in PipeIds : j # i => pipes'[j].data = pipes[j].data
<1>1. i # Terminal
  BY NotTerminal
<1>2. pipes' = [pipes EXCEPT ![i].data = Append(@, x)]
  BY <1>1 DEF Write
<1> QED
  BY <1>2 DEF Typed, PipeType

\* What the child comes to, after a step of its own
LEMMA KidComes ==
  ASSUME IInv, RunnersInv, onPath, Clean(Root), NEW c \in Pids, c # Root, run[c].at = "none",
         PlaceOk(job[c], files), Vinumc(c), VinumcStep(c), UNCHANGED <<run, Suite>>
  PROVE  Comes(life'[c], job'[c], files', Stdin', Data(Root, "out")', Data(Root, "err")')
           = Comes(life[c], job[c], files, Stdin, Data(Root, "out"), Data(Root, "err"))
<1> DEFINE in  == Pipe(Root, "in")
           out == Pipe(Root, "out")
           err == Pipe(Root, "err")
<1>1. Typed /\ JobOk(job[c]) /\ life[c] = "alive"
  BY DEF IInv, JobInv, VinumcStep
<1>2. /\ run[Root].at \in Waiting /\ run[Root].kid = c
      /\ std[c].out = out /\ std[c].err = err
      /\ Test(Root).input = Nothing => std[c].in = Terminal
      /\ Test(Root).input # Nothing => std[c].in = in
      /\ pipes[out].readers # {} /\ pipes[err].readers # {}
  BY <1>1, KidStreams
<1>3. run[Root].at \notin {"none", "loop", "return"}
  BY <1>2 DEF Waiting
<1>4. /\ in \in PipeIds /\ out \in PipeIds /\ err \in PipeIds
      /\ in # out /\ in # err /\ out # err
      /\ Data(Root, "in") \in Text /\ Data(Root, "out") \in Text /\ Data(Root, "err") \in Text
  BY <1>3, RootTest
<1>5. /\ Stdin \in Text
      /\ Test(Root).input # Nothing => Unsent \in Text /\ Stdin = Data(Root, "in") \o Unsent
      /\ Test(Root).input = Nothing => Stdin = <<>>
  BY <1>3, StdinText
<1>6. /\ Pipe(Root, "in")' = in /\ Pipe(Root, "out")' = out /\ Pipe(Root, "err")' = err
      /\ Test(Root)' = Test(Root) /\ Unsent' = Unsent
  BY DEF Pipe, Test, Suite, Unsent
<1>7. /\ Data(Root, "in")' = pipes'[in].data /\ Data(Root, "out")' = pipes'[out].data
      /\ Data(Root, "err")' = pipes'[err].data
      /\ Data(Root, "in") = pipes[in].data /\ Data(Root, "out") = pipes[out].data
      /\ Data(Root, "err") = pipes[err].data
  BY <1>6 DEF Data
<1>8. pipes'[in].data = pipes[in].data => Stdin' = Stdin
  BY <1>6, <1>7 DEF Stdin
<1> HIDE DEF in, out, err
<1>9. CASE \/ ParseCmdline(c) \/ ShowUsage(c) \/ OpenOutput(c) \/ ReadInputFile(c)
           \/ ReadEffects(c) \/ CompileProgram(c) \/ Emit(c) \/ Exit(c)
           \/ (Flush(c) /\ job[c].dest \in Paths)
  <2>1. /\ \A i \in PipeIds : pipes'[i].data = pipes[i].data
        /\ Comes(life'[c], job'[c], files', Stdin, Data(Root, "out"), Data(Root, "err"))
             = Comes(life[c], job[c], files, Stdin, Data(Root, "out"), Data(Root, "err"))
    BY <1>3, <1>9, QuietComes
  <2>2. Stdin' = Stdin /\ Data(Root, "out")' = Data(Root, "out") /\ Data(Root, "err")' = Data(Root, "err")
    BY <2>1, <1>4, <1>7, <1>8
  <2> QED
    BY <2>1, <2>2
<1>10. CASE ReadStdin(c) /\ (std[c].in = Terminal \/ AtEof(std[c].in)) /\ Goto(c, "effects")
            /\ UNCHANGED kernel
  <2>1. At(c, "read") /\ job[c].options.input = Nothing
    BY <1>10 DEF ReadStdin
  <2>2. Stdin = <<>>
    <3>1. CASE Test(Root).input = Nothing
      BY <1>5, <3>1
    <3>2. CASE Test(Root).input # Nothing
      <4>1. std[c].in = in /\ in # Terminal
        BY <1>2, <1>4, <3>2, NotTerminal
      <4>2. pipes[in].data = <<>> /\ pipes[in].writers = {}
        BY <1>10, <4>1 DEF AtEof
      <4>3. HeldOk(Root)
        BY ProcessesAssumption DEF IInv, HeldInv, Clean, Root
      <4>4. run[Root].at \notin {"send", "write", "shut"}
        BY <3>2, <4>2, <4>3 DEF HeldOk, in
      <4>5. Unsent = <<>>
        BY <1>2, <4>4 DEF Unsent, Waiting
      <4> QED
        BY <1>5, <1>7, <3>2, <4>2, <4>5, EmptyText, LenText
    <3> QED
      BY <3>1, <3>2
  <2>3. Comes(life'[c], job'[c], files', <<>>, Data(Root, "out"), Data(Root, "err"))
          = Comes(life[c], job[c], files, <<>>, Data(Root, "out"), Data(Root, "err"))
    BY <1>1, <1>10, <2>1, ReadStdinEnds
  <2>4. pipes' = pipes
    BY <1>10 DEF kernel
  <2> QED
    BY <2>2, <2>3, <2>4, <1>7, <1>8
<1>11. CASE /\ ReadStdin(c) /\ std[c].in # Terminal /\ Drain(std[c].in)
            /\ job' = [job EXCEPT ![c].program = @ \o pipes[std[c].in].data]
            /\ UNCHANGED <<life, parent, std, files>>
  <2>1. At(c, "read") /\ Test(Root).input # Nothing /\ std[c].in = in
    BY <1>2, <1>11 DEF ReadStdin
  <2>2. Drains(in)
    BY <1>1, <1>4, <1>11, <2>1, DrainStep
  <2>3. pipes'[in].data = <<>> /\ pipes'[out].data = pipes[out].data /\ pipes'[err].data = pipes[err].data
    BY <1>4, <2>2 DEF Drains
  <2>4. Stdin' = <<>> \o Unsent
    BY <1>6, <1>7, <2>1, <2>3 DEF Stdin
  <2>5. Unsent \in Text /\ Stdin = pipes[in].data \o Unsent /\ <<>> \o Unsent = Unsent
    BY <1>5, <1>7, <2>1, LenText
  <2>6. Comes(life'[c], job'[c], files', Unsent, Data(Root, "out"), Data(Root, "err"))
          = Comes(life[c], job[c], files, pipes[in].data \o Unsent, Data(Root, "out"), Data(Root, "err"))
    <3> DEFINE data == pipes[in].data
    <3>1. data \in Text
      BY <1>4, <1>7
    <3>2. Takes(c, data)
      BY <1>11, <2>1 DEF Takes
    <3>4. UNCHANGED <<life, files>>
      BY <1>11
    <3> HIDE DEF data
    <3>3. ASSUME NEW o, NEW e, NEW rest \in Text
          PROVE  Comes(life'[c], job'[c], files', rest, o, e)
                   = Comes(life[c], job[c], files, data \o rest, o, e)
      BY <1>1, <2>1, <3>1, <3>2, <3>4, ReadStdinComes
    <3> QED
      BY <3>3, <2>5 DEF data
  <2> QED
    BY <1>7, <2>3, <2>4, <2>5, <2>6
<1>12. CASE Report(c)
  <2> DEFINE x == Head(job[c].err)
  <2>1. Write(x, err) /\ UNCHANGED life
    BY <1>2, <1>12 DEF Report
  <2>2. pipes'[err].data = Append(pipes[err].data, x) /\ pipes'[out].data = pipes[out].data
        /\ pipes'[in].data = pipes[in].data
    <3> HIDE DEF x
    <3> QED
      BY <1>1, <1>2, <1>4, <2>1, WrittenChunk
  <2>3. Comes(life'[c], job'[c], files', Stdin, Data(Root, "out"), Append(Data(Root, "err"), x))
          = Comes(life[c], job[c], files, Stdin, Data(Root, "out"), Data(Root, "err"))
    BY <1>1, <1>4, <1>12, <2>1, ReportComes
  <2> QED
    BY <1>7, <1>8, <2>2, <2>3
<1>13. CASE Flush(c) /\ job[c].dest \notin Paths
  <2> DEFINE x == Head(job[c].out)
  <2>1. Write(x, out) /\ UNCHANGED life
    BY <1>2, <1>13 DEF Flush
  <2>2. pipes'[out].data = Append(pipes[out].data, x) /\ pipes'[err].data = pipes[err].data
        /\ pipes'[in].data = pipes[in].data
    <3> HIDE DEF x
    <3> QED
      BY <1>1, <1>2, <1>4, <2>1, WrittenChunk
  <2>3. Comes(life'[c], job'[c], files', Stdin, Append(Data(Root, "out"), x), Data(Root, "err"))
          = Comes(life[c], job[c], files, Stdin, Data(Root, "out"), Data(Root, "err"))
    BY <1>1, <1>4, <1>13, <2>1, FlushStreamComes
  <2> QED
    BY <1>7, <1>8, <2>2, <2>3
<1>14. ReadStdin(c) =>
         \/ (std[c].in = Terminal \/ AtEof(std[c].in)) /\ Goto(c, "effects") /\ UNCHANGED kernel
         \/ /\ std[c].in # Terminal /\ Drain(std[c].in)
            /\ job' = [job EXCEPT ![c].program = @ \o pipes[std[c].in].data]
            /\ UNCHANGED <<life, parent, std, files>>
  BY DEF ReadStdin
<1> QED
  BY <1>9, <1>10, <1>11, <1>12, <1>13, <1>14 DEF Vinumc

\* A vinumc's steps keep the invariant
LEMMA OutcomeVinumc ==
  ASSUME IInv, RunnersInv, OutcomeInv, PlacesInv, NEW c \in Pids, Vinumc(c), VinumcStep(c),
         UNCHANGED <<run, Suite>>
  PROVE  OutcomeInv'
<1>1. SUFFICES ASSUME Clean(Root)' PROVE OutcomeOk'
  BY DEF OutcomeInv
<1>2. Typed /\ RunInv /\ Root \in Pids /\ NoPid \notin Pids
  BY ProcessesAssumption, HarnessAssumption DEF IInv, Root
<1>3. onPath /\ run[c].at = "none" /\ life[c] = "alive"
  BY <1>2, FoundToRun DEF VinumcStep
<1>4. Clean(Root) /\ c # Root
  BY <1>1, <1>2, CleanVinumc
<1>5. run[Root].at \in Waiting /\ run[Root].kid = c
  BY <1>3, <1>4, FoundKid
<1>6. run[Root].ideal = Ending(c)
  BY <1>3, <1>4, <1>5 DEF OutcomeInv, OutcomeOk
<1>7. Ending(c) = Comes(life[c], job[c], files, Stdin, Data(Root, "out"), Data(Root, "err"))
  BY <1>3 DEF Ending
<1>8. Ending(c)' = Comes(life'[c], job'[c], files', Stdin', Data(Root, "out")', Data(Root, "err")')
  BY <1>3 DEF Ending
<1>12. PlaceOk(job[c], files)
  BY <1>3, <1>4 DEF PlacesInv, Clean, VinumcStep
<1>9. Ending(c)' = Ending(c)
  BY <1>3, <1>4, <1>7, <1>8, <1>12, KidComes
<1>10. run'[Root] = run[Root]
  OBVIOUS
<1> HIDE DEF Ending
<1>11. \A d \in Pids : run'[Root].kid = d => d = c
  BY <1>5, <1>10
<1> QED
  BY <1>5, <1>6, <1>9, <1>10, <1>11 DEF OutcomeOk, Waiting

\* It holds at the start
LEMMA OutcomeInit ==
  ASSUME Init PROVE OutcomeInv
<1>1. Root \in Pids
  BY ProcessesAssumption DEF Root
<1>2. run[Root].at = "loop"
  BY <1>1 DEF Init, NoRun
<1> QED
  BY <1>2 DEF OutcomeInv, OutcomeOk, Waiting

\* The child's own step to vinumc keeps it
LEMMA OutcomeExec ==
  ASSUME IInv, RunnersInv, OutcomeInv, NEW c \in Pids, c # Root, RunnerStep(c), onPath,
         Clean(Root), Clean(Root)'
  PROVE  OutcomeOk'
<1>1. Typed /\ Root \in Pids
  BY ProcessesAssumption DEF IInv, Root
<1>2. life[c] = "alive" /\ suite' = suite
  BY DEF RunnerStep
<1>3. run[Root].at \in Waiting /\ run[Root].kid = c
  BY <1>2, FoundKid
<1>4. run[c].at = "child"
  BY <1>1, SelfStays DEF RunnersInv, RunnersOk
<1>5. IsExec(c)
  BY <1>4 DEF RunnerStep, IsSkip, IsSetUp, IsFork, IsForkFails, IsSend, IsWrite, IsShut, IsWait,
    IsReadOut, IsReadErr, IsJudge, IsFlushTap, IsReturn
<1>6. /\ run'[c] = NoRun /\ run'[Root] = run[Root] /\ job'[c] = Job(Test(c).options)
      /\ \A i \in PipeIds : pipes'[i].data = pipes[i].data
      /\ UNCHANGED <<life, files>>
  BY <1>5, <1>1 DEF IsExec, Becomes, Closes
<1>7. Test(c) = Test(Root)
  <2>1. KidOk(Root, c)
    BY <1>1, <1>3 DEF IInv, KidInv
  <2> QED
    BY <2>1, <1>4 DEF KidOk, Test
<1>8. run[Root].at \notin {"none", "loop", "return"}
  BY <1>3 DEF Waiting
<1>9. /\ Pipe(Root, "in") \in PipeIds /\ Pipe(Root, "out") \in PipeIds /\ Pipe(Root, "err") \in PipeIds
  BY <1>8, RootTest
<1>10. /\ Data(Root, "in")' = Data(Root, "in") /\ Data(Root, "out")' = Data(Root, "out")
       /\ Data(Root, "err")' = Data(Root, "err")
  BY <1>6, <1>9 DEF Data, Pipe
<1>11. Test(Root)' = Test(Root) /\ Unsent' = Unsent
  BY <1>2, <1>6 DEF Test, Unsent
<1>12. Stdin' = Stdin
  BY <1>10, <1>11 DEF Stdin
<1>13. run[Root].ideal = Ending(c)
  BY <1>1, <1>3 DEF OutcomeInv, OutcomeOk
<1>14. Ending(c) = FromParse(Test(Root).options, files, Stdin, Data(Root, "out"), Data(Root, "err"))
  BY <1>2, <1>4 DEF Ending
<1>15. Ending(c)' = Comes(life'[c], job'[c], files', Stdin', Data(Root, "out")', Data(Root, "err")')
  BY <1>6 DEF Ending, NoRun
<1>16. Comes(life'[c], job'[c], files', Stdin', Data(Root, "out")', Data(Root, "err")')
         = From(job'[c], files, Stdin, Data(Root, "out"), Data(Root, "err"))
  BY <1>2, <1>6, <1>10, <1>12 DEF Comes
<1>17. job'[c].at = "parse" /\ job'[c].options = Test(Root).options
  BY <1>6, <1>7 DEF Job
<1>18. From(job'[c], files, Stdin, Data(Root, "out"), Data(Root, "err"))
         = FromParse(Test(Root).options, files, Stdin, Data(Root, "out"), Data(Root, "err"))
  BY <1>17 DEF From
<1>19. run'[Root].ideal = Ending(c)'
  BY <1>6, <1>13, <1>14, <1>15, <1>16, <1>18
<1>20. \A d \in Pids : run'[Root].kid = d => d = c
  BY <1>3, <1>6
<1> HIDE DEF Ending
<1> QED
  BY <1>3, <1>6, <1>19, <1>20 DEF OutcomeOk, Waiting

\* Before the test is set up and after it was judged nothing is said
LEMMA OutcomeNone ==
  ASSUME run[Root].at \in {"none", "loop", "child", "return"} PROVE OutcomeOk
BY DEF OutcomeOk, Waiting

\* The setting up of a test
LEMMA OutcomeSetUp ==
  ASSUME CompileAnswers, IInv, IsSetUp(Root), UNCHANGED suite
  PROVE  OutcomeOk'
<1>1. Typed /\ Root \in Pids
  BY ProcessesAssumption DEF IInv, Root
<1>2. SetsUp(Root) /\ run[Root].test <= Len(suite)
  BY DEF IsSetUp
<1>3. IsTest(Test(Root)) /\ Pipe(Root, "in") \in PipeIds /\ Pipe(Root, "out") \in PipeIds
      /\ Pipe(Root, "err") \in PipeIds
  BY <1>1, <1>2, TestFacts
<1>4. run'[Root].at = "fork" /\ run'[Root].test = run[Root].test
  BY <1>2 DEF SetsUp, Moves
<1>5. Test(Root)' = Test(Root) /\ \A end : Pipe(Root, end)' = Pipe(Root, end)
  BY <1>4 DEF Test, Pipe
<1>6. Data(Root, "out")' = <<>> /\ Data(Root, "err")' = <<>>
  BY <1>2, <1>3, <1>5 DEF SetsUp, Used, Data
<1>7. Test(Root).input # Nothing => Data(Root, "in")' = <<>>
  BY <1>2, <1>3, <1>5 DEF SetsUp, Used, Data
<1>8. Unsent' = Test(Root).input
  BY <1>4, <1>5 DEF Unsent
<1> DEFINE o == Test(Root).options
           input == IF Test(Root).input = Nothing THEN <<>> ELSE Test(Root).input
<1>9. o \in Options /\ input \in Text
  BY <1>3, EmptyText DEF IsTest
<1>10. Stdin' = input
  <2>1. Test(Root).input # Nothing => <<>> \o Test(Root).input = Test(Root).input
    BY <1>9, LenText
  <2>2. Stdin' = IF Test(Root).input = Nothing THEN <<>> ELSE Data(Root, "in")' \o Unsent'
    BY <1>5 DEF Stdin
  <2> QED
    BY <2>1, <2>2, <1>7, <1>8
<1>11. run'[Root].ideal = Outcome(o, files', input) /\ files' \in [Paths -> FileTexts]
  BY <1>2 DEF SetsUp
<1> HIDE DEF o, input
<1>12. Outcome(o, files', input) = FromParse(o, files', input, <<>>, <<>>)
  BY <1>9, <1>11, OutcomeForwards
<1>13. run'[Root].ideal = FromParse(Test(Root)'.options, files', Stdin', Data(Root, "out")', Data(Root, "err")')
  BY <1>5, <1>6, <1>10, <1>11, <1>12 DEF o
<1> QED
  BY <1>4, <1>13 DEF OutcomeOk, Waiting

\* What the child comes to depends on its stdin only while it lives
LEMMA SameEnding ==
  ASSUME OutcomeOk, NEW c \in Pids, run[Root].kid = c, run'[Root].kid = c,
         run[Root].at \in Waiting, run'[Root].at \in Waiting, run'[Root].ideal = run[Root].ideal,
         run'[c] = run[c], Test(Root)' = Test(Root), UNCHANGED <<life, files, job>>,
         Data(Root, "out")' = Data(Root, "out"), Data(Root, "err")' = Data(Root, "err"),
         life[c] = "alive" => Stdin' = Stdin
  PROVE  OutcomeOk'
<1>1. run[Root].ideal = Ending(c)
  BY DEF OutcomeOk
<1>2. Ending(c)' = Ending(c)
  BY DEF Ending, Comes
<1>3. \A d \in Pids : run'[Root].kid = d => d = c
  OBVIOUS
<1> HIDE DEF Ending
<1> QED
  BY <1>1, <1>2, <1>3 DEF OutcomeOk, Waiting

\* No child, nothing to come
LEMMA NoEnding ==
  ASSUME run[Root].at \in Waiting \union {"out", "err", "judge"}, run[Root].kid = NoPid
  PROVE  OutcomeOk
BY HarnessAssumption DEF OutcomeOk, Waiting

\* The fork
LEMMA OutcomeFork ==
  ASSUME IInv, OutcomeOk, IsFork(Root), UNCHANGED suite
  PROVE  OutcomeOk'
<1>1. Typed /\ Root \in Pids /\ run[Root].at = "fork" /\ UNCHANGED files
  BY ProcessesAssumption DEF IInv, Root, IsFork
<1>2. PICK c \in Pids : Forks(Root, c)
  BY DEF IsFork
<1>3. run'[Root] = [run[Root] EXCEPT !.at = "send", !.kid = c] /\ run'[c] = [run[Root] EXCEPT !.at = "child"]
      /\ life'[c] = "alive" /\ run[Root] \in RunType
  BY <1>1, <1>2 DEF Forks, Typed
<1>4. run'[Root].at = "send" /\ run'[Root].kid = c /\ run'[Root].test = run[Root].test
      /\ run'[Root].ideal = run[Root].ideal /\ run'[c].at = "child"
  BY <1>3 DEF RunType
<1>5. Test(Root)' = Test(Root) /\ \A end : Pipe(Root, end)' = Pipe(Root, end)
  BY <1>4 DEF Test, Pipe
<1>6. /\ Pipe(Root, "in") \in PipeIds /\ Pipe(Root, "out") \in PipeIds /\ Pipe(Root, "err") \in PipeIds
  BY <1>1, RootTest
<1>7. \A i \in PipeIds : pipes'[i].data = pipes[i].data
  BY <1>2 DEF Forks
<1>8. /\ Data(Root, "in")' = Data(Root, "in") /\ Data(Root, "out")' = Data(Root, "out")
      /\ Data(Root, "err")' = Data(Root, "err")
  BY <1>5, <1>6, <1>7 DEF Data
<1>9. Unsent' = Unsent
  BY <1>1, <1>4, <1>5 DEF Unsent
<1>10. Stdin' = Stdin
  BY <1>5, <1>8, <1>9 DEF Stdin
<1>11. run[Root].ideal = FromParse(Test(Root).options, files, Stdin, Data(Root, "out"), Data(Root, "err"))
  BY <1>1 DEF OutcomeOk
<1>12. Ending(c)' = FromParse(Test(Root)'.options, files', Stdin', Data(Root, "out")', Data(Root, "err")')
  BY <1>3, <1>4 DEF Ending
<1>13. run'[Root].ideal = Ending(c)'
  BY <1>1, <1>4, <1>5, <1>8, <1>10, <1>11, <1>12
<1>14. \A d \in Pids : run'[Root].kid = d => d = c
  BY <1>4
<1> HIDE DEF Ending
<1> QED
  BY <1>4, <1>13, <1>14 DEF OutcomeOk, Waiting

\* What is sent of the input stays with what is left of it
LEMMA StdinPasses ==
  ASSUME IInv, run[Root].at = "write", NEW part \in Text, Passes(Root, part), UNCHANGED suite,
         run'[Root] \in RunType, run'[Root].test = run[Root].test,
         run'[Root].at = IF run'[Root].left = <<>> THEN "shut" ELSE "write"
  PROVE  Stdin' = Stdin
<1>1. Test(Root)' = Test(Root) /\ Pipe(Root, "in")' = Pipe(Root, "in")
  BY DEF Test, Pipe
<1>2. Data(Root, "in") \in Text
  BY RootTest
<1>3. Data(Root, "in")' = Data(Root, "in") \o part
  BY <1>1 DEF Passes, Data
<1>4. Unsent = run[Root].left /\ Unsent' = run'[Root].left
  BY DEF Unsent
<1>5. run'[Root].left \in Text /\ run[Root].left = part \o run'[Root].left
  BY DEF RunType, Passes
<1>6. (Data(Root, "in") \o part) \o run'[Root].left = Data(Root, "in") \o (part \o run'[Root].left)
  BY <1>2, <1>5, ThreeTexts
<1> QED
  BY <1>1, <1>3, <1>4, <1>5, <1>6 DEF Stdin

\* The writing of the input
LEMMA OutcomeWrite ==
  ASSUME IInv, OutcomeOk, IsWrite(Root), UNCHANGED suite, Clean(Root), Clean(Root)', run[Root].kid # NoPid
  PROVE  OutcomeOk'
<1>1. Typed /\ Root \in Pids /\ run[Root].at = "write"
  BY ProcessesAssumption DEF IInv, Root, IsWrite
<1>2. /\ run'[Root].at \in {"write", "shut"} /\ run'[Root].test = run[Root].test
      /\ run'[Root].kid = run[Root].kid
  BY <1>1, WritesClean DEF Clean
<1>3. WritesInput(Root) /\ UNCHANGED <<life, files, job>> /\ run' \in [Pids -> RunType]
  BY DEF IsWrite, Settled, WritesInput, Moves, Concludes
<1>4. Test(Root)' = Test(Root) /\ \A end : Pipe(Root, end)' = Pipe(Root, end)
  BY <1>2 DEF Test, Pipe
<1>5. /\ Pipe(Root, "in") \in PipeIds /\ Pipe(Root, "out") \in PipeIds /\ Pipe(Root, "err") \in PipeIds
      /\ Pipe(Root, "in") # Pipe(Root, "out") /\ Pipe(Root, "in") # Pipe(Root, "err")
      /\ run[Root] \in RunType
  BY <1>1, RootTest
<1>6. Data(Root, "out")' = Data(Root, "out") /\ Data(Root, "err")' = Data(Root, "err")
  BY <1>3, <1>4, <1>5 DEF WritesInput, Data
<1>7. run[Root].kid \in Pids /\ run[Root].kid # Root
  <2>1. run[Root].kid \in Pids
    BY <1>5 DEF RunType
  <2>2. run[Root].at \in Waiting
    BY <1>1 DEF Waiting
  <2> QED
    BY <1>1, <2>1, <2>2, KidFacts DEF IInv
<1>8. PICK c \in Pids : run[Root].kid = c /\ c # Root
  BY <1>7
<1>9. run'[c] = run[c] /\ run'[Root].ideal = run[Root].ideal
  BY <1>2, <1>3, <1>8 DEF WritesInput, Moves, Keeps, Concludes
<1>10. life[c] = "alive" => Stdin' = Stdin
  <2>1. SUFFICES ASSUME life[c] = "alive" PROVE Stdin' = Stdin
    OBVIOUS
  <2>2. KidOk(Root, c)
    BY <1>1, <1>8 DEF IInv, KidInv, Waiting
  <2>3. Test(Root).input # Nothing
    BY <1>1 DEF IInv, WriteInv, WriteOk, Clean
  <2>4. pipes[Pipe(Root, "in")].readers # {}
    BY <2>1, <2>2, <2>3 DEF KidOk
  <2>5. CASE run[Root].left = <<>> /\ Moves(Root, "shut") /\ Keeps(Root) /\ UNCHANGED pipes
    <3>1. Unsent = <<>> /\ Unsent' = <<>>
      BY <1>1, <2>5 DEF Unsent, Moves
    <3>2. Data(Root, "in")' = Data(Root, "in")
      BY <1>4, <2>5 DEF Data
    <3> QED
      BY <1>4, <3>1, <3>2 DEF Stdin
  <2>6. CASE /\ Moves(Root, IF run'[Root].left = <<>> THEN "shut" ELSE "write")
             /\ \E part \in Text : Passes(Root, part)
    <3>1. PICK part \in Text : Passes(Root, part)
      BY <2>6
    <3>2. run'[Root].at = IF run'[Root].left = <<>> THEN "shut" ELSE "write"
      BY <2>6 DEF Moves
    <3>3. run'[Root] \in RunType
      BY <1>1, <1>3
    <3> QED
      BY <1>1, <1>2, <3>1, <3>2, <3>3, StdinPasses
  <2> QED
    BY <1>3, <2>4, <2>5, <2>6 DEF WritesInput
<1>11. run[Root].at \in Waiting /\ run'[Root].at \in Waiting
  BY <1>1, <1>2 DEF Waiting
<1> QED
  BY <1>2, <1>3, <1>4, <1>6, <1>8, <1>9, <1>10, <1>11, SameEnding

\* The child that the first process waits for
LEMMA RootKid ==
  ASSUME IInv, Clean(Root), run[Root].at \in Waiting, run[Root].kid # NoPid
  PROVE  \E c \in Pids : run[Root].kid = c /\ c # Root
<1>1. Typed /\ Root \in Pids
  BY ProcessesAssumption DEF IInv, Root
<1>2. run[Root].kid \in Pids
  BY <1>1 DEF Typed, RunType
<1> QED
  BY <1>1, <1>2, KidFacts DEF IInv

\* No child was forked for the test, and none is
LEMMA OutcomeNoKid ==
  ASSUME run'[Root].at \in Waiting \union {"out", "err", "judge"}, run'[Root].kid = NoPid
  PROVE  OutcomeOk'
BY HarnessAssumption DEF OutcomeOk, Waiting

\* Where the first process goes on to wait, of the pipes only ends are closed
LEMMA OutcomeCloses ==
  ASSUME IInv, OutcomeOk, Clean(Root), UNCHANGED <<suite, life, files, job>>,
         run[Root].at \in Waiting, run'[Root].at \in Waiting, run[Root].kid # NoPid,
         run'[Root].kid = run[Root].kid, run'[Root].test = run[Root].test,
         run'[Root].ideal = run[Root].ideal, \A q \in Pids : q # Root => run'[q] = run[q],
         \A i \in PipeIds : pipes'[i].data = pipes[i].data,
         Test(Root).input # Nothing => Unsent' = Unsent
  PROVE  OutcomeOk'
<1>1. PICK c \in Pids : run[Root].kid = c /\ c # Root
  BY RootKid
<1>2. /\ Pipe(Root, "in") \in PipeIds /\ Pipe(Root, "out") \in PipeIds /\ Pipe(Root, "err") \in PipeIds
  BY RootTest DEF Waiting
<1>3. Test(Root)' = Test(Root) /\ \A end : Pipe(Root, end)' = Pipe(Root, end)
  BY DEF Test, Pipe
<1>4. /\ Data(Root, "in")' = Data(Root, "in") /\ Data(Root, "out")' = Data(Root, "out")
      /\ Data(Root, "err")' = Data(Root, "err")
  BY <1>2, <1>3 DEF Data
<1>5. Stdin' = Stdin
  BY <1>3, <1>4 DEF Stdin
<1>6. run'[c] = run[c] /\ run'[Root].kid = c
  BY <1>1
<1> QED
  BY <1>1, <1>3, <1>4, <1>5, <1>6, SameEnding

\* The parent's side of the pipe of the input
LEMMA OutcomeSend ==
  ASSUME IInv, OutcomeOk, IsSend(Root), UNCHANGED suite, Clean(Root), run[Root].kid # NoPid
  PROVE  OutcomeOk'
<1>1. run[Root].at = "send" /\ UNCHANGED <<life, files, job>>
  BY DEF IsSend, Settled
<1>2. CASE Test(Root).input = Nothing /\ Moves(Root, "shut") /\ Keeps(Root) /\ UNCHANGED pipes
  <2>1. /\ run'[Root].at = "shut" /\ run'[Root].kid = run[Root].kid /\ run'[Root].test = run[Root].test
        /\ run'[Root].ideal = run[Root].ideal /\ \A q \in Pids : q # Root => run'[q] = run[q]
    BY <1>2 DEF Moves, Keeps
  <2>2. \A i \in PipeIds : pipes'[i].data = pipes[i].data
    BY <1>2
  <2>3. Test(Root).input # Nothing => Unsent' = Unsent
    BY <1>2
  <2>4. run[Root].at \in Waiting /\ run'[Root].at \in Waiting
    BY <1>1, <2>1 DEF Waiting
  <2> QED
    BY <1>1, <2>1, <2>2, <2>3, <2>4, OutcomeCloses
<1>3. CASE /\ Test(Root).input # Nothing /\ Moves(Root, "write") /\ run'[Root].left = Test(Root).input
           /\ run'[Root].kid = run[Root].kid /\ run'[Root].ideal = run[Root].ideal
           /\ Closes(Root, {Pipe(Root, "in")}, {})
  <2>1. /\ run'[Root].at = "write" /\ run'[Root].test = run[Root].test
        /\ \A q \in Pids : q # Root => run'[q] = run[q]
    BY <1>3 DEF Moves
  <2>2. \A i \in PipeIds : pipes'[i].data = pipes[i].data
    BY <1>3 DEF Closes
  <2>3. Unsent' = Unsent
    BY <1>1, <1>3, <2>1 DEF Unsent
  <2>4. run[Root].at \in Waiting /\ run'[Root].at \in Waiting
    BY <1>1, <2>1 DEF Waiting
  <2> QED
    BY <1>1, <1>3, <2>1, <2>2, <2>3, <2>4, OutcomeCloses
<1> QED
  BY <1>2, <1>3 DEF IsSend, Sends

\* The closing of the ends that are the child's
LEMMA OutcomeShut ==
  ASSUME IInv, OutcomeOk, IsShut(Root), UNCHANGED suite, Clean(Root), run[Root].kid # NoPid
  PROVE  OutcomeOk'
<1>1. run[Root].at = "shut" /\ UNCHANGED <<life, files, job>>
  BY DEF IsShut, Settled
<1>2. /\ run'[Root].at = "wait" /\ run'[Root].kid = run[Root].kid /\ run'[Root].test = run[Root].test
      /\ run'[Root].ideal = run[Root].ideal /\ \A q \in Pids : q # Root => run'[q] = run[q]
  BY DEF IsShut, Moves, Keeps
<1>3. \A i \in PipeIds : pipes'[i].data = pipes[i].data
  BY DEF IsShut, Closes
<1>4. Unsent' = Unsent
  BY <1>1, <1>2 DEF Unsent
<1>5. run[Root].at \in Waiting /\ run'[Root].at \in Waiting
  BY <1>1, <1>2 DEF Waiting
<1> QED
  BY <1>1, <1>2, <1>3, <1>4, <1>5, OutcomeCloses

\* The wait for the child, which has come to its end
LEMMA OutcomeWait ==
  ASSUME IInv, OutcomeOk, IsWait(Root), UNCHANGED suite, Clean(Root), run[Root].kid # NoPid
  PROVE  OutcomeOk'
<1>1. Typed /\ Root \in Pids /\ ChildrenInv /\ RunnerInv(Root) /\ run[Root].at = "wait"
  BY ProcessesAssumption DEF IInv, Root, RunInv, IsWait
<1>2. Moves(Root, "out") /\ KeepsBut(Root) /\ Reaps(Root, run[Root].kid)
      /\ run'[Root].status = life[run[Root].kid] /\ UNCHANGED <<pipes, files>>
  BY <1>1, WaitsForKid DEF IsWait
<1>3. PICK c \in Pids : run[Root].kid = c
  BY <1>1, RootKid DEF Waiting
<1>4. life[c] \in {"exited", "killed"}
  BY <1>2, <1>3 DEF Reaps, Zombies
<1>5. run[Root].ideal = Ending(c)
  BY <1>1, <1>3 DEF OutcomeOk, Waiting
<1>6. Ending(c) = Result(life[c], Data(Root, "out"), Data(Root, "err"), files)
  BY <1>4 DEF Ending, Comes
<1>7. /\ run'[Root].at = "out" /\ run'[Root].test = run[Root].test /\ run'[Root].ideal = run[Root].ideal
      /\ run'[Root].out = <<>> /\ run'[Root].err = <<>> /\ run'[Root].status = life[c]
  BY <1>1, <1>2, <1>3 DEF Moves, KeepsBut, RunnerInv
<1>8. Data(Root, "out")' = Data(Root, "out") /\ Data(Root, "err")' = Data(Root, "err")
  BY <1>2, <1>7 DEF Data, Pipe
<1>9. Data(Root, "out") \in Text /\ Data(Root, "err") \in Text
  BY <1>1, RootTest
<1>10. <<>> \o Data(Root, "out") = Data(Root, "out") /\ <<>> \o Data(Root, "err") = Data(Root, "err")
  BY <1>9, LenText
<1>11. run'[Root].ideal = Result(run'[Root].status, run'[Root].out \o Data(Root, "out")',
                                 run'[Root].err \o Data(Root, "err")', files')
  BY <1>2, <1>5, <1>6, <1>7, <1>8, <1>10
<1> QED
  BY <1>7, <1>11 DEF OutcomeOk, Waiting

\* The reading of what the child printed
LEMMA OutcomeReadOut ==
  ASSUME IInv, OutcomeOk, IsReadOut(Root), UNCHANGED suite, run[Root].kid # NoPid
  PROVE  OutcomeOk'
<1> DEFINE out == Pipe(Root, "out")
           err == Pipe(Root, "err")
<1>1. Typed /\ Root \in Pids /\ run[Root].at = "out" /\ UNCHANGED files /\ ReadsOut(Root)
  BY ProcessesAssumption DEF IInv, Root, IsReadOut
<1>2. /\ out \in PipeIds /\ err \in PipeIds /\ out # err /\ run[Root] \in RunType
      /\ pipes[out].data \in Text /\ pipes[err].data \in Text
  BY <1>1, RootTest DEF Data
<1>3. run[Root].ideal = Result(run[Root].status, run[Root].out \o pipes[out].data,
                               run[Root].err \o pipes[err].data, files)
  BY <1>1 DEF OutcomeOk, Data
<1>4. run[Root].out \in Text /\ run[Root].err \in Text
  BY <1>2 DEF RunType
<1>5. run'[Root].test = run[Root].test => out' = out /\ err' = err
  BY DEF Pipe
<1>6. Data(Root, "out")' = pipes'[out'].data /\ Data(Root, "err")' = pipes'[err'].data
  BY DEF Data
<1> HIDE DEF out, err
<1>7. CASE /\ Moves(Root, "out") /\ Drains(out)
           /\ run'[Root].out = run[Root].out \o pipes[out].data
           /\ run'[Root].kid = run[Root].kid /\ run'[Root].err = run[Root].err
           /\ run'[Root].status = run[Root].status /\ run'[Root].ideal = run[Root].ideal
  <2>1. run'[Root].at = "out" /\ run'[Root].test = run[Root].test
    BY <1>7 DEF Moves
  <2>2. Data(Root, "out")' = <<>> /\ Data(Root, "err")' = pipes[err].data
    BY <1>2, <1>5, <1>6, <1>7, <2>1 DEF Drains
  <2>3. run'[Root].out \in Text
    BY <1>2, <1>4, <1>7, ConcatText
  <2>4. run'[Root].out \o <<>> = run'[Root].out
    BY <2>3, LenText
  <2>5. run'[Root].ideal = Result(run'[Root].status, run'[Root].out \o Data(Root, "out")',
                                  run'[Root].err \o Data(Root, "err")', files')
    BY <1>1, <1>3, <1>7, <2>2, <2>4
  <2> QED
    BY <2>1, <2>5 DEF OutcomeOk, Waiting
<1>8. CASE /\ AtEof(out) /\ Closes(Root, {out}, {}) /\ Moves(Root, "err") /\ Keeps(Root)
  <2>1. /\ run'[Root].at = "err" /\ run'[Root].test = run[Root].test /\ run'[Root].out = run[Root].out
        /\ run'[Root].err = run[Root].err /\ run'[Root].status = run[Root].status
        /\ run'[Root].ideal = run[Root].ideal
    BY <1>8 DEF Moves, Keeps
  <2>2. pipes[out].data = <<>>
    BY <1>8 DEF AtEof
  <2>3. Data(Root, "err")' = pipes[err].data
    BY <1>2, <1>5, <1>6, <1>8, <2>1 DEF Closes
  <2>4. run[Root].out \o pipes[out].data = run[Root].out
    BY <1>4, <2>2, LenText
  <2>5. run'[Root].ideal = Result(run'[Root].status, run'[Root].out,
                                  run'[Root].err \o Data(Root, "err")', files')
    BY <1>1, <1>3, <2>1, <2>3, <2>4
  <2> QED
    BY <2>1, <2>5 DEF OutcomeOk, Waiting
<1> QED
  BY <1>1, <1>7, <1>8 DEF ReadsOut, out

\* The reading of what the child reported
LEMMA OutcomeReadErr ==
  ASSUME IInv, OutcomeOk, IsReadErr(Root), UNCHANGED suite, run[Root].kid # NoPid
  PROVE  OutcomeOk'
<1> DEFINE err == Pipe(Root, "err")
<1>1. Typed /\ Root \in Pids /\ run[Root].at = "err" /\ UNCHANGED files /\ ReadsErr(Root)
  BY ProcessesAssumption DEF IInv, Root, IsReadErr
<1>2. err \in PipeIds /\ run[Root] \in RunType /\ pipes[err].data \in Text
  BY <1>1, RootTest DEF Data
<1>3. run[Root].ideal = Result(run[Root].status, run[Root].out, run[Root].err \o pipes[err].data, files)
  BY <1>1 DEF OutcomeOk, Data
<1>4. run[Root].err \in Text
  BY <1>2 DEF RunType
<1>5. run'[Root].test = run[Root].test => err' = err
  BY DEF Pipe
<1>6. Data(Root, "err")' = pipes'[err'].data
  BY DEF Data
<1> HIDE DEF err
<1>7. CASE /\ Moves(Root, "err") /\ Drains(err)
           /\ run'[Root].err = run[Root].err \o pipes[err].data
           /\ run'[Root].kid = run[Root].kid /\ run'[Root].out = run[Root].out
           /\ run'[Root].status = run[Root].status /\ run'[Root].ideal = run[Root].ideal
  <2>1. run'[Root].at = "err" /\ run'[Root].test = run[Root].test
    BY <1>7 DEF Moves
  <2>2. Data(Root, "err")' = <<>>
    BY <1>2, <1>5, <1>6, <1>7, <2>1 DEF Drains
  <2>3. run'[Root].err \in Text
    BY <1>2, <1>4, <1>7, ConcatText
  <2>4. run'[Root].err \o <<>> = run'[Root].err
    BY <2>3, LenText
  <2>5. run'[Root].ideal = Result(run'[Root].status, run'[Root].out,
                                  run'[Root].err \o Data(Root, "err")', files')
    BY <1>1, <1>3, <1>7, <2>2, <2>4
  <2> QED
    BY <2>1, <2>5 DEF OutcomeOk, Waiting
<1>8. CASE /\ AtEof(err) /\ Moves(Root, "judge") /\ Keeps(Root)
  <2>1. /\ run'[Root].at = "judge" /\ run'[Root].out = run[Root].out
        /\ run'[Root].err = run[Root].err /\ run'[Root].status = run[Root].status
        /\ run'[Root].ideal = run[Root].ideal
    BY <1>8 DEF Moves, Keeps
  <2>2. pipes[err].data = <<>>
    BY <1>8 DEF AtEof
  <2>3. run[Root].err \o pipes[err].data = run[Root].err
    BY <1>4, <2>2, LenText
  <2>4. run'[Root].ideal = Result(run'[Root].status, run'[Root].out, run'[Root].err, files')
    BY <1>1, <1>3, <2>1, <2>3
  <2> QED
    BY <2>1, <2>4 DEF OutcomeOk, Waiting
<1> QED
  BY <1>1, <1>7, <1>8 DEF ReadsErr, err

\* The steps of the first process in a test for which no child was forked
LEMMA OutcomeUnforked ==
  ASSUME IInv, RunnerStep(Root), Clean(Root), Clean(Root)', run[Root].kid = NoPid,
         run[Root].at \in Waiting \union {"out", "err"}
  PROVE  OutcomeOk'
<1>1. Typed /\ Root \in Pids /\ ChildrenInv
  BY ProcessesAssumption DEF IInv, Root
<1>2. /\ run'[Root].at \in Waiting \union {"out", "err", "judge"}
      /\ run'[Root].kid = NoPid
  <2>1. CASE IsSend(Root)
    BY <2>1 DEF IsSend, Sends, Moves, Keeps, Waiting
  <2>2. CASE IsWrite(Root)
    BY <1>1, <2>2, WritesClean DEF Clean, Waiting
  <2>3. CASE IsShut(Root)
    BY <2>3 DEF IsShut, Moves, Keeps, Waiting
  <2>4. CASE IsWait(Root)
    BY <1>1, <2>4, WaitsForKid DEF Moves, KeepsBut
  <2>5. CASE IsReadOut(Root)
    BY <2>5 DEF IsReadOut, ReadsOut, Moves, Keeps
  <2>6. CASE IsReadErr(Root)
    BY <2>6 DEF IsReadErr, ReadsErr, Moves, Keeps
  <2> QED
    BY <2>1, <2>2, <2>3, <2>4, <2>5, <2>6 DEF RunnerStep, IsSkip, IsSetUp, IsFork, IsForkFails, IsExec,
      IsJudge, IsFlushTap, IsReturn, Waiting
<1> QED
  BY <1>2, OutcomeNoKid

\* The first process's own steps
LEMMA OutcomeSelf ==
  ASSUME CompileAnswers, IInv, OutcomeOk, RunnerStep(Root), Clean(Root), Clean(Root)'
  PROVE  OutcomeOk'
<1>1. UNCHANGED suite
  BY DEF RunnerStep
<1>2. CASE IsSkip(Root) \/ IsJudge(Root) \/ IsFlushTap(Root) \/ IsReturn(Root)
  <2>1. run'[Root].at \in {"loop", "return"}
    BY <1>2 DEF IsSkip, IsJudge, IsFlushTap, IsReturn, Concludes, Moves
  <2> QED
    BY <2>1 DEF OutcomeOk, Waiting
<1>3. CASE IsSetUp(Root)
  BY <1>1, <1>3, OutcomeSetUp
<1>4. CASE IsFork(Root)
  BY <1>1, <1>4, OutcomeFork
<1>5. CASE IsForkFails(Root)
  <2>1. run[Root].kid = NoPid
    BY <1>5, ProcessesAssumption DEF IInv, RunInv, RunnerInv, IsForkFails, Early, Root
  <2>2. run'[Root].at = "send" /\ run'[Root].kid = NoPid
    BY <1>5, <2>1 DEF IsForkFails, Moves, Keeps
  <2> QED
    BY <2>2, OutcomeNoKid DEF Waiting
<1>6. CASE run[Root].at \in Waiting \union {"out", "err"} /\ run[Root].kid = NoPid
  BY <1>6, OutcomeUnforked
<1>7. CASE IsSend(Root) /\ run[Root].kid # NoPid
  BY <1>1, <1>7, OutcomeSend
<1>8. CASE IsWrite(Root) /\ run[Root].kid # NoPid
  BY <1>1, <1>8, OutcomeWrite
<1>9. CASE IsShut(Root) /\ run[Root].kid # NoPid
  BY <1>1, <1>9, OutcomeShut
<1>10. CASE IsWait(Root) /\ run[Root].kid # NoPid
  BY <1>1, <1>10, OutcomeWait
<1>11. CASE IsReadOut(Root) /\ run[Root].kid # NoPid
  BY <1>1, <1>11, OutcomeReadOut
<1>12. CASE IsReadErr(Root) /\ run[Root].kid # NoPid
  BY <1>1, <1>12, OutcomeReadErr
<1>13. ~ IsExec(Root)
  BY DEF IsExec
<1>14. \/ IsSend(Root) \/ IsWrite(Root) \/ IsShut(Root) \/ IsWait(Root) \/ IsReadOut(Root) \/ IsReadErr(Root)
       => run[Root].at \in Waiting \union {"out", "err"}
  BY DEF IsSend, IsWrite, IsShut, IsWait, IsReadOut, IsReadErr, Waiting
<1> QED
  BY <1>2, <1>3, <1>4, <1>5, <1>6, <1>7, <1>8, <1>9, <1>10, <1>11, <1>12, <1>13, <1>14 DEF RunnerStep

\* A runner's steps keep it
LEMMA OutcomeRunner ==
  ASSUME CompileAnswers, IInv, RunnersInv, OutcomeInv, NEW p \in Pids, RunnerStep(p)
  PROVE  OutcomeInv'
<1>1. Typed /\ Root \in Pids /\ life[Root] # "free" /\ onPath' = onPath
  BY ProcessesAssumption DEF IInv, Root, RootInv, RunnerStep
<1>2. SUFFICES ASSUME onPath, Clean(Root)' PROVE OutcomeOk'
  BY <1>1 DEF OutcomeInv
<1>3. Clean(Root)
  <2>1. ~ Forks(p, Root)
    BY <1>1 DEF Forks
  <2> QED
    BY <1>1, <1>2, <2>1, CleanBefore
<1>4. OutcomeOk
  BY <1>2, <1>3 DEF OutcomeInv
<1>5. CASE p = Root
  BY <1>2, <1>3, <1>4, <1>5, OutcomeSelf
<1>6. CASE p # Root
  BY <1>2, <1>3, <1>6, OutcomeExec
<1> QED
  BY <1>5, <1>6

-----------------------------------------------------------------------------
(* What has been written of the output.                                        *)

\* A step of vinumc keeps it of its own output
LEMMA PlaceStep ==
  ASSUME CompileAnswers, Typed, DestInv, NEW c \in Pids, Vinumc(c), JobOk(job[c]), PlaceOk(job[c], files)
  PROVE  PlaceOk(job'[c], files')
<1> DEFINE j == job[c]
<1>1. j \in JobType /\ job \in [Pids -> JobType] /\ files \in [Paths -> FileTexts]
  BY DEF Typed
<1>2. CASE ShowUsage(c)
  <2>1. j.at = "usage" /\ j.dest = Terminal /\ UNCHANGED files
    BY <1>2 DEF ShowUsage, At, JobOk, kernel
  <2>2. job'[c].dest = j.dest /\ (job'[c].at # "flush" => job'[c].wrote = j.wrote)
    <3>1. CASE Goto(c, "open")
      <4>1. job'[c] = [j EXCEPT !.at = "open"]
        BY <1>1, <3>1, GotoJob DEF JobStages
      <4> QED
        BY <1>1, <4>1 DEF JobType
    <3>2. CASE job' = [job EXCEPT ![c].at = "flush", ![c].out = <<j.options.usage>>]
      BY <1>1, <3>2 DEF JobType
    <3> QED
      BY <1>2, <3>1, <3>2 DEF ShowUsage
  <2> QED
    BY <2>1, <2>2, NotTerminal DEF PlaceOk
<1>3. CASE OpenOutput(c)
  <2> DEFINE path == j.options.output
             dest == IF path = Nothing THEN Terminal
                     ELSE IF files[path] = Directory THEN Nothing ELSE path
  <2>1. j.at = "open" /\ job' = [job EXCEPT ![c] = [j EXCEPT !.at = "read", !.dest = dest]]
    BY <1>3 DEF OpenOutput, At
  <2>2. dest \in Paths => dest = path /\ files' = [files EXCEPT ![path] = <<>>]
    BY <1>3, NotTerminal DEF OpenOutput
  <2> HIDE DEF dest
  <2>3. job'[c].dest = dest /\ job'[c].at = "read" /\ job'[c].wrote = j.wrote /\ j.wrote = 0
    BY <1>1, <2>1 DEF JobType, PlaceOk
  <2>4. dest \in Paths => files'[dest] = <<>>
    BY <1>1, <2>2
  <2> QED
    BY <2>3, <2>4, EmptyText DEF PlaceOk
<1>4. CASE Emit(c)
  <2>1. CASE Die(c)
    BY <2>1 DEF Die, End
  <2>2. CASE Goto(c, "flush") /\ UNCHANGED kernel
    <3>1. job'[c] = [j EXCEPT !.at = "flush"] /\ UNCHANGED files
      BY <2>2, GotoJob DEF JobStages, kernel
    <3>2. j.at = "report" /\ j.out = Compile(j.program, j.cocktail).out /\ j.wrote = 0
      BY <1>4 DEF Emit, At, JobOk, PlaceOk
    <3>3. ASSUME j.dest \in Paths
          PROVE  files[j.dest] \o j.out = j.out
      <4>1. files[j.dest] \in Text /\ Len(files[j.dest]) = 0
        BY <3>2, <3>3 DEF DestInv, PlaceOk
      <4> QED
        BY <1>1, <4>1, LenText DEF JobType
    <3>4. /\ job'[c].at = "flush" /\ job'[c].dest = j.dest /\ job'[c].wrote = j.wrote /\ job'[c].out = j.out
          /\ job'[c].program = j.program /\ job'[c].cocktail = j.cocktail
      BY <1>1, <3>1 DEF JobType
    <3> QED
      BY <3>1, <3>2, <3>3, <3>4 DEF PlaceOk
  <2> QED
    BY <1>4, <2>1, <2>2 DEF Emit
<1>5. CASE Flush(c) /\ j.dest \in Paths
  <2> DEFINE dest == j.dest
             more == Append(files[dest], Head(j.out))
  <2>1. /\ files' = [files EXCEPT ![dest] = more]
        /\ job'[c].at = "flush" /\ job'[c].out = Tail(j.out) /\ job'[c].dest = dest
        /\ job'[c].wrote = j.wrote + 1 /\ job'[c].program = j.program /\ job'[c].cocktail = j.cocktail
    BY <1>5, FlushFileStep
  <2>2. j.at = "flush" /\ j.out \in Text /\ j.out # <<>> /\ files[dest] \in Text
    BY <1>1, <1>5 DEF Flush, At, JobType, DestInv
  <2>3. more \o Tail(j.out) = files[dest] \o j.out
    BY <2>2, ChunkOut
  <2>4. Len(more) = Len(files[dest]) + 1
    BY <2>2, HeadTailText, AppendText
  <2>5. files[dest] \o j.out = Compile(j.program, j.cocktail).out /\ j.wrote = Len(files[dest])
    BY <1>5, <2>2 DEF PlaceOk
  <2> HIDE DEF more
  <2>6. files'[dest] = more
    BY <1>1, <1>5, <2>1
  <2> QED
    BY <2>1, <2>3, <2>4, <2>5, <2>6 DEF PlaceOk
<1>6. CASE Flush(c) /\ j.dest \notin Paths
  <2>1. j.at = "flush" /\ job'[c] = [j EXCEPT !.out = Tail(j.out), !.wrote = j.wrote + 1]
    BY <1>1, <1>6 DEF Flush, At
  <2>2. job'[c].dest = j.dest /\ job'[c].at = "flush"
    BY <1>1, <2>1 DEF JobType
  <2> QED
    BY <1>6, <2>2 DEF PlaceOk
<1>7. ASSUME UNCHANGED files, j.at # "flush", job'[c].at # "flush", job'[c].dest = j.dest,
             job'[c].wrote = j.wrote
      PROVE  PlaceOk(job'[c], files')
  BY <1>7 DEF PlaceOk
<1>8. ASSUME UNCHANGED files, UNCHANGED job
      PROVE  PlaceOk(job'[c], files')
  BY <1>8
<1>9. CASE ParseCmdline(c)
  <2>1. CASE Goto(c, "usage") /\ UNCHANGED kernel
    <3>1. job'[c] = [j EXCEPT !.at = "usage"] /\ j.at = "parse"
      BY <1>9, <2>1, GotoJob DEF JobStages, ParseCmdline, At
    <3>2. job'[c].at = "usage" /\ job'[c].dest = j.dest /\ job'[c].wrote = j.wrote
      BY <1>1, <3>1 DEF JobType
    <3> QED
      BY <2>1, <3>1, <3>2, <1>7 DEF kernel
  <2> QED
    BY <1>8, <1>9, <2>1 DEF ParseCmdline, Die, End
<1>10. CASE ReadInputFile(c)
  <2>1. CASE job' = [job EXCEPT ![c].at = "effects", ![c].program = ReadAll(files[j.options.input])]
             /\ UNCHANGED kernel
    <3>1. job'[c].at = "effects" /\ job'[c].dest = j.dest /\ job'[c].wrote = j.wrote /\ j.at = "read"
      BY <1>1, <1>10, <2>1 DEF JobType, ReadInputFile, At
    <3> QED
      BY <2>1, <3>1, <1>7 DEF kernel
  <2> QED
    BY <1>8, <1>10, <2>1 DEF ReadInputFile, Die, End
<1>11. CASE ReadStdin(c)
  <2>1. j.at = "read" /\ UNCHANGED files
    BY <1>11 DEF ReadStdin, At, kernel
  <2>2. CASE Goto(c, "effects")
    <3>1. job'[c] = [j EXCEPT !.at = "effects"]
      BY <2>2, GotoJob DEF JobStages
    <3>2. job'[c].at = "effects" /\ job'[c].dest = j.dest /\ job'[c].wrote = j.wrote
      BY <1>1, <3>1 DEF JobType
    <3> QED
      BY <2>1, <3>2, <1>7
  <2>3. CASE job' = [job EXCEPT ![c].program = @ \o pipes[std[c].in].data]
    <3> DEFINE text == j.program \o pipes[std[c].in].data
    <3>1. job'[c] = [j EXCEPT !.program = text]
      BY <1>1, <2>3
    <3> HIDE DEF text
    <3>2. job'[c].at = "read" /\ job'[c].dest = j.dest /\ job'[c].wrote = j.wrote
      BY <1>1, <2>1, <3>1 DEF JobType
    <3> QED
      BY <2>1, <3>2, <1>7
  <2> QED
    BY <1>11, <2>2, <2>3 DEF ReadStdin
<1>12. CASE ReadEffects(c)
  <2> DEFINE text == Effects(files, j.options.effects)
  <2>1. j.at = "effects" /\ UNCHANGED files /\ job'[c] = [j EXCEPT !.at = "compile", !.cocktail = text]
    BY <1>1, <1>12 DEF ReadEffects, At, kernel
  <2> HIDE DEF text
  <2>2. job'[c].at = "compile" /\ job'[c].dest = j.dest /\ job'[c].wrote = j.wrote
    BY <1>1, <2>1 DEF JobType
  <2> QED
    BY <2>1, <2>2, <1>7
<1>13. CASE CompileProgram(c)
  <2> DEFINE answer == Compile(j.program, j.cocktail)
  <2>1. /\ j.at = "compile" /\ UNCHANGED files
        /\ job'[c] = [j EXCEPT !.at = "report", !.out = answer.out, !.err = answer.err,
                               !.dies = answer.dies]
    BY <1>1, <1>13 DEF CompileProgram, At, kernel
  <2> HIDE DEF answer
  <2>2. job'[c].at = "report" /\ job'[c].dest = j.dest /\ job'[c].wrote = j.wrote
    BY <1>1, <2>1 DEF JobType
  <2> QED
    BY <2>1, <2>2, <1>7
<1>14. CASE Report(c)
  <2>1. j.at = "report" /\ UNCHANGED files /\ job'[c] = [j EXCEPT !.err = Tail(j.err)]
    BY <1>1, <1>14 DEF Report, At
  <2>2. job'[c].at = "report" /\ job'[c].dest = j.dest /\ job'[c].wrote = j.wrote
    BY <1>1, <2>1 DEF JobType
  <2> QED
    BY <2>1, <2>2, <1>7
<1>15. CASE Exit(c)
  BY <1>8, <1>15 DEF Exit, End
<1> QED
  BY <1>2, <1>3, <1>4, <1>5, <1>6, <1>9, <1>10, <1>11, <1>12, <1>13, <1>14, <1>15 DEF Vinumc

\* It holds at the start
LEMMA PlacesInit ==
  ASSUME Init PROVE PlacesInv
<1>1. \A c \in Pids : c # Root => life[c] = "free"
  BY DEF Init
<1> QED
  BY <1>1 DEF PlacesInv

\* A vinumc's steps keep it
LEMMA PlacesVinumc ==
  ASSUME CompileAnswers, IInv, RunnersInv, PlacesInv, NEW c \in Pids, Vinumc(c), VinumcStep(c),
         UNCHANGED <<run, Suite>>
  PROVE  PlacesInv'
<1> SUFFICES ASSUME onPath, ~ CutBefore(Root), NEW d \in Pids, d # Root, life'[d] = "alive"
             PROVE  life'[Root] = "alive" /\ (job'[d].options # Nothing => PlaceOk(job'[d], files'))
  BY DEF PlacesInv, CutBefore, Suite
<1>1. Typed /\ DestInv /\ RunInv /\ RootInv /\ JobInv /\ Root \in Pids
  BY ProcessesAssumption DEF IInv, Root
<1>2. run[c].at = "none" /\ life[c] = "alive" /\ job[c].options # Nothing
  BY <1>1, FoundToRun DEF VinumcStep
<1>3. c # Root
  BY <1>1, <1>2 DEF RootInv
<1>4. life[d] = "alive"
  BY <1>2 DEF VinumcStep
<1>5. life[Root] = "alive" /\ PlaceOk(job[c], files)
  BY <1>2, <1>3 DEF PlacesInv
<1>6. Clean(Root)
  BY <1>1, <1>5 DEF Clean, RootInv
<1>7. run[Root].kid = c /\ run[Root].kid = d
  BY <1>2, <1>3, <1>4, <1>6, FoundKid
<1>8. PlaceOk(job'[c], files')
  BY <1>1, <1>2, <1>5, PlaceStep DEF JobInv
<1>9. life'[Root] = "alive"
  BY <1>1, <1>3, <1>5 DEF VinumcStep
<1> QED
  BY <1>7, <1>8, <1>9

\* A runner's steps keep it
LEMMA PlacesRunner ==
  ASSUME IInv, RunnersInv, PlacesInv, NEW p \in Pids, RunnerStep(p)
  PROVE  PlacesInv'
<1>1. Typed /\ RunInv /\ RootInv /\ Root \in Pids /\ onPath' = onPath
  BY ProcessesAssumption DEF IInv, Root, RunnerStep
<1> SUFFICES ASSUME onPath, ~ CutBefore(Root)', NEW d \in Pids, d # Root, life'[d] = "alive"
             PROVE  life'[Root] = "alive" /\ (job'[d].options # Nothing => PlaceOk(job'[d], files'))
  BY <1>1 DEF PlacesInv
<1>2. ASSUME life[d] = "alive", ~ CutBefore(Root)
      PROVE  /\ Clean(Root) /\ run[Root].at \in Waiting /\ run[Root].kid = d
             /\ job[d].options # Nothing => PlaceOk(job[d], files)
  <2>1. life[Root] = "alive" /\ (job[d].options # Nothing => PlaceOk(job[d], files))
    BY <1>2 DEF PlacesInv
  <2>2. Clean(Root)
    BY <1>1, <1>2, <2>1 DEF Clean, RootInv
  <2> QED
    BY <1>2, <2>1, <2>2, FoundKid
<1>3. CASE p = Root
  <2>1. /\ life[Root] = "alive" /\ run[Root].at # "child"
        /\ life'[Root] = IF run[Root].at = "return" THEN "exited" ELSE "alive"
    <3>1. life[p] = "alive" /\ life'[p] = IF run[p].at = "return" THEN "exited" ELSE "alive"
      BY <1>1, SelfStays
    <3> QED
      BY <1>1, <1>3, <3>1 DEF RootInv
  <2>2. CASE run[Root].at = "return"
    <3>1. IsReturn(Root)
      BY <1>3, <2>2 DEF RunnerStep, IsSkip, IsSetUp, IsFork, IsForkFails, IsExec, IsSend, IsWrite,
        IsShut, IsWait, IsReadOut, IsReadErr, IsJudge, IsFlushTap
    <3>2. life[d] = "alive" /\ ~ CutBefore(Root)
      BY <3>1 DEF IsReturn, CutBefore
    <3> QED
      BY <1>2, <2>2, <3>2 DEF Waiting
  <2>3. CASE run[Root].at # "return"
    <3>1. life'[Root] = "alive" /\ run'[Root].at # "none"
      <4>1. run'[p].at # "none"
        BY <1>1, <1>3, <2>1, StreamsStay
      <4> QED
        BY <1>3, <2>1, <2>3, <4>1
    <3>2. Clean(Root)
      <4>1. Clean(Root)'
        BY <3>1 DEF Clean
      <4> QED
        BY <1>1, <1>3, <4>1, CleanBefore
    <3>3. CASE life[d] = "alive"
      <4>1. run[Root].at \in Waiting /\ (job[d].options # Nothing => PlaceOk(job[d], files))
        BY <1>2, <3>2, <3>3 DEF Clean
      <4>2. UNCHANGED <<files, job>>
        BY <1>3, <4>1 DEF RunnerStep, IsSkip, IsSetUp, IsFork, IsForkFails, IsExec, IsSend, IsWrite,
          IsShut, IsWait, IsReadOut, IsReadErr, IsJudge, IsFlushTap, IsReturn, Waiting, Settled
      <4> QED
        BY <3>1, <4>1, <4>2
    <3>4. CASE life[d] # "alive"
      <4>1. Forks(Root, d) /\ UNCHANGED job
        BY <1>1, <1>3, <3>4, OthersStay
      <4>2. job'[d].options = Nothing
        BY <1>1, <4>1 DEF Forks, RunInv
      <4> QED
        BY <3>1, <4>2
    <3> QED
      BY <3>3, <3>4
  <2> QED
    BY <2>2, <2>3
<1>4. CASE p # Root
  <2>1. life[p] = "alive" /\ run[p].at = "child"
    BY <1>1, <1>4, SelfStays DEF RunnersInv, RunnersOk
  <2>2. IsExec(p)
    BY <2>1 DEF RunnerStep, IsSkip, IsSetUp, IsFork, IsForkFails, IsSend, IsWrite, IsShut, IsWait,
      IsReadOut, IsReadErr, IsJudge, IsFlushTap, IsReturn
  <2>3. /\ UNCHANGED <<life, files>> /\ run'[Root] = run[Root] /\ job'[p] = Job(Test(p).options)
    BY <1>1, <1>4, <2>2 DEF IsExec, Becomes
  <2>4. ~ CutBefore(Root)
    BY <2>3 DEF CutBefore
  <2>5. life[d] = "alive" /\ d = p /\ life[Root] = "alive"
    <3>1. life[d] = "alive" /\ Clean(Root) /\ run[Root].kid = d
      BY <1>2, <2>3, <2>4
    <3>2. run[Root].kid = p
      BY <1>4, <2>1, <3>1, FoundKid
    <3> QED
      BY <3>1, <3>2 DEF Clean
  <2>6. PlaceOk(job'[p], files')
    BY <2>3, NotTerminal DEF Job, PlaceOk
  <2> QED
    BY <2>3, <2>5, <2>6
<1> QED
  BY <1>3, <1>4

-----------------------------------------------------------------------------
(* The verdicts.                                                               *)

VerdictsOk(p) == \A k \in DOMAIN run[p].verdicts : VerdictOk(p, k)

\* The invariant, runner by runner
LEMMA VerdictsOf == VerdictsRight <=> \A p \in Pids : VerdictsOk(p)
BY DEF VerdictsRight, VerdictsOk, VerdictOk

\* Verdicts that are kept, or those of the parent of a process
LEMMA SameVerdicts ==
  ASSUME NEW p, NEW q, VerdictsOk(q), run'[p].verdicts = run[q].verdicts, UNCHANGED suite
  PROVE  VerdictsOk(p)'
BY DEF VerdictsOk, VerdictOk

\* A verdict that is added
LEMMA AddedVerdict ==
  ASSUME Typed, NEW p \in Pids, RunnerInv(p), VerdictsOk(p), UNCHANGED suite,
         NEW mark, Concludes(p, mark),
         run[p].at = "write" /\ run[p].sent => Len(Test(p).input) > PipeSize,
         mark # "SKIPPED" /\ run[p].kid # NoPid /\ ~ CutBefore(p) /\ ~ (run[p].at = "write" /\ run[p].sent)
           => (mark = "PASSED" <=> onPath /\ Meets(Test(p), run[p].ideal))
  PROVE  VerdictsOk(p)'
<1> DEFINE old == run[p].verdicts
<1>1. PICK v \in Verdicts :
        /\ run'[p].verdicts = Append(old, v)
        /\ v.mark = mark /\ (v.forked <=> run[p].kid # NoPid)
        /\ v.cut <=> run[p].at = "write" /\ run[p].sent
        /\ v.right <=> mark # "SKIPPED" /\ onPath /\ Meets(Test(p), run[p].ideal)
  BY DEF Concludes
<1>2. old \in Seq(Verdicts) /\ Len(old) = run[p].test - 1 /\ run[p].test \in Nat \ {0}
  BY DEF Typed, RunType, RunnerInv
<1>3. CutBefore(p) <=> \E j \in 1..Len(old) : old[j].cut
  BY <1>2 DEF CutBefore, Range
<1>4. \A k \in DOMAIN old : VerdictOk(p, k)
  BY DEF VerdictsOk
<1> HIDE DEF old
<1> DEFINE new == Append(old, v)
<1>5. /\ DOMAIN new = 1..(Len(old) + 1) /\ DOMAIN old = 1..Len(old) /\ Len(old) \in Nat
      /\ \A k \in 1..Len(old) : new[k] = old[k]
      /\ new[Len(old) + 1] = v
  BY <1>1, <1>2
<1> HIDE DEF new
<1>6. ASSUME NEW k \in 1..Len(old)
      PROVE  VerdictOk(p, k)'
  <2>1. \A j \in 1..k : new[j] = old[j]
    BY <1>5
  <2>2. new[k] = old[k]
    BY <1>5
  <2>3. VerdictOk(p, k)
    BY <1>4, <1>5
  <2> QED
    BY <1>1, <2>1, <2>2, <2>3 DEF VerdictOk, old, new
<1>7. ASSUME NEW k, k = Len(old) + 1
      PROVE  VerdictOk(p, k)'
  <2>1. k = run[p].test /\ new[k] = v
    BY <1>2, <1>5, <1>7
  <2>2. v.cut => Len(suite'[k].input) > PipeSize
    BY <1>1, <2>1 DEF Test
  <2>3. (\A j \in 1..k : ~ new[j].cut) => ~ CutBefore(p) /\ ~ v.cut
    BY <1>3, <1>5, <1>7
  <2>4. v.mark # "SKIPPED" /\ v.forked /\ (\A j \in 1..k : ~ new[j].cut)
          => (v.mark = "PASSED" <=> v.right)
    BY <1>1, <2>3
  <2>5. run'[p].verdicts = new
    BY <1>1 DEF new
  <2> QED
    BY <2>1, <2>2, <2>4, <2>5 DEF VerdictOk
<1> QED
  <2>1. \A k \in 1..(Len(old) + 1) : k \in 1..Len(old) \/ k = Len(old) + 1
    BY <1>5
  <2>2. DOMAIN run'[p].verdicts = 1..(Len(old) + 1)
    BY <1>1, <1>5 DEF new
  <2>3. \A k \in DOMAIN run'[p].verdicts : VerdictOk(p, k)'
    BY <1>6, <1>7, <2>1, <2>2
  <2> QED
    BY <2>3 DEF VerdictsOk

\* The verdict of a runner that has read what its child printed
LEMMA JudgesOk ==
  ASSUME IInv, RunnersInv, TapInv, OutcomeInv, NEW p \in Pids, life[p] = "alive",
         run[p].at = "judge", run[p].kid # NoPid, ~ CutBefore(p)
  PROVE  Meets(Test(p), [status |-> run[p].status, out |-> run[p].out, err |-> run[p].err,
                         files |-> files])
           <=> onPath /\ Meets(Test(p), run[p].ideal)
<1>1. Clean(p) /\ Typed /\ RunInv
  BY DEF Clean, IInv
<1>2. CASE onPath
  <2>1. p = Root
    BY <1>2 DEF RunnersInv, RunnersOk
  <2>2. run[p].ideal = Result(run[p].status, run[p].out, run[p].err, files)
    BY <1>1, <1>2, <2>1 DEF OutcomeInv, OutcomeOk
  <2> QED
    BY <1>2, <2>2 DEF Result
<1>3. CASE ~ onPath
  <2>1. run[p].out = <<"TAP">>
    BY <1>1, <1>3 DEF TapInv, TapOk
  <2>2. Test(p).out # <<"TAP">>
    BY <1>1, RunnerPipes DEF IsTest
  <2> QED
    BY <1>3, <2>1, <2>2 DEF Meets
<1> QED
  BY <1>2, <1>3

\* A runner's own verdicts
LEMMA VerdictsSelf ==
  ASSUME IInv, RunnersInv, TapInv, OutcomeInv, NEW p \in Pids, RunnerStep(p), VerdictsOk(p)
  PROVE  VerdictsOk(p)'
<1>1. /\ Typed /\ RunnerInv(p) /\ ChildrenInv /\ UNCHANGED suite
      /\ life[p] = "alive" /\ WriteOk(p)
  BY DEF IInv, RunInv, WriteInv, RunnerStep
<1>2. CASE run'[p].verdicts = run[p].verdicts
  BY <1>1, <1>2, SameVerdicts
<1>3. CASE run'[p] = NoRun
  BY <1>3 DEF VerdictsOk, NoRun
<1>4. CASE Concludes(p, "SKIPPED") /\ run[p].at = "loop"
  BY <1>1, <1>4, AddedVerdict
<1>5. CASE Concludes(p, "FAILED") /\ run[p].at = "write" /\ run[p].sent /\ run[p].left # <<>>
  <2>1. Len(Test(p).input) > PipeSize
    BY <1>1, <1>5 DEF WriteOk
  <2> QED
    BY <1>1, <1>5, <2>1, AddedVerdict
<1>6. CASE Concludes(p, "FAILED") /\ run[p].at = "child"
  <2>1. run[p].kid = NoPid
    BY <1>1, <1>6 DEF RunnerInv, Early
  <2> QED
    BY <1>1, <1>6, <2>1, AddedVerdict
<1>7. CASE Concludes(p, "FAILED") /\ IsWait(p)
  <2>1. run[p].at = "wait" /\ run'[p].at = "loop"
    BY <1>7 DEF IsWait, Concludes
  <2>2. CutBefore(p)
    <3>1. SUFFICES ASSUME Clean(p) PROVE FALSE
      BY <1>1, <2>1 DEF Clean
    <3>2. run'[p].at = "out"
      BY <1>1, <1>7, <3>1, WaitsForKid DEF Moves
    <3> QED
      BY <2>1, <3>2
  <2> QED
    BY <1>1, <1>7, <2>1, <2>2, AddedVerdict
<1>8. CASE IsJudge(p)
  <2> DEFINE meets == Meets(Test(p), [status |-> run[p].status, out |-> run[p].out,
                                      err |-> run[p].err, files |-> files])
             mark  == IF meets THEN "PASSED" ELSE "FAILED"
  <2>1. run[p].at = "judge" /\ Concludes(p, mark)
    BY <1>8 DEF IsJudge
  <2>2. run[p].kid # NoPid /\ ~ CutBefore(p) => (meets <=> onPath /\ Meets(Test(p), run[p].ideal))
    BY <1>1, <2>1, JudgesOk
  <2>3. mark = "PASSED" <=> meets
    OBVIOUS
  <2> HIDE DEF meets, mark
  <2> QED
    BY <1>1, <2>1, <2>2, <2>3, AddedVerdict
<1>9. CASE IsExec(p)
  BY <1>3, <1>6, <1>9 DEF IsExec, Becomes
<1>10. CASE IsWrite(p)
  BY <1>2, <1>5, <1>10 DEF IsWrite, WritesInput, Moves
<1>11. CASE IsWait(p)
  BY <1>2, <1>7, <1>11 DEF IsWait, Waits, Reaps, Moves
<1>12. CASE IsFork(p)
  <2>1. PICK c \in Pids : Forks(p, c)
    BY <1>12 DEF IsFork
  <2>2. run'[p] = [run[p] EXCEPT !.at = "send", !.kid = c] /\ run[p] \in RunType
    BY <1>1, <2>1 DEF Forks, Typed
  <2>3. run'[p].verdicts = run[p].verdicts
    BY <2>2 DEF RunType
  <2> QED
    BY <1>2, <2>3
<1>13. CASE IsSkip(p)
  BY <1>4, <1>13 DEF IsSkip
<1>14. CASE IsReturn(p)
  BY <1>2, <1>14 DEF IsReturn
<1>15. CASE \/ IsSetUp(p) \/ IsForkFails(p) \/ IsSend(p) \/ IsShut(p) \/ IsReadOut(p)
            \/ IsReadErr(p) \/ IsFlushTap(p)
  BY <1>2, <1>15 DEF IsSetUp, SetsUp, IsForkFails, IsSend, Sends, IsShut, IsReadOut, ReadsOut, IsReadErr,
    ReadsErr, IsFlushTap, Moves
<1> QED
  BY <1>8, <1>9, <1>10, <1>11, <1>12, <1>13, <1>14, <1>15 DEF RunnerStep

\* A runner's steps keep it
LEMMA VerdictsRunner ==
  ASSUME IInv, RunnersInv, TapInv, OutcomeInv, VerdictsRight, NEW p \in Pids, RunnerStep(p)
  PROVE  VerdictsRight'
<1>1. Typed /\ UNCHANGED suite
  BY DEF IInv, RunnerStep
<1>2. ASSUME NEW q \in Pids PROVE VerdictsOk(q)
  BY VerdictsOf
<1>3. ASSUME NEW q \in Pids PROVE VerdictsOk(q)'
  <2>1. CASE q = p
    BY <1>2, <2>1, VerdictsSelf
  <2>2. CASE q # p /\ run'[q] = run[q]
    BY <1>1, <1>2, <2>2, SameVerdicts
  <2>3. CASE q # p /\ Forks(p, q)
    <3>1. run'[q] = [run[p] EXCEPT !.at = "child"] /\ run[p] \in RunType
      BY <1>1, <2>3 DEF Forks, Typed
    <3>2. run'[q].verdicts = run[p].verdicts
      BY <3>1 DEF RunType
    <3> QED
      BY <1>1, <1>2, <3>2, SameVerdicts
  <2> QED
    BY <1>1, <2>1, <2>2, <2>3, OthersStay
<1> QED
  BY <1>3 DEF VerdictsRight, VerdictsOk, VerdictOk

-----------------------------------------------------------------------------
(* The whole invariant, and the theorems.                                      *)
WholeInv == IInv /\ RunnersInv /\ TapInv /\ OutcomeInv /\ PlacesInv /\ VerdictsRight

\* It holds at the start
LEMMA WholeInit == Init => WholeInv
<1>1. SUFFICES ASSUME Init PROVE VerdictsRight
  BY InitInv, RunnersInit, TapInit, OutcomeInit, PlacesInit DEF WholeInv
<1>2. ASSUME NEW p \in Pids
      PROVE  run[p].verdicts = <<>>
  <2> DEFINE first == [NoRun EXCEPT !.at = "loop"]
  <2>1. run[p] = first \/ run[p] = NoRun
    <3>1. run = [q \in Pids |-> IF q = Root THEN first ELSE NoRun]
      BY <1>1 DEF Init
    <3> HIDE DEF first
    <3> QED
      BY <3>1
  <2>2. NoRun.verdicts = <<>> /\ first.verdicts = <<>>
    BY DEF NoRun
  <2> HIDE DEF first
  <2> QED
    BY <2>1, <2>2
<1> QED
  BY <1>2 DEF VerdictsRight

\* A step of a vinumc keeps it
LEMMA WholeVinumc ==
  ASSUME CompileAnswers, WholeInv, NEW p \in Pids, Vinumc(p), UNCHANGED <<run, Suite>>
  PROVE  WholeInv'
<1>1. IInv /\ RunnersInv /\ TapInv /\ OutcomeInv /\ PlacesInv /\ VerdictsRight /\ RunInv
  BY DEF WholeInv, IInv
<1>2. IInv' /\ VinumcStep(p)
  BY <1>1, VinumcKeeps
<1>3. RunnersInv'
  BY <1>1, <1>2, RunnersVinumc
<1>4. OutcomeInv'
  BY <1>1, <1>2, OutcomeVinumc
<1>5. TapInv'
  BY <1>1, <1>2, FoundToRun DEF TapInv, Suite
<1>6. VerdictsRight'
  BY <1>1 DEF VerdictsRight, Suite
<1>7. PlacesInv'
  BY <1>1, <1>2, PlacesVinumc
<1> QED
  BY <1>2, <1>3, <1>4, <1>5, <1>6, <1>7 DEF WholeInv

\* A step of a runner keeps it
LEMMA WholeRunner ==
  ASSUME CompileAnswers, WholeInv, NEW p \in Pids, Runner(p)
  PROVE  WholeInv'
<1>1. IInv /\ RunnersInv /\ TapInv /\ OutcomeInv /\ PlacesInv /\ VerdictsRight /\ Typed /\ RunInv
  BY DEF WholeInv, IInv
<1>2. IInv' /\ RunnerStep(p)
  BY <1>1, RunnerKeeps
<1>3. RunnersInv'
  BY <1>1, <1>2, RunnersRunner
<1>4. OutcomeInv'
  BY <1>1, <1>2, OutcomeRunner
<1>5. TapInv'
  BY <1>1, <1>2, TapRunner
<1>6. VerdictsRight'
  BY <1>1, <1>2, VerdictsRunner
<1>7. PlacesInv'
  BY <1>1, <1>2, PlacesRunner
<1> QED
  BY <1>2, <1>3, <1>4, <1>5, <1>6, <1>7 DEF WholeInv

\* Where nothing happens
LEMMA WholeStutter ==
  ASSUME WholeInv, UNCHANGED vars PROVE WholeInv'
<1>1. IInv /\ RunnersInv /\ TapInv /\ OutcomeInv /\ PlacesInv /\ VerdictsRight
  BY DEF WholeInv
<1>2. UNCHANGED <<life, parent, std, pipes, files, job, suite, onPath, run, tap>>
  BY DEF vars, kernel
<1>3. IInv'
  BY <1>1, StutterKeeps
<1>4. RunnersInv'
  BY <1>1, <1>2 DEF RunnersInv, RunnersOk
<1>5. \A p \in Pids : Clean(p)' <=> Clean(p)
  BY <1>2 DEF Clean, CutBefore
<1>6. \A p, end : Data(p, end)' = Data(p, end)
  BY <1>2 DEF Data, Pipe
<1>7. TapInv'
  BY <1>1, <1>2, <1>5, <1>6 DEF TapInv, TapOk
<1>8. Test(Root)' = Test(Root) /\ Unsent' = Unsent
  BY <1>2 DEF Test, Unsent
<1>9. Stdin' = Stdin
  BY <1>6, <1>8 DEF Stdin
<1>10. \A c \in Pids : Ending(c)' = Ending(c)
  BY <1>2, <1>6, <1>8, <1>9 DEF Ending, Comes
<1> HIDE DEF Ending
<1>11. OutcomeOk <=> OutcomeOk'
  BY <1>2, <1>6, <1>8, <1>9, <1>10 DEF OutcomeOk
<1>12. Clean(Root)' <=> Clean(Root)
  BY <1>2 DEF Clean, CutBefore
<1>13. OutcomeInv'
  BY <1>1, <1>2, <1>11, <1>12 DEF OutcomeInv
<1>14. VerdictsRight'
  BY <1>1, <1>2 DEF VerdictsRight
<1>15. PlacesInv'
  BY <1>1, <1>2 DEF PlacesInv, CutBefore
<1> QED
  BY <1>3, <1>4, <1>7, <1>13, <1>14, <1>15 DEF WholeInv

\* The invariant holds in every state of every run
LEMMA WholeInvariant ==
  ASSUME CompileAnswers PROVE Spec => []WholeInv
<1>1. ASSUME WholeInv, NEW p \in Pids, Runner(p) \/ (Vinumc(p) /\ UNCHANGED <<run, Suite>>)
      PROVE  WholeInv'
  BY <1>1, WholeRunner, WholeVinumc
<1>2. WholeInv /\ [Next]_vars => WholeInv'
  BY <1>1, WholeStutter DEF Next
<1> QED
  BY <1>2, WholeInit, PTL DEF Spec

(* What the runner reads back through the pipes, the status it waits for and   *)
(* the files it finds are what one run of vinumc on the test's files and input *)
(* comes to, however the processes interleave and however small the pipes are, *)
(* unless the input of an earlier test was cut short (vunit.c:289, 307-318).   *)
THEOREM ReadsOutcome ==
  ASSUME CompileAnswers PROVE Spec => []RunIsOutcome
<1>1. WholeInv => RunIsOutcome
  <2> SUFFICES ASSUME WholeInv, NEW p \in Pids, Running(p, "judge"), onPath, run[p].kid # NoPid,
                      ~ CutBefore(p)
               PROVE  [status |-> run[p].status, out |-> run[p].out, err |-> run[p].err,
                       files |-> files] = run[p].ideal
    BY DEF RunIsOutcome
  <2>1. Clean(p) /\ run[p].at = "judge"
    BY DEF Running, Clean
  <2>2. p = Root
    BY <2>1 DEF WholeInv, RunnersInv, RunnersOk
  <2>3. run[p].ideal = Result(run[p].status, run[p].out, run[p].err, files)
    BY <2>1, <2>2 DEF WholeInv, OutcomeInv, OutcomeOk
  <2> QED
    BY <2>3 DEF Result
<1> QED
  BY <1>1, WholeInvariant, PTL

(* A test passes exactly when vinumc does what it asks, also when vinumc is not*)
(* found and the child goes on as a second runner (vunit.c:361); from a test   *)
(* whose input was cut short on verdicts may be wrong (vunit.c:289, 307), and  *)
(* only an input above the size of a pipe is cut short.                        *)
THEOREM JudgesRight ==
  ASSUME CompileAnswers PROVE Spec => []VerdictsRight
<1>1. WholeInv => VerdictsRight
  BY DEF WholeInv
<1> QED
  BY <1>1, WholeInvariant, PTL

(* While a vinumc writes its output file in parts (vinumc.c:265), what is in   *)
(* the file and what is yet to be written are together what its compiler       *)
(* answered: no runner makes its files in between (vunit.c:307), and no other  *)
(* vinumc writes, unless an input was cut short before (vunit.c:289).          *)
THEOREM WrittenInOrder ==
  ASSUME CompileAnswers PROVE Spec => []OutputInOrder
<1>1. WholeInv => OutputInOrder
  <2> SUFFICES ASSUME WholeInv, NEW p \in Pids, At(p, "flush"), job[p].dest \in Paths,
                      ~ CutBefore(parent[p])
               PROVE  files[job[p].dest] \o job[p].out = Compile(job[p].program, job[p].cocktail).out
    BY DEF OutputInOrder
  <2>1. /\ Typed /\ RunInv /\ RootInv /\ FamilyInv /\ RunnersInv /\ PlacesInv
        /\ Root \in Pids /\ NoPid \notin Pids
    BY ProcessesAssumption, HarnessAssumption DEF WholeInv, IInv, Root
  <2>2. life[p] = "alive" /\ job[p].options # Nothing /\ job[p].at = "flush"
    BY DEF At
  <2>3. run[p].at = "none" /\ p # Root
    BY <2>1, <2>2 DEF RunInv, RootInv
  <2>4. onPath /\ parent[p] = Root
    BY <2>1, <2>2, <2>3 DEF RunnersInv, RunnersOk, FamilyInv
  <2>5. PlaceOk(job[p], files)
    BY <2>1, <2>2, <2>3, <2>4 DEF PlacesInv
  <2> QED
    BY <2>2, <2>5 DEF PlaceOk
<1> QED
  BY <1>1, WholeInvariant, PTL

=============================================================================
