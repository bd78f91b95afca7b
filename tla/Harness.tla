------------------------------ MODULE Harness ------------------------------
(* The test runner (vunit.c) with the processes of vinumc that it starts, one  *)
(* for each test, over pipes to their standard streams.                        *)
EXTENDS CommandLine

CONSTANTS
  Suites,        \* the sequences of tests that may be run
  FilesAtStart,
  NoPid          \* the -1 of a fork that failed

(* A test is a record of skip; writes, the text of the files it makes first;   *)
(* the input and the options of its one run of vinumc; out, the text it        *)
(* expects on stdout; and text, which it expects in the file checks, if any.   *)
(* None expects vinumc to print the results of a suite.                        *)
IsTest(t) ==
  /\ t.skip \in BOOLEAN
  /\ DOMAIN t.writes \subseteq Paths /\ \A f \in DOMAIN t.writes : t.writes[f] \in Text
  /\ t.input # Nothing => t.input \in Text
  /\ t.options \in Options
  /\ t.out # <<"TAP">>
  /\ t.checks # Nothing => t.checks \in Paths

ASSUME HarnessAssumption ==
  /\ NoPid \notin Pids /\ Nothing \notin Options
  /\ "TAP" \in Chunks
  /\ FilesAtStart \in [Paths -> FileTexts]
  /\ \A s \in Suites : /\ s \in Seq(Range(s)) /\ DOMAIN s \subseteq Runs
                       /\ \A k \in DOMAIN s : IsTest(s[k])

VARIABLES
  suite,
  onPath,   \* whether execvp finds vinumc
  run,      \* of each process that runs __vunit_main: where it is, and its data
  tap       \* what was printed on the terminal

vars == <<kernel, job, suite, onPath, run, tap>>
Suite == <<suite, onPath, tap>>   \* what no test changes

Root == 1

NoRun == [at |-> "none", test |-> 1, kid |-> NoPid, left |-> <<>>, sent |-> FALSE,
          status |-> "none", out |-> <<>>, err |-> <<>>, verdicts |-> <<>>,
          ideal |-> Nothing]

Init ==
  /\ suite \in Suites
  /\ onPath \in BOOLEAN
  /\ life = [p \in Pids |-> IF p = Root THEN "alive" ELSE "free"]
  /\ parent = [p \in Pids |-> NoPid]
  /\ std = [p \in Pids |-> [in |-> Terminal, out |-> Terminal, err |-> Terminal]]
  /\ pipes = [i \in PipeIds |-> NoPipe]
  /\ files = FilesAtStart
  /\ job = [p \in Pids |-> NoJob]
  /\ run = [p \in Pids |-> IF p = Root THEN [NoRun EXCEPT !.at = "loop"] ELSE NoRun]
  /\ tap = <<>>

Running(p, stage) == life[p] = "alive" /\ run[p].at = stage
Test(p) == suite[run[p].test]
Pipe(p, end) == <<p, run[p].test, end>>
Step(p, stage) == run' = [run EXCEPT ![p].at = stage]

\* vunit_str_to_file, for each file that the test makes
Made(test) == [f \in Paths |-> IF f \in DOMAIN test.writes THEN test.writes[f] ELSE files[f]]

\* vunit_file_to_str and the assertion on the text it gives
FileMeets(test, fs) == test.checks # Nothing => fs[test.checks] = test.text

\* What a test asks of its run of vinumc: vunit_run_vinumc_ok, and then its own assertions
Meets(test, r) ==
  r.status = "exited" /\ r.err = <<>> /\ r.out = test.out /\ FileMeets(test, r.files)

\* Mutant of Conclude: the loop stays at its test
ConcludeAgain(p, mark) ==
  run' = [run EXCEPT ![p] = [NoRun EXCEPT !.at = "loop", !.test = run[p].test,
                                          !.verdicts = Append(run[p].verdicts, [mark |-> mark])]]

(* The loop of __vunit_main goes on to the next test.  History: a verdict      *)
(* keeps whether a child was forked, whether the input was cut short, and      *)
(* whether what vinumc should come to (ideal) is what the test asks for.       *)
Conclude(p, mark) ==
  run' = [run EXCEPT ![p] =
    [NoRun EXCEPT !.at = "loop", !.test = run[p].test + 1,
       !.verdicts = Append(run[p].verdicts,
         [mark   |-> mark,
          forked |-> run[p].kid # NoPid,
          cut    |-> run[p].at = "write" /\ run[p].sent,
          right  |-> mark # "SKIPPED" /\ onPath /\ Meets(Test(p), run[p].ideal)])]]

\* A failed assertion leaves the test by longjmp: what is open stays open
Fail(p) == Conclude(p, "FAILED")

Skip(p) ==
  /\ Running(p, "loop") /\ run[p].test <= Len(suite) /\ Test(p).skip
  /\ Conclude(p, "SKIPPED")
  /\ UNCHANGED <<kernel, job, Suite>>

\* The files of the test are written and the pipes of vunit_run_vinumc opened
SetUp(p) ==
  /\ Running(p, "loop") /\ run[p].test <= Len(suite) /\ ~ Test(p).skip
  /\ LET t == Test(p)
     IN  /\ files' = Made(t)
         /\ pipes' = Opened(pipes, p, {Pipe(p, "out"), Pipe(p, "err")}
                                      \union IF t.input = Nothing THEN {} ELSE {Pipe(p, "in")})
         /\ run' = [run EXCEPT ![p].at = "fork",
              ![p].ideal = Outcome(t.options, files', IF t.input = Nothing THEN <<>> ELSE t.input)]
  /\ UNCHANGED <<life, parent, std, job, Suite>>

\* A new process is a copy of the runner; ret, which is tested, is still that of pipe
Fork(p) ==
  /\ Running(p, "fork")
  /\ \E c \in {q \in Pids : life[q] = "free"} :
       /\ \A q \in Pids : life[q] = "free" => c <= q
       /\ life' = [life EXCEPT ![c] = "alive"]
       /\ parent' = [parent EXCEPT ![c] = p]
       /\ std' = [std EXCEPT ![c] = std[p]]
       /\ pipes' = Shared(pipes, p, c)
       /\ run' = [run EXCEPT ![p].at = "send", ![p].kid = c, ![c] = [run[p] EXCEPT !.at = "child"]]
  /\ UNCHANGED <<files, job, Suite>>

ForkFails(p) ==
  /\ Running(p, "fork")
  /\ Step(p, "send")
  /\ UNCHANGED <<kernel, job, Suite>>

\* Mutant of Exec: the child's stdout is not redirected
ExecUndirected(c) ==
  LET pipe(end) == <<parent[c], run[c].test, end>>
  IN  /\ Running(c, "child")
      /\ pipes' = Closed(pipes, c, {pipe("out"), pipe("err")}, {pipe("in")})
      /\ std' = [std EXCEPT ![c].err = pipe("err"),
                            ![c].in = IF Test(c).input = Nothing THEN @ ELSE pipe("in")]
      /\ IF onPath
         THEN run' = [run EXCEPT ![c] = NoRun] /\ job' = [job EXCEPT ![c] = Job(Test(c).options)]
         ELSE Fail(c) /\ UNCHANGED job
      /\ UNCHANGED <<life, parent, files, Suite>>

(* The child's streams become the pipes, and it becomes vinumc.  When there is *)
(* none, it leaves by longjmp too: a second runner goes on with the suite.     *)
Exec(c) ==
  LET pipe(end) == <<parent[c], run[c].test, end>>
  IN  /\ Running(c, "child")
      /\ pipes' = Closed(pipes, c, {pipe("out"), pipe("err")}, {pipe("in")})
      /\ std' = [std EXCEPT ![c] =
           [in |-> IF Test(c).input = Nothing THEN std[c].in ELSE pipe("in"),
            out |-> pipe("out"), err |-> pipe("err")]]
      /\ IF onPath
         THEN run' = [run EXCEPT ![c] = NoRun] /\ job' = [job EXCEPT ![c] = Job(Test(c).options)]
         ELSE Fail(c) /\ UNCHANGED job
      /\ UNCHANGED <<life, parent, files, Suite>>

\* The parent's side of the pipe of the input
Send(p) ==
  /\ Running(p, "send")
  /\ IF Test(p).input = Nothing
     THEN Step(p, "shut") /\ UNCHANGED pipes
     ELSE /\ run' = [run EXCEPT ![p].at = "write", ![p].left = Test(p).input]
          /\ pipes' = Closed(pipes, p, {Pipe(p, "in")}, {})
  /\ UNCHANGED <<life, parent, std, files, job, Suite>>

\* Mutant of WriteInput: EPIPE fails the test
WriteInputStrict(p) ==
  LET in   == Pipe(p, "in")
      n    == Min({PipeSize - Len(pipes[in].data), Len(run[p].left)})
      left == SubSeq(run[p].left, n + 1, Len(run[p].left))
  IN  /\ Running(p, "write")
      /\ \/ pipes[in].readers = {} /\ Fail(p) /\ UNCHANGED pipes
         \/ /\ pipes[in].readers # {} /\ n > 0
            /\ pipes' = [pipes EXCEPT ![in].data = @ \o SubSeq(run[p].left, 1, n)]
            /\ run' = [run EXCEPT ![p].left = left, ![p].sent = TRUE,
                                  ![p].at = IF left = <<>> THEN "shut" ELSE "write"]
      /\ UNCHANGED <<life, parent, std, files, job, Suite>>

(* write(2) of the whole input, which waits while the pipe is full.  Once      *)
(* nobody can read it: EPIPE, which is let pass, or a short count, which fails.*)
WriteInput(p) ==
  LET in   == Pipe(p, "in")
      n    == Min({PipeSize - Len(pipes[in].data), Len(run[p].left)})
      left == SubSeq(run[p].left, n + 1, Len(run[p].left))
  IN  /\ Running(p, "write")
      /\ \/ /\ pipes[in].readers = {} /\ run[p].left # <<>>
            /\ IF run[p].sent THEN Fail(p) ELSE Step(p, "shut")
            /\ UNCHANGED pipes
         \/ /\ pipes[in].readers # {} /\ n > 0
            /\ pipes' = [pipes EXCEPT ![in].data = @ \o SubSeq(run[p].left, 1, n)]
            /\ run' = [run EXCEPT ![p].left = left, ![p].sent = TRUE,
                                  ![p].at = IF left = <<>> THEN "shut" ELSE "write"]
         \/ run[p].left = <<>> /\ Step(p, "shut") /\ UNCHANGED pipes
      /\ UNCHANGED <<life, parent, std, files, job, Suite>>

\* Mutant of Shut: the write end of the input is kept
ShutLate(p) ==
  /\ Running(p, "shut")
  /\ pipes' = Closed(pipes, p, {}, {Pipe(p, "out"), Pipe(p, "err")})
  /\ Step(p, "wait")
  /\ UNCHANGED <<life, parent, std, files, job, Suite>>

\* The ends that are the child's
Shut(p) ==
  /\ Running(p, "shut")
  /\ pipes' = Closed(pipes, p, {}, {Pipe(p, "in"), Pipe(p, "out"), Pipe(p, "err")})
  /\ Step(p, "wait")
  /\ UNCHANGED <<life, parent, std, files, job, Suite>>

\* wait(2) gives any child that has ended; its assertion is that this is the test's
Wait(p) ==
  /\ Running(p, "wait")
  /\ \/ \E c \in Zombies(p) :
          /\ life' = [life EXCEPT ![c] = "reaped"]
          /\ IF c = run[p].kid
             THEN run' = [run EXCEPT ![p].at = "out", ![p].status = life[c]]
             ELSE Fail(p)
     \/ /\ Children(p) = {}   \* -1, and stat is not written
        /\ IF run[p].kid = NoPid
           THEN \E any \in {"exited", "killed"} :
                  run' = [run EXCEPT ![p].at = "out", ![p].status = any]
           ELSE Fail(p)
        /\ UNCHANGED life
  /\ UNCHANGED <<parent, std, pipes, files, job, Suite>>

\* Mutant of ReadOut: the read end is not closed
ReadOutOpen(p) ==
  LET out == Pipe(p, "out")
  IN  /\ Running(p, "out")
      /\ \/ Drain(out) /\ run' = [run EXCEPT ![p].out = @ \o pipes[out].data]
         \/ AtEof(out) /\ Step(p, "err") /\ UNCHANGED pipes
      /\ UNCHANGED <<life, parent, std, files, job, Suite>>

\* read_all_from_pipe, and the closing of the read end
ReadOut(p) ==
  LET out == Pipe(p, "out")
  IN  /\ Running(p, "out")
      /\ \/ Drain(out) /\ run' = [run EXCEPT ![p].out = @ \o pipes[out].data]
         \/ AtEof(out) /\ pipes' = Closed(pipes, p, {out}, {}) /\ Step(p, "err")
      /\ UNCHANGED <<life, parent, std, files, job, Suite>>

ReadErr(p) ==
  LET err == Pipe(p, "err")
  IN  /\ Running(p, "err")
      /\ \/ Drain(err) /\ run' = [run EXCEPT ![p].err = @ \o pipes[err].data]
         \/ AtEof(err) /\ pipes' = Closed(pipes, p, {err}, {}) /\ Step(p, "judge")
      /\ UNCHANGED <<life, parent, std, files, job, Suite>>

Judge(p) ==
  /\ Running(p, "judge")
  /\ Conclude(p, IF Meets(Test(p), [status |-> run[p].status, out |-> run[p].out,
                                    err |-> run[p].err, files |-> files])
                 THEN "PASSED" ELSE "FAILED")
  /\ UNCHANGED <<kernel, job, Suite>>

\* What was printed with printf is written when main returns
FlushTap(p) ==
  /\ Running(p, "loop") /\ run[p].test > Len(suite)
  /\ IF std[p].out = Terminal
     THEN tap' = Append(tap, run[p].verdicts) /\ UNCHANGED pipes
     ELSE Write("TAP", std[p].out) /\ UNCHANGED tap
  /\ Step(p, "return")
  /\ UNCHANGED <<life, parent, std, files, job, suite, onPath>>

Return(p) == Running(p, "return") /\ End(p, "exited") /\ UNCHANGED <<job, run, Suite>>

Runner(p) ==
  \/ Skip(p) \/ SetUp(p) \/ Fork(p) \/ ForkFails(p) \/ Exec(p) \/ Send(p) \/ WriteInput(p)
  \/ Shut(p) \/ Wait(p) \/ ReadOut(p) \/ ReadErr(p) \/ Judge(p) \/ FlushTap(p) \/ Return(p)

Next == \E p \in Pids : Runner(p) \/ (Vinumc(p) /\ UNCHANGED <<run, Suite>>)

Spec == Init /\ [][Next]_vars

\* The kernel schedules every process that can run
FairSpec == Spec /\ \A p \in Pids : WF_vars(Runner(p) \/ (Vinumc(p) /\ UNCHANGED <<run, Suite>>))

----------------------------------------------------------------------------

(* Pipes hold no more than fits, only live processes hold their ends, and a    *)
(* runner has one verdict for each test that it is done with.                  *)
TypeOK ==
  /\ life \in [Pids -> {"free", "alive", "exited", "killed", "reaped"}]
  /\ parent \in [Pids -> Pids \union {NoPid}]
  /\ \A i \in PipeIds : /\ Len(pipes[i].data) <= PipeSize
                        /\ \A p \in pipes[i].readers \union pipes[i].writers : life[p] = "alive"
  /\ \A p \in Pids : /\ Len(run[p].verdicts) = run[p].test - 1
                     /\ run[p].at # "none" => run[p].test \in 1..(Len(suite) + 1)
  /\ Len(tap) <= Cardinality(Pids)

CutBefore(p) == \E v \in Range(run[p].verdicts) : v.cut

(* What the runner reads back through the pipes, the status it waits for and   *)
(* the files it finds are what one run of vinumc on the test's files and input *)
(* comes to: nothing is lost, mixed up or read too early, however the two      *)
(* processes interleave and however small the pipes are; unless the input of   *)
(* an earlier test was cut short, which leaves a child behind (vunit.c:289).   *)
RunIsOutcome ==
  \A p \in Pids :
    Running(p, "judge") /\ onPath /\ run[p].kid # NoPid /\ ~ CutBefore(p)
      => [status |-> run[p].status, out |-> run[p].out, err |-> run[p].err, files |-> files]
           = run[p].ideal

(* A test passes exactly when vinumc does what it asks, also when vinumc is not*)
(* found and the child goes on as a second runner (vunit.c:361); from a test   *)
(* whose input was cut short on verdicts may be wrong, because wait gives the  *)
(* child that was left.  Only an input above the size of a pipe is cut short.  *)
VerdictsRight ==
  \A p \in Pids : \A k \in DOMAIN run[p].verdicts :
    LET v == run[p].verdicts[k]
    IN  /\ v.mark # "SKIPPED" /\ v.forked /\ (\A j \in 1..k : ~ run[p].verdicts[j].cut)
             => (v.mark = "PASSED" <=> v.right)
        /\ v.cut => Len(suite[k].input) > PipeSize

(* One process prints the results of the suite on its stdout, one line a test, *)
(* although a child that cannot become vinumc returns from main as well.       *)
TapOnce == tap # <<>> => tap = <<run[Root].verdicts>> /\ Len(tap[1]) = Len(suite)

(* A runner that comes back to its loop has closed all it opened for its tests,*)
(* unless an assertion of vunit_run_vinumc failed.                             *)
NoEndLeft ==
  \A p \in Pids : Running(p, "loop") /\ ~ CutBefore(p) =>
    \A k \in Runs, end \in {"in", "out", "err"} :
      p \notin pipes[<<p, k, end>>].readers \union pipes[<<p, k, end>>].writers

(* While a vinumc writes its output file, what is in the file and what is yet  *)
(* to be written are together the text that its compiler answered: the file was*)
(* emptied, its parts come in order, and neither a runner that makes its files *)
(* nor another vinumc writes in between; unless the input of an earlier test   *)
(* was cut short, which leaves a vinumc behind that may still write.           *)
OutputInOrder ==
  \A p \in Pids :
    At(p, "flush") /\ job[p].dest \in Paths /\ ~ CutBefore(parent[p])
      => files[job[p].dest] \o job[p].out = Compile(job[p].program, job[p].cocktail).out

(* The runner waits for a child that writes more than a pipe holds: it reads   *)
(* the pipes only once the child has ended (vunit.c:307).                      *)
Clogged(p) ==
  \E to \in {std[p].out, std[p].err} \ {Terminal} :
    /\ life[p] = "alive" /\ Running(parent[p], "wait") /\ run[parent[p]].kid = p
    /\ Len(pipes[to].data) = PipeSize

(* Every suite ends, whatever vinumc does with its input and whether or not it *)
(* can be found or forked, but for a run whose output fills a pipe.            *)
SuiteEnds == <>(life[Root] = "exited" \/ \E p \in Pids : Clogged(p))

(* An assertion of vunit_run_vinumc says "fork" (vunit.c:278): a test whose    *)
(* fork fails does not pass.                                                   *)
FailedForkFails ==
  \A p \in Pids : \A v \in Range(run[p].verdicts) : v.mark = "PASSED" => v.forked
=============================================================================
