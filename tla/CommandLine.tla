---------------------------- MODULE CommandLine ----------------------------
(* The program vinumc (vinumc.c): what it does with its options, files and     *)
(* standard streams, around the compiler.                                      *)
EXTENDS Processes, SequencesExt

(* The compiler's answer to a program and a cocktail: [out, err, dies], the    *)
(* text, what it reports on stderr, and whether an assertion stops it.         *)
CONSTANT Compile(_, _)

VARIABLE job   \* of each process that runs vinumc: where it is, and its data

(* The options: known is FALSE when one is unknown; usage is "help", "version" *)
(* or Nothing; output and input are paths or Nothing, effects a sequence.      *)
Options == [known : BOOLEAN, usage : Chunks \union {Nothing}, input : Paths \union {Nothing},
            output : Paths \union {Nothing}, effects : Seq(Paths)]

Job(options) == [at |-> "parse", options |-> options, program |-> <<>>, cocktail |-> <<>>,
                 dest |-> Terminal, out |-> <<>>, wrote |-> 0, err |-> <<>>, dies |-> FALSE]
NoJob == Job(Nothing)

At(p, stage) == life[p] = "alive" /\ job[p].options # Nothing /\ job[p].at = stage

Goto(p, stage) == job' = [job EXCEPT ![p].at = stage]

Die(p) == End(p, "killed") /\ UNCHANGED job

\* An unknown option fails the assertion on its flag
ParseCmdline(p) ==
  /\ At(p, "parse")
  /\ IF job[p].options.known THEN Goto(p, "usage") /\ UNCHANGED kernel ELSE Die(p)

\* What -h and -v ask for is all that is done
ShowUsage(p) ==
  /\ At(p, "usage")
  /\ IF job[p].options.usage = Nothing THEN Goto(p, "open")
     ELSE job' = [job EXCEPT ![p].at = "flush", ![p].out = <<job[p].options.usage>>]
  /\ UNCHANGED kernel

\* Mutant of OpenOutput: a file that is there keeps its text
OpenOutputKept(p) ==
  LET path == job[p].options.output
  IN  /\ At(p, "open")
      /\ job' = [job EXCEPT ![p].at = "read",
                            ![p].dest = IF path = Nothing THEN Terminal
                                        ELSE IF files[path] = Directory THEN Nothing ELSE path]
      /\ files' = IF path = Nothing \/ files[path] # Absent THEN files
                  ELSE [files EXCEPT ![path] = <<>>]
      /\ UNCHANGED <<life, parent, std, pipes>>

\* The file of -o is emptied before anything is read; where it cannot be, out is NULL
OpenOutput(p) ==
  LET path == job[p].options.output
  IN  /\ At(p, "open")
      /\ job' = [job EXCEPT ![p].at = "read",
                            ![p].dest = IF path = Nothing THEN Terminal
                                        ELSE IF files[path] = Directory THEN Nothing ELSE path]
      /\ files' = IF path = Nothing \/ files[path] = Directory THEN files
                  ELSE [files EXCEPT ![path] = <<>>]
      /\ UNCHANGED <<life, parent, std, pipes>>

\* vut_fut_read_all_FILE: what a read error leaves is the empty string
ReadAll(text) == IF text = Directory THEN <<>> ELSE text

\* fopen of an absent input gives NULL, which is read all the same
ReadInputFile(p) ==
  LET path == job[p].options.input
  IN  /\ At(p, "read") /\ path # Nothing
      /\ IF files[path] = Absent THEN Die(p)
         ELSE /\ job' = [job EXCEPT ![p].at = "effects", ![p].program = ReadAll(files[path])]
              /\ UNCHANGED kernel

\* Mutant of ReadStdin: one read, and what comes later is missed
ReadStdinOnce(p) ==
  LET from == std[p].in
  IN  /\ At(p, "read") /\ job[p].options.input = Nothing
      /\ \/ /\ from = Terminal \/ AtEof(from)
            /\ Goto(p, "effects")
            /\ UNCHANGED kernel
         \/ /\ from # Terminal /\ Drain(from)
            /\ job' = [job EXCEPT ![p].program = pipes[from].data, ![p].at = "effects"]
            /\ UNCHANGED <<life, parent, std, files>>

ReadStdin(p) ==
  LET from == std[p].in
  IN  /\ At(p, "read") /\ job[p].options.input = Nothing
      /\ \/ /\ from = Terminal \/ AtEof(from)
            /\ Goto(p, "effects")
            /\ UNCHANGED kernel
         \/ /\ from # Terminal /\ Drain(from)
            /\ job' = [job EXCEPT ![p].program = @ \o pipes[from].data]
            /\ UNCHANGED <<life, parent, std, files>>

\* The effects that can be opened, one after the other; the others are passed over
Effects(fs, paths) ==
  FoldLeft(LAMBDA text, path : IF fs[path] = Absent THEN text ELSE text \o ReadAll(fs[path]),
           <<>>, paths)

ReadEffects(p) ==
  /\ At(p, "effects")
  /\ job' = [job EXCEPT ![p].at = "compile", ![p].cocktail = Effects(files, job[p].options.effects)]
  /\ UNCHANGED kernel

CompileProgram(p) ==
  LET answer == Compile(job[p].program, job[p].cocktail)
  IN  /\ At(p, "compile")
      /\ job' = [job EXCEPT ![p].at = "report", ![p].out = answer.out,
                            ![p].err = answer.err, ![p].dies = answer.dies]
      /\ UNCHANGED kernel

\* The compiler's reports go out as they are made, stderr being unbuffered
Report(p) ==
  /\ At(p, "report") /\ job[p].err # <<>>
  /\ Write(Head(job[p].err), std[p].err)
  /\ job' = [job EXCEPT ![p].err = Tail(@)]
  /\ UNCHANGED <<life, parent, std, files>>

\* fprintf(out, ...), which stops the process when out is NULL
Emit(p) ==
  /\ At(p, "report") /\ job[p].err = <<>>
  /\ IF job[p].dies \/ job[p].dest = Nothing THEN Die(p)
     ELSE Goto(p, "flush") /\ UNCHANGED kernel

(* What was printed is written to the file or the stream in parts, from the    *)
(* fprintf that fills the buffer of out on to the return of main.              *)
Flush(p) ==
  /\ At(p, "flush") /\ job[p].out # <<>>
  /\ job' = [job EXCEPT ![p].out = Tail(@), ![p].wrote = @ + 1]
  /\ IF job[p].dest \in Paths
     THEN /\ files' = [files EXCEPT ![job[p].dest] =
                         Overwritten(@, job[p].wrote, Head(job[p].out))]
          /\ UNCHANGED pipes
     ELSE Write(Head(job[p].out), std[p].out) /\ UNCHANGED files
  /\ UNCHANGED <<life, parent, std>>

Exit(p) == At(p, "flush") /\ job[p].out = <<>> /\ End(p, "exited") /\ UNCHANGED job

Vinumc(p) ==
  \/ ParseCmdline(p) \/ ShowUsage(p) \/ OpenOutput(p) \/ ReadInputFile(p) \/ ReadStdin(p)
  \/ ReadEffects(p) \/ CompileProgram(p) \/ Report(p) \/ Emit(p) \/ Flush(p) \/ Exit(p)

----------------------------------------------------------------------------

(* What one run of vinumc comes to, on files fs and with text on its stdin:    *)
(* how it ends, what it prints and what it leaves in its files.                *)
Outcome(options, fs, stdin) ==
  LET o       == options
      writes  == o.output # Nothing /\ fs[o.output] # Directory
      emptied == IF writes THEN [fs EXCEPT ![o.output] = <<>>] ELSE fs
      program == IF o.input = Nothing THEN stdin ELSE ReadAll(emptied[o.input])
      answer  == Compile(program, Effects(emptied, o.effects))
      killed  == [status |-> "killed", out |-> <<>>, err |-> <<>>, files |-> emptied]
  IN  CASE ~ o.known                -> [killed EXCEPT !.files = fs]
        [] o.known /\ o.usage # Nothing ->
             [status |-> "exited", out |-> <<o.usage>>, err |-> <<>>, files |-> fs]
        [] o.known /\ o.usage = Nothing /\ o.input # Nothing /\ emptied[o.input] = Absent -> killed
        [] OTHER ->
             IF answer.dies \/ (o.output # Nothing /\ ~ writes)
             THEN [killed EXCEPT !.err = answer.err]
             ELSE [status |-> "exited",
                   out    |-> IF writes THEN <<>> ELSE answer.out,
                   err    |-> answer.err,
                   files  |-> IF writes THEN [emptied EXCEPT ![o.output] = answer.out] ELSE emptied]
=============================================================================
