----------------------------- MODULE Processes -----------------------------
(* What the kernel does for the test runner and the compiler: processes with   *)
(* their pipes, and files.  A text is a sequence of chunks.                    *)
EXTENDS Naturals, Sequences, FiniteSetsExt

CONSTANTS
  Pids,       \* 1 is the process that the suite is started as
  Runs,       \* the numbers of the tests of a suite
  Chunks,     \* what texts are made of
  Gap,        \* what a file has where nothing was written
  PipeSize,   \* how many of them fit in a pipe
  Paths,
  Absent,     \* a path with no file
  Directory,  \* a path that is opened but not read, and not opened for writing
  Terminal,   \* where the standard streams of the suite lead
  Nothing     \* NULL

ASSUME ProcessesAssumption ==
  /\ 1 \in Pids /\ Pids \subseteq Nat /\ IsFiniteSet(Pids)
  /\ Runs \subseteq Nat
  /\ PipeSize \in Nat \ {0}
  /\ Gap \in Chunks
  /\ Terminal \notin Paths \union Pids \X Runs \X {"in", "out", "err"}
  /\ Nothing \notin Paths /\ Nothing # Terminal

VARIABLES
  life,     \* of a process: "free", "alive", a zombie that "exited" or was "killed", "reaped"
  parent,   \* its parent
  std,      \* where its stdin, stdout and stderr lead
  pipes,    \* the chunks in a pipe, and the processes that hold its ends
  files     \* the text of each path

kernel == <<life, parent, std, pipes, files>>

\* A runner opens three pipes for each test that it runs
PipeIds == Pids \X Runs \X {"in", "out", "err"}

Text == Seq(Chunks)
FileTexts == Text \union {Absent, Directory}

NoPipe == [data |-> <<>>, readers |-> {}, writers |-> {}]

\* pipe(2) for each of ids, by process p
Opened(ps, p, ids) ==
  [i \in PipeIds |-> IF i \in ids THEN [NoPipe EXCEPT !.readers = {p}, !.writers = {p}] ELSE ps[i]]

\* close(2) by p of the read end of each of rx, and of the write end of each of tx
Closed(ps, p, rx, tx) ==
  [i \in PipeIds |-> [ps[i] EXCEPT !.readers = IF i \in rx THEN @ \ {p} ELSE @,
                                   !.writers = IF i \in tx THEN @ \ {p} ELSE @]]

\* fork(2): the child c has the ends that p has
Shared(ps, p, c) ==
  LET also(holders) == IF p \in holders THEN holders \union {c} ELSE holders
  IN  [i \in PipeIds |-> [ps[i] EXCEPT !.readers = also(@), !.writers = also(@)]]

Zombies(p)  == {c \in Pids : parent[c] = p /\ life[c] \in {"exited", "killed"}}
Children(p) == Zombies(p) \union {c \in Pids : parent[c] = p /\ life[c] = "alive"}

\* The end of a process closes what it has open
End(p, how) ==
  /\ life' = [life EXCEPT ![p] = how]
  /\ pipes' = Closed(pipes, p, PipeIds, PipeIds)
  /\ UNCHANGED <<parent, std, files>>

(* A chunk is written to where a stream leads: it waits while the pipe is      *)
(* full; with no reader it is lost, SIGPIPE being ignored.                     *)
Write(chunk, to) ==
  IF to = Terminal \/ pipes[to].readers = {} THEN UNCHANGED pipes
  ELSE /\ Len(pipes[to].data) < PipeSize
       /\ pipes' = [pipes EXCEPT ![to].data = Append(@, chunk)]

\* write(2) of a chunk behind the first n of a file
Overwritten(text, n, chunk) ==
  [k \in 1..(IF n < Len(text) THEN Len(text) ELSE n + 1) |->
     IF k = n + 1 THEN chunk ELSE IF k <= Len(text) THEN text[k] ELSE Gap]

AtEof(from) == pipes[from].data = <<>> /\ pipes[from].writers = {}

\* What is in a pipe is read at once
Drain(from) ==
  /\ pipes[from].data # <<>>
  /\ pipes' = [pipes EXCEPT ![from].data = <<>>]
=============================================================================
