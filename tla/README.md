# Verification of vinum

Vinum is a markup and macro language. `vinumc` reads a document made of text
and of blocks `[name arguments]` (calls) and `[name: body]` (definitions),
replaces every call by the body of the definition it names, and writes the
rest. This directory holds a TLA+ model of the compiler, of the memory it runs
on (vectors, strings and an arena) and of the test runner with the `vinumc`
processes it starts, the TLC configurations that check it and the proofs TLAPS
checks.

Paths below are relative to `src/subprojects/`.

## The system

| component | files | state | operations |
|---|---|---|---|
| AST store | `vinumc/ast.c` | a vector of nodes: type, text, child ids | add, get and set a node, its type, text and children; deep copy |
| scanner | `vinumc/dry_flex.l` | a stack of start conditions, a text buffer, the rest of the source | return the next token, making a node for tokens with text |
| parser | `vinumc/dry_bison.y` | the LALR stack, one lookahead token | shift, reduce, accept, syntax error |
| evaluator | `vinumc/eval.c` | a tree of scopes with their names, the AST it rewrites, the output buffers | `resolve_symbols`, `resolve_calls`, `do_calls`, `eval_node`, `eval` |
| extern library interface | `vinumc/v_lib.c`, `library_loader.c`, `vsl/vsl.c` | the names registered in the base scope | `ctx_get_arg`, `ctx_eval_symbol`, the comment function, loading |
| compiler driver | `vinumc/libvinumc.c` | a context: AST, scopes, arenas | `compiler_parse`, `compiler_eval`, `compiler_compile` with the cocktail pass |
| command line | `vinumc/vinumc.c` | flags, open files | parse flags, read, compile, write |
| vin2dot | `vinumc/vin2dot.c` | none of its own | parse, print the tree as a graph |
| strings, vectors | `vutils/str.c`, `sv.c`, `vec.h` | base, length, capacity, allocator | reserve, put, pop, append, append with blanks reduced |
| allocators | `vutils/allocator.c`, `arena_allocator.c`, `system_allocator.c` | arena: buffer, `free_ptr` | malloc, calloc, realloc, free, free_all |
| file utilities | `vutils/futils.c` | none | read a stream to its end |
| vunit | `vunit/vunit.c` | a jump buffer, the child's pipes | run the tests of a suite, run `vinumc` as a child process |

How they interact. `yyparse` calls the scanner for each token; both make nodes
in the AST of the same context. The evaluator owns the AST once `yyparse` has
returned, whatever `yyparse` returned. It calls library functions while it
writes the result, and those call back into it (`ctx_eval_symbol` resolves and
writes a definition's body in the scope it is given). Scopes are held by index,
but `resolve_calls_call` also holds a pointer into the vector of scopes. Nodes
are named by id, and a body may come to be a child of many calls. A second pass
(`-e`, the cocktailing libraries) reads the text the first one wrote. Nodes and
scopes live in vectors whose memory is an arena of fixed size that aborts the
process when it is full.

### What is hard

A compilation is one thread that never waits. What is hard in it is the order of
things in a deep recursion over shared, mutable structures:

* the AST is rewritten while it is walked: a call with arguments gets a copy of
  the body, a call without shares the body itself;
* a call is looked up in the scopes three times: to find its scope, by child
  and node (`eval.c:283`), to find its meaning, by name (`eval.c:219`), and to
  find the context of an extern function, by node alone (`eval.c:358`): the
  three must agree;
* names computed by calls are resolved and written in the middle of resolution;
* the scanner's start conditions must follow a parser that is one token ahead
  of it or level with it, depending on the reduction;
* a syntax error leaves a partial tree that is then evaluated;
* the arena's realloc copies more bytes than the old block has;
* the vector macros compute sizes in `size_t`, round them with shifts that wrap,
  and do not look at what realloc returns.

The test runner is concurrent: each test runs `vinumc` as a child, with pipes to
its standard streams. There it matters who holds which end of a pipe (a reader
comes to the end of the text only when nobody can write any more), who waits for
whom (the parent writes all the input, then waits, and only then reads), which
child `wait` returns, and what a failed assertion leaves behind, because it
leaves the test by `longjmp` with processes running and pipes open.

`PROJECT.json` lists each hazard at its line, and the properties that would
fail if it went wrong.

## The modules

| module | models | state and actions |
|---|---|---|
| `Ast` | `ast.c` | `nodes`, a sequence of records; operators for each `ast_*` function, ids counted from 1 |
| `VutStr` | `str.c` | blank reduction of one append to a buffer; lowercasing of the names in use |
| `Lexer` | `dry_flex.l` | `source` (what is left), `conds`, `textBuffer`, `token`; one action per rule or group of rules that differ in lookahead only |
| `Parser` | `dry_bison.y` | `stack`, `parsing`; one action per production, `Shift`, `Accept`, `SyntaxError` |
| `Reader` | `compiler_parse` | composes the two on one source |
| `Eval` | `eval.c`, `v_lib.c`, `vsl.c` | `scopes`, `agenda`, `outs`, `fault`; one action per function or branch |
| `Compiler` | `compiler_compile` | composes `Parser` and `Eval`, twice with a cocktail |
| `Expansion` | nothing in the code | what a program means, stated on its tree: the reference for `Eval` |
| `Allocator` | `allocator.h`, `allocator.c` | the abstract allocator: what each client's block contains |
| `Arena` | `arena_allocator.c` | `mem`, `freePtr`, `block`, `status`; bytes and addresses |
| `Vec` | `vec.h`, the string operations of `str.c` | `block`, `len`, `capacity`, `allocator` of one vector, `given`; one action per macro or function |
| `Contents` | nothing in the code | the abstract vector: the sequence of what was put |
| `Processes` | the kernel, as far as `vunit.c` and `vinumc.c` use it | `life`, `parent`, `std`, `pipes`, `files`; pipe, fork, dup2, close, read, write, exit |
| `CommandLine` | `vinumc.c`, `futils.c` | `job` of each process that is `vinumc`; one action per step of `main`; `Outcome`, what a run comes to |
| `Harness` | `vunit.c` | `run` of each process that is the runner, `tap`; one action per step of `__vunit_main` and `vunit_run_vinumc` |
| `ArenaProofs`, `VecProofs` | | the theorems about `Arena` and `Vec` |
| `ParserProofs`, `ReaderProofs` | | what a step of the parser keeps; the theorems about `Reader` |
| `EvalProofs`, `CompilerProofs` | | lemmas on texts, lookup, nodes, scopes and agenda; the theorems about `Compiler` |
| `HarnessProofs`, `OutcomeProofs` | | who holds which end and who is whose child; what a run of `vinumc` comes to; the theorems about `Harness` |
| `MC*` | | sources, programs and libraries for TLC |

**Reader.** The scanner's rules match by longest text, then by order; each
action's guard says when its rule wins. A lookahead (`r/s` in flex) is part of
the guard. The parser is written as the automaton the grammar has: a reduction
is taken when the top of the stack and the lookahead allow it, and the
lookahead is read only in the states where bison reads it, which is what
decides the start condition the scanner is in. The pushed-back character of
`yyless(0)` is simply not consumed.

**Eval.** The C functions call each other recursively; the model keeps what is
left to do as a stack of frames, `agenda`, the next one first. A frame is an
activation: its function, its scope, its node. A loop over a node's children
pushes a frame for each of them at once, which is the same because no step
changes the child list of a node that an active loop walks. A function that
goes on after a call pushes its rest (`bind`, `instantiate`, `close`, `invoke`,
`returned`) behind the frames of the call. The argument list that a copy of a
body takes in place of `$*` is the call's own node, not a copy, as in the code.

What stops the process is kept in `fault`, with one value for each way: the two
assertions, a NULL that is dereferenced (`BadFunction`, `BadSymbol`), a read
through a pointer into a reallocated vector (`StaleScope`, a choice: the read
may also find the old place), and a full arena. History variables, `boundIn`
(the scope a call was last resolved in) and `parsed` (the tree before
evaluation), are only read by properties.

**Arena.** A client is a vector or a string, with the one pointer it holds.
`Allocator` knows clients and the contents of their blocks; the refinement
mapping of `Arena` reads the contents from the bytes at the client's pointer.

**Vec.** A size is a natural below `2^Width` and every sum is taken modulo it. A
block is the sequence of the whole elements it has room for; a fresh element
holds `Junk`. Realloc may answer with a block, with NULL (the system's, at any
time) or not at all (the arena aborts). The macros store without looking: `Store`
is where the process is stopped by a null pointer or writes outside. A vector
does not ask for more than is in memory (`Together`): what is put lies in memory
beside what is held, and memory is less than half of the addresses.

**Harness.** The runner and `vinumc` are one pool of processes: `fork` copies a
runner, `execvp` makes it a `vinumc`, and when `execvp` finds none, the child goes
on as a second runner, as in the code. The steps are the system calls; what a
process does between two of them is one step with the one before. A pipe has a
bounded buffer and the set of processes that hold each end. `Conclude` keeps with
each verdict, as history, what the test's run should have come to (`Outcome`).
What `fprintf` prints (`vinumc.c:265`) goes out chunk by chunk, one `Flush` for
each, because stdio writes when its buffer is full and what is left when `main`
returns: a file can be seen with a part of its text. A `vinumc` writes at its own
offset, so a file that another emptied in between has a hole (`Gap`).

**Expansion.** A name means what the nearest block that defines it says. The
arguments of a call are a block of their own, nearer than the body they are given
to, and the libraries' functions are the farthest. Within one block the last
definition of a name is meant; see "Two definitions of a name" below.

## The runs

| run | instance | shows |
|---|---|---|
| `reader` | every source of up to 5 of 6 pieces (brackets, a name, a colon, text, `$*`), and a block opened with `[a ` followed by up to 4 of 8 characters | well-shaped and complete trees that spell every accepted source, agreement of scanner and parser, text kept whole, termination |
| `expansion` | two definitions with up to two words each, arguments nested in calls, local definitions, library functions; no body is shared, and no block has two different definitions of a name | every program finishes without a fault, and its output is its meaning; definitions are not changed by being called |
| `sharing` | two definitions that call themselves and each other, by name and by computed name, with and without arguments; three syntax errors | the scope tree, order of the passes, the program kept as it was written, functions found again, buffers, blanks, termination |
| `cocktail` | documents with undefined calls, a library of two definitions | every program gets through both passes; what the first leaves is read back as the same calls |
| `arena` | two clients, blocks of 0 to 3 bytes, a buffer of 7 bytes at address 3, alignment 2 | blocks apart, reads in bounds, refinement of `Allocator` |
| `vector` | `size_t` of 6 bits, elements of 4 bytes, memory for 7 of them, up to 2 put at once, either allocator | sizes never wrap into a write outside the block; the shifts round up; refinement of `Contents` |
| `harness` | every pair of 5 tests with 15, and one of three; pipes of 2 chunks; with and without a `vinumc` to execute, any `fork` may fail | verdicts, what is read back, output files while they are written, ends of pipes, who prints, termination |
| `fork_unchecked` | the same | the finding about `fork` |
| `symbol_assert`, `name_assert`, `callee_context`, `eval_symbol` | two programs each, one that is fine and one that is not | the four findings |

**Bounds, and why they are enough.** In `reader`, five pieces reach a block
within a block with a name, a colon and a body, a block as a name, and every
syntax error one token can make; the scanner's rules look at three characters
at most, and four characters reach every rule of a block's text, escapes and
literals cut off by the end of the source included. In the runs of the
evaluator a program has two definitions and one use, which gives call depths of
four, bodies shared by three calls, a definition before and after its use, the
same name in two blocks, and recursion through one and two definitions.
`MaxNodes` and `MaxScopes` stand for the size of the arenas: in `expansion` and
`cocktail` they are never reached (`OutputIsMeaning` and `CocktailResolved` say
that every program finishes without a fault), in `sharing` they are, by the
programs that recurse. In `arena` the buffer starts unaligned and has room for
four blocks at most, so each request meets padding, an exact fit and a refusal.
In `vector`, 6 bits put the largest request one doubling below the wrap, where
the code's safety rests; `RoundsUp` looks at every value of the word. In
`harness` a pipe of two chunks is shorter than the longest input, output and
file text (three), so that writers wait, are cut short and lose their reader;
two tests are enough for what one leaves to the next, and three for a verdict
that is wrong because of the test before the last. `Pids` is more than a suite
of three can fork, second runners included, so `fork` fails by choice only.

**Deadlock** is checked in every run but `arena`, where the process ends after
the assertion or the release, and the two of `Harness`, where the suite ends, and
where a run whose output fills a pipe really is stuck (`Clogged`): `SuiteEnds`
says that there is no other way to stop, and so does not object to this one. In
the others the end of a compilation is a stuttering step of its own.

**Fairness.** `Reader` and `Compiler` assume weak fairness of the whole
next-state relation: the process is one thread that never waits for anything,
so it takes a next step while there is one. `ReadingEnds` and `Terminates` rest
on it. No fairness is assumed of a single action. `Harness` assumes weak fairness
of each process: the kernel schedules every process that can run, and one that
waits in a system call goes on once the call can return. Nothing is assumed of
which process is scheduled first, nor that a `fork` succeeds.

`BlanksReduced`, `OutputIsMeaning` and the others are of the evaluator as it
is called by the program, which always asks for blank reduction.

`RunIsOutcome` and `VerdictsRight` leave out what follows a test whose input was
cut short, and this is needed: with `Long` (a `vinumc -h` that never reads an
input longer than a pipe) before two other tests, a child that was left behind is
taken for the next one, and the last test passes on a file that its own run has
not written yet. `OutputInOrder` leaves out the same and for the same reason: the
child left behind may still be writing a file that a later test makes or has
written. The ideal run that `RunIsOutcome` compares with reads files with the same
`ReadAll` as the model: what a read error is turned into (`futils.c:24`) is not
put to question. `TreeSpellsSource` compares without the markup characters, so it
is about texts and names, not about brackets and colons.

**Two definitions of a name.** `namespace_find_name` (`eval.c:76`) takes the first
entry of a name in a scope. Two tests want the last: `test_redefinition`
(`vinumc/tests/functions_test.c:39`, "Redefinition: last binding wins") and
`test_declarative_last_wins` (`vinumc/tests/expansion_test.c:14`, "Declarative
scope: last definition wins"). Both are marked `todo` and "not implemented"
(`functions_test.c:59`, `expansion_test.c:42`), as is
`test_lazy_binding`, which needs it too, so the repository knows of the
difference and no finding is made of it. `FindName` does what the code does,
`Expansion` means what the tests say, and on `[v:2][v:3][v]` the two disagree: the
program writes 2. The programs of `expansion` define a name twice in one block
only with the same body, and never define the name of a library function (the
entries of which come first in the base scope, so that the code takes these), so
`OutputIsMeaning` says nothing of either case. What the programs do have is an
argument and the called body that define the same name. The code puts both in the
scope of the call, the argument's first; `Expansion` reads them as two blocks, the
argument the nearer, because an argument is there to bind a name that the body
uses (`functions_test.c:20`, "Optional argument via nested binding"). The tests
do not have this case. Were the last to win across the whole scope, a definition
in the body would hide the argument's. That a first entry stays the first is
what `NamedCallsSafe` rests on today; its mutant `CalleeLast`, where only the
second of two lookups takes the last entry, shows that a change to the last has
to be made in both.

### Findings

* `symbol_assert`: `[f:[g]][f][f]` with `g` undefined aborts. A call without
  arguments shares the body; resolving it a second time finds the symbol of the
  inner call already marked `UNDEFINED`, against the assertion of
  `vinumc/eval.c:196`. The same happens with a library function in the body.
* `name_assert`: `[[a:t]]`, a definition where a name is expected, is accepted
  by the grammar and fails the assertion of `vinumc/eval.c:208`.
* `callee_context`: an extern function called from a shared body gets the first
  scope made for the node of its call, although `docs/library_development.md:26`
  promises the "callee context". In `[a:[e]][u [e:L][v:2][a]][v:3][a]`, where the
  library's `e` evaluates `v`, the two `[a]` share the body `[e]`. The first is
  written under `u`, in the scope that was made there, and gives 2. When the second
  is written, `e` runs in that scope again, under `u`, and would give 2 where `v`
  is 3: this is the state in which TLC finds `CalleeContext` violated.
* `fork_unchecked`: the assertion that says "fork" looks at the result of `pipe`
  (`vunit/vunit.c:278`). When `fork` fails, -1 is taken for a child: `wait` returns
  -1 too, the status is not written, and a test that expects no output may pass.
* `eval_symbol`: `ctx_eval_symbol` of a name that no scope defines dereferences
  NULL (`vinumc/v_lib.c:15`).

## What is proved

`ArenaProofs`, for every set of clients, sizes and byte values, every base
address, buffer size and alignment that satisfy `ArenaAssumption` (the base is
not 0, the alignment is positive, 0 is a byte value, sizes are naturals):

* `TypeCorrect`: the variables stay in their types, so `free_ptr` in the buffer;
* `BlocksPlaced` and `BlocksApart`: blocks are aligned and below `free_ptr`, and
  no two share a byte;
* `ReallocReadsInside`: the bytes realloc reads, past the old block's end, lie in
  the buffer;
* `Refinement`: the arena implements `Allocator`.

The inductive invariant is `IInv`, the conjunction of `TypeOK`,
`BlocksInBuffer` and `BlocksDisjoint`. Disjointness alone is not inductive: a
fresh block is disjoint from the old ones because they all end at or below
`freePtr` (`BlocksInBuffer`) and the fresh one starts above it
(`AlignUpFacts`). `OverReadInBuffer` follows from it without being part of it:
the new block lies after the old one, so as many bytes counted from the old
block end before the new one does, which is in the buffer. The refinement shows
for each action that the contents of the other clients' blocks are untouched
(`OthersKept`), and for realloc that each byte that is moved is read from where
it still is (`OldAddress`): the old and the new block do not overlap.

`ReaderProofs`, for every set of sources over every alphabet that satisfies
`SourcesAssumption` (the sources are finite sequences over `Characters`, which
has the small letter of each of its characters):

* `TypeCorrect`: the variables stay in their types;
* `TreeWellShaped`: every node has the children that the evaluator reads without
  a bound check, at every moment and also when a syntax error stops the parser;
* `TextNeverOvertaken`: no token is returned while text waits in the buffer;
* `ScannerInStep`: whenever the parser asks for a token the scanner is in the
  start condition that the grammar asks for, one for every open block;
* `NodesPlacedOnce`: every node is a child of one node, or waits on the stack or
  in the token, and only once, so no list is put in two places;
* `TextsApart`: no list has two texts as neighbours;
* `TreeSpelled`: the tree of an accepted source spells the source: no text is
  dropped, read twice or put out of order, escapes and literals included.

The shape of a new node depends on what the symbols under it stand for, and so
on the whole of the parser's stack. `ParserInv` (of `ParserProofs`, because the
compiler needs it too) says that: the nodes are a tree
(`Tree`: children are nodes of it, each node has its shape), each symbol on the
stack and the lookahead token stand for a node of their type (`StackInv`,
`TokenInv`), and what `Follows` says of the symbol under each: a `]` is over a
name or a list, a `:` over a name, a name over a `[`. The last part lets the
reduction of a definition, which only tests for the `:`, find the name, the list
and the `[` where it takes them from. Every action makes the tree grow
(`Grows`): no node is lost or changes its type and no name becomes empty, so
what stood for a node still does (`StandsKept`), and an action only has to show
the shape of the one node it adds or changes. The text buffer has an invariant
of its own, `BufferInv`: while it holds a text, the scanner is in a body and
what is left of the source does not end the text, so no other rule matches.

`Shape` also says that the parser marks no name as a function or as undefined,
which is where the proof about calls by name (below) starts.

The other four have an inductive invariant each. `ScanInv` compares the two
stacks: each open block stands on the condition it was read in, and the current
conditions are those of what is on top of the parser's stack, moved on by the
token that waits; a literal that the end of the source cuts off is the one case
where they differ, and then no token follows.
`OnceInv` gives each node one place (child of a node, item of the stack, token),
which each action either keeps or moves. `TextInv` says that a text in the token
or at the top of the stack has ended: what is left of the source does not start
with more of it, so the next item is not a text. `SpellInv` is for
`TreeSpelled`: what the items of the stack spell, then the token, the text
buffer and the rest of the source, all without markup, is the program without
markup, at every moment until a syntax error. What a node spells is a recursive
function of its tree; each reduction is shown to spell what the items it
replaces did, and each rule of the scanner to take from the source markup or
what it puts in the token or the buffer. At the end (`RootInv`) the root is all
there is.

`CompilerProofs`, for every set of programs, cocktail text, list of extern
functions and size of the two arenas that satisfy `CompilerAssumption` (programs
and names are sequences over `Characters`, an extern function has no body):

* `TypeCorrect`: the ids kept in nodes, scopes, entries and activations are those
  of nodes and scopes that are there, through every growth and in both passes;
* `ScopesFormTree`: the scopes stay a tree with fathers first;
* `BuffersOwned`: every output buffer is waited for by one call;
* `AlwaysReduced`: no output has two blanks together, or one at its start;
* `CallsResolved`: `do_calls` never meets a call that was not resolved, so no call
  is dropped without a trace;
* `ProgramAlwaysKept`: of the nodes the parser made, evaluation changes the calls
  that were bound and the names of these, and nothing else;
* `NamedCallsAlwaysSafe`: only a computed name leads to a function that is NULL, a
  scope that moved or a name that is no call.

The invariant `IInv` is `ParseInv` while a pass is read, `EvalInv` once it is
evaluated. None of the first four theorems is inductive alone, and the way from
one to the next is the argument:

* A step of the evaluator reads the children of a node without a look at how
  many there are. So every node must be `Complete`, which the parser's shape
  gives at the start (`ParsedNodes`) and marking a symbol, adding a child or
  replacing one keeps (`Later`). A copy under way breaks it: its nodes lack the
  children not copied yet. `Filling` says that what a node lacks is on the agenda
  as a `copy` frame, and `CopiesInv` that these frames are all in front, so no
  other function runs before the copy is whole (`QuietFacts`).
* A copy must not read what it writes: `SourcesApart` says that the nodes being
  copied are all older than the root of the copy, and know only older nodes.
* The agenda's frames have their node, and their scope where they use one
  (`FrameInv`); both only ever grow, so a frame that waits stays good
  (`FrameInvKept`).
* The scopes are typed and a tree (`ScopesInv`); a name found by climbing them is
  therefore an entry of a scope, and its body a node (`Found`).
* The buffers are one more than the `Owners` on the agenda; each step is shown to
  add and remove as many buffers as owners (`Stepped`).
* A buffer is `Tight`. Reduced writes keep it so (`PutBlankReducedFacts`);
  `do_calls_undefined` writes bare, and for it the invariant says that no name has
  a blank (`NamesClean`), which the scanner starts (`LexNames`).

`CallsResolved` needs more, because a call waits for its turn through copies,
shared bodies and computed names, and nodes change under the frames that wait.
The added invariant, `Resolved`, is about what a `do_calls` frame is going to
read, not about its node. The frame is `Covered`: some set of nodes holds the
frame's node and is closed under the children `do_calls` goes to, all its calls
are bound, and where it is not closed yet the node is `Pending`, that is, a
`resolve_calls`, `bind` or `instantiate` frame for it comes before. A step may
resolve a pending node, which then has to be closed over pending ones in its
turn (`CoverStep`), or change the children of one node; it must not be a node of
the set, except for the one the step resolves, and so the nodes that copies under
way are going to fill are kept out of every set (`Targets`). The arguments of a
call are its second child and of type `ARGS` (`ArgsSecond`), and so is every body
(`BodiesArgs`) and copy of one (`CopiesTyped`): this is why what replaces
arguments is resolved like them. What is written is `Whole`: covered with nothing
pending.

`ProgramAlwaysKept` adds `ProgramInv` to these. A step changes children in three
places only: the call that is bound (`BindsTo`), the node a copy is made in, and
the copy whose `$*` are filled. So no node of the program may wait for children
(`TargetsApart`): what waits was made after the parser ended. And the name that
binding marks is the first child of the call: a call that was copied must have a
name that was copied too (`NamesApart`), or resolving the copy would mark the
name of a call that was not bound.

`NamedCallsAlwaysSafe` is about what is looked up twice. `resolve_calls_call`
finds a function from the scope of the call and marks the name; `do_calls` finds
it again, later, from the base scope and by the text of the name, and does not
look at what it finds. `NamedInv` says why it is a function again, in a program
without computed names: a name marked as a function is one whose first entry in
the base scope is a function (`FunctionsFound`), because functions are registered
there and nowhere else (`ExternsInBase`); the first entry of a name wins, so a
definition that comes later does not hide it (`FindNameAppended`); a node keeps
its text and a call its first child, in copies too (`TextsKept`, `NamesFrom`);
and the frames that wait for a function stay those of such calls
(`RunsFunctions`). No name is empty (`NamesWritten`), so none is computed, and no
pointer to a scope is kept across a resolution (`BindsNamed`).

The operators defined by recursion (`FindSymbol`, `Capacity`, `PutBlankReduced`)
are recursive functions; that each exists, on the scopes or lengths at hand, is
proved by the least element at which it would not (`ClimbExists`,
`DoublingExists`, `LoopExists`).

`VecProofs`, for every width, element size, memory and set of values that satisfy
`VecAssumption` (the powers of two are what they are called, an element fits in
memory, memory is less than half of the addresses):

* `TypeCorrect` and `NoWildWrites`: no element is written outside the block;
* `TerminatorFits`: what `vut_str_put_*` reserves has room for the terminator;
* `Refinement`: the vector implements `Contents`, so growth keeps its elements.

The inductive invariant adds `Sound` to the types: the block has exactly
`capacity` elements, or is NULL because the system refused memory. It rests on `Together`: the sum of
the sizes is less than half a word, so neither it nor its product with the size
of an element wraps, and the power of two above it is still a word
(`RoundUpFacts`).

`HarnessProofs` and `OutcomeProofs`, for every suite, set of processes, set of
files, size of a pipe and list of chunks that satisfy `ProcessesAssumption` and
`HarnessAssumption`, and for every compiler that answers two texts and a boolean
to texts (`CompileAnswers`):

* `TypeCorrect`: no pipe is overfull or held by a process that has ended, and a
  runner has one verdict for each test it is done with;
* `PrintedOnce`: one process prints the results of the suite, although a child
  that does not become `vinumc` returns from `main` as well;
* `EndsClosed`: a runner back in its loop holds no pipe of a test it is done with,
  unless the input of one was cut short;
* `WrittenInOrder`: while a `vinumc` writes its output file, what is in the file
  and what it has left to write are the text its compiler answered, unless the
  input of an earlier test was cut short;
* `ReadsOutcome`: what the runner reads back is the outcome of one run of `vinumc`
  on the input and files of the test, for every interleaving and size of pipe;
* `JudgesRight`: the verdicts are right up to the first test whose input was cut
  short, and only an input longer than a pipe is.

The invariant of the first three says who can touch what. `KernelInv` relates the
holders of each end to the descriptors of the processes, `FamilyInv` and
`ChildrenInv` who is whose child, `RootInv` that the first runner is nobody's,
`StreamInv`, `EndsInv` and `KidInv` which pipe each process has for its streams
at each stage of a run (`HeldInv` those it must still hold), and so that the runner and
one child are alone on the pipes of the run; `JobInv` says what a `vinumc` has
read and answered at each stage, `DestInv` that the file it
prints to is there, and `WriteInv` what was sent of the input. `ChildrenInv`,
`EndsInv` and `KidInv` hold of a runner none of whose inputs was cut short
(`Clean`): a test that fails the assertion on its write leaves by `longjmp` with
a child behind, and nothing is known from there on.

`OutcomeProofs` adds `WholeInv`. From each stage of a `vinumc` the rest of its
run is given as a function of what it has and what is still in its pipes
(`From`), and the invariant is that this is what the ideal run (`Outcome`) comes
to (`Comes`): each step of the child, and each read and write of the runner, takes
it from one stage to the next without a change of the end. When the child is
gone, what is in its two pipes, its status and the files are the outcome.
`PlacesInv` is for the file being written: the part in the file is as long as
`wrote`, so the next write goes to its end, and nobody else has the file open,
because the runner has one child and waits for it before it makes files again.

### Only model-checked

* That the shifts of `RESERVE` compute `RoundUp` (`RoundsUp`): for 6 bits. The
  prover has no operations on bits.
* Liveness (`ReadingEnds`, `Terminates`, `SuiteEnds`), which the prover does not
  handle under fairness.
* `OutputIsMeaning` and `DefinitionsIntact` are recursive over trees, and need an
  induction over data (`ProgramAlwaysKept` proves of every program that
  evaluation changes nothing in a body but its calls and their names). `CocktailResolved`
  and `UndefinedSurvives` speak of the tree and the text of both passes in the
  same way, and, like `OutputIsMeaning`, of programs that fit in the arenas.
* `RunsWhereResolved` is true of the programs of the run, which share no body, and
  not of every program: the one of `callee_context` is an exception.
* `CallScopeFound` is true of the programs of the run and not of every program.
  The scopes of a body's calls are made before the body is resolved, but in
  between the body may change: a definition called without arguments has one
  body for all its calls, a call in it can be bound again under another scope,
  and what is bound to it there has no scope under the other. In
  `[b:[w [k:[z]][a]][a]][w:$*][z:q][u [a:[k]][k:y][b]][b]` the body of `b` is
  shared, and the `[b]` in `u` binds its two `[a]` to one body with one `[k]`. The
  last `[b]` walks down through both `[a]`, not defined there, to that `[k]`:
  under the first, `k` is defined and `[k]` gets a new copy, for which there is no
  scope under the second. The model, and `eval.c` compiled and run on this tree,
  report "Could not find call scope" (`eval.c:289`). A computed name that calls a
  library function which evaluates symbols also gives bodies children out of
  turn. `CallsResolved` does not rest
  on `CallScopeFound`: a call without a scope of its own is resolved in the scope
  where it stands, as `CallScope` says, and its text is written.
* `DefinedBeforeBound`, of programs without computed names, is true of the
  programs of the run and of the one above. A proof has to tell the names a scope
  gets when a body is bound from those it gets when a shared body is walked again;
  the invariant that does was not found.

## What is not modelled

* Wide characters: names and texts are sequences of one-byte characters, and
  lowercasing is a map on the letters in use.
* `BLANKS` differ in the code between rules (a newline before a colon does not
  join it to the name); the runs use the space only.
* The wrapping of `bytes * times` and of pointers; `Arena` takes requests as
  their product.
* The wording of "Could not find call scope": the model goes on as the code does,
  in the scope where the call stands. An entry without a body
  (`as.ast_node_id < 0`): the grammar has no definition without one.
* Escaped brackets, literals and computed names in documents for the cocktail
  pass: they are written bare and read back as markup, see the hazards.
* `vin2dot`, `ast_print`, `eval_dot`, the wording of messages and of the TAP
  lines: output.
* Of `vinumc.c`, how options are spelled and `-w`; a run gets the result of the
  parse. Read errors other than that of a directory, and writes that fail because
  a disk is full. A file is read in one step, though written in several.
* Of `vunit.c`, tests that run `vinumc` more than once, look at its status
  themselves, or ask for no output or error; `pipe` and `dup2` failing, which
  they do when the process or the system has no descriptors left.
* `vutils_tests`, `vinumc_tests`: they are the tests of the modelled code.

## Plan

Done, in this order: `Ast`, `Lexer`, `Parser`, `Reader` (the front end); `Eval`,
`Compiler` (the core); `Expansion` as its reference; `Allocator`, `Arena` and
their proofs; the proofs of `Reader`; `Vec`, `Contents` and their proofs;
`Processes`, `CommandLine` and `Harness`; the proofs of `Compiler`; those of
`Harness`; agreement of scanner and parser, one place for each node, texts apart
and the source spelled of `Reader`; every call resolved, the program kept and
calls by name safe of `Compiler`.

1. Computed names and literals in the cocktail pass, as a run of its own.
2. The programs, without computed names, of which `CallScopeFound` holds, and a
   proof of `DefinedBeforeBound`.
