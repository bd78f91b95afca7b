----------------------------- MODULE MCHarness -----------------------------
(* Suites of two tests, and one of three, over a program text of chunks, a     *)
(* source, an effect and an output file, with pipes of two chunks.             *)
EXTENDS Harness

CONSTANTS srcFile, libFile, outFile, dirFile

(* The compiler as its caller sees it: the text of the program and what the    *)
(* cocktail adds to it; a chunk "bad" is reported and gives no text, and "boom"*)
(* fails an assertion.                                                         *)
MCCompile(program, cocktail) ==
  [out  |-> IF Contains(program, "bad") THEN <<>> ELSE program \o cocktail,
   err  |-> IF Contains(program, "bad") THEN <<"error">> ELSE <<>>,
   dies |-> Contains(program, "boom")]

MCFiles == [f \in Paths |-> IF f = dirFile THEN Directory ELSE Absent]

Plain == [known |-> TRUE, usage |-> Nothing, input |-> Nothing, output |-> Nothing, effects |-> <<>>]
Basic == [skip |-> FALSE, writes |-> <<>>, input |-> Nothing, options |-> Plain, out |-> <<>>,
          checks |-> Nothing, text |-> <<>>]
OnFiles == [Plain EXCEPT !.input = srcFile, !.output = outFile]

Piped  == [Basic EXCEPT !.input = <<"x">>, !.out = <<"x">>]
Wrong  == [Piped EXCEPT !.out = <<"y">>]
Empty  == [Basic EXCEPT !.input = <<>>]
Bad    == [Basic EXCEPT !.input = <<"bad">>]
Boom   == [Basic EXCEPT !.input = <<"boom">>]
Long   == [Basic EXCEPT !.input = <<"x", "x", "x">>, !.out = <<"help">>,
                        !.options = [Plain EXCEPT !.usage = "help", !.output = outFile]]
Big    == [Basic EXCEPT !.input = <<"x", "x", "x">>, !.out = <<"x", "x", "x">>]
Filed  == [Basic EXCEPT !.writes = srcFile :> <<"x">> @@ libFile :> <<"e">>,
                        !.checks = outFile, !.text = <<"x", "e", "e">>,
                        !.options = [OnFiles EXCEPT !.effects = <<dirFile, libFile, libFile>>]]
Stale  == [Basic EXCEPT !.input = <<"z">>, !.checks = outFile, !.text = <<"x", "e", "e">>,
                        !.options = [Plain EXCEPT !.output = outFile]]
Missed == [Basic EXCEPT !.checks = outFile, !.options = [OnFiles EXCEPT !.input = libFile]]
Alias  == [Basic EXCEPT !.writes = srcFile :> <<"x">>, !.checks = srcFile,
                        !.options = [OnFiles EXCEPT !.output = srcFile]]
InDir  == [Basic EXCEPT !.checks = outFile, !.options = [OnFiles EXCEPT !.input = dirFile]]
OutDir == [Basic EXCEPT !.input = <<"x">>, !.options = [Plain EXCEPT !.output = dirFile]]
Option == [Basic EXCEPT !.options = [OnFiles EXCEPT !.known = FALSE]]
Skipped == [Basic EXCEPT !.skip = TRUE]

Tests == {Piped, Wrong, Empty, Bad, Boom, Long, Big, Filed, Stale, Missed, Alias, InDir,
          OutDir, Option, Skipped}
Firsts == {Piped, Boom, Long, Big, Filed}
MCSuites == {<<first, second>> : first \in Firsts, second \in Tests} \union
            {<<Long, Filed, Stale>>}
=============================================================================
