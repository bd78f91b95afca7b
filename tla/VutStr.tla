------------------------------ MODULE VutStr ------------------------------
(* The text operations of vutils/str.c and sv.c the compiler uses.  A text is  *)
(* a sequence of characters.                                                   *)
EXTENDS Naturals, Sequences, FiniteSetsExt, SequencesExt

Blanks == {" "}   \* is_blank_char: a space stands for every blank character

\* The length of the longest prefix of s whose characters are all in S
RunLength(s, S) == Max({n \in 0..Len(s) : \A i \in 1..n : s[i] \in S})

TrimLeft(s)  == SubSeq(s, RunLength(s, Blanks) + 1, Len(s))
TrimRight(s) == Reverse(TrimLeft(Reverse(s)))

\* Mutant of PutReduced: the blank "to" ends in is not looked at
PutReducedAlone(to, c) == IF c \in Blanks /\ to = <<>> THEN to ELSE Append(to, c)

\* One character of the loop of vut_str_put_blank_reduced_sv
PutReduced(to, c) ==
  IF c \notin Blanks                               THEN Append(to, c)
  ELSE IF to = <<>> \/ to[Len(to)] \in Blanks      THEN to
  ELSE Append(to, " ")

(* vut_str_put_blank_reduced_sv: from is trimmed where asked, then appended    *)
(* with each run of blanks, the one to may end in included, made one space.    *)
PutBlankReduced(to, from, trimLeft, trimRight) ==
  LET left    == IF trimLeft THEN TrimLeft(from) ELSE from
      trimmed == IF trimRight THEN TrimRight(left) ELSE left
      put[n \in 0..Len(trimmed)] == IF n = 0 THEN to ELSE PutReduced(put[n - 1], trimmed[n])
  IN  put[Len(trimmed)]

(* towlower on the characters of a symbol; the alphabet of the instances has   *)
(* no other upper-case letter.                                                 *)
UpperCase  == {"A", "B", "F"}
ToLower(c) == CASE c = "A" -> "a" [] c = "B" -> "b" [] c = "F" -> "f" [] OTHER -> c
Lower(s)   == [i \in DOMAIN s |-> ToLower(s[i])]
=============================================================================
