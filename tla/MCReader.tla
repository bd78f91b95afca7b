----------------------------- MODULE MCReader -----------------------------
(* Model checking of the front end on every source of up to MaxPieces pieces,  *)
(* where a piece is a character or a few that belong together, and on every    *)
(* content of a block of up to MaxChars characters of those the scanner's      *)
(* CONTENT rules look at.                                                      *)
EXTENDS Reader

CONSTANTS MaxPieces, MaxChars

Pieces   == {<<"[">>, <<"[", "A">>, <<"]">>, <<":">>, <<" ", "b">>, <<"$", "*">>}
Chars  == {<<"]">>, <<" ">>, <<"\\">>, <<"{">>, <<"#">>, <<"}">>, <<"$">>, <<"*">>}

MCCharacters == UNION {ToSet(p) : p \in Pieces \union Chars} \union {"a"}

MCSources == {FlattenSeq(s) : s \in BoundedSeq(Pieces, MaxPieces)}
             \union {<<"[", "a", " ">> \o FlattenSeq(s) : s \in BoundedSeq(Chars, MaxChars)}
=============================================================================
