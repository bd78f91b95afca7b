------------------------------- MODULE Lexer -------------------------------
(* The flex scanner of vinumc/dry_flex.l: one action per rule, or per group of *)
(* rules with the same effect.  A call of yylex runs actions until one of them *)
(* leaves a token; the parser then takes it (token = NoToken again) and calls  *)
(* yylex for the next.  Text and symbol tokens carry the node the rule makes.  *)
(* The source is a sequence of characters; what flex's longest match chooses   *)
(* is in the guards.                                                           *)
EXTENDS Ast, VutStr

CONSTANT Characters   \* the alphabet, which has the small letters of its capitals

ASSUME CharactersAssumption ==
  /\ Blanks \union {"[", "]"} \subseteq Characters
  /\ \A c \in Characters : ToLower(c) \in Characters

VARIABLES source,      \* the characters yylex has not consumed
          conds,       \* flex's start condition stack, the current one last
          textBuffer,  \* dry_flex_text_buffer
          token        \* what yylex returned and the parser has not shifted

lexVars == <<source, conds, textBuffer, token>>

StartConds == {"INITIAL", "DEFINE_CALL_NAME", "HAS_CALL_NAME", "CONTENT"}

NoToken == [kind |-> "none", node |-> 0]
Punctuation(kind) == [kind |-> kind, node |-> 0]

Cond == conds[Len(conds)]
\* Mutant of Replaced: the current condition is not popped
ReplacedByPush(cond) == Append(conds, cond)

Replaced(cond) == Append(Front(conds), cond)   \* replace_state

NotBracket(s) == {s[i] : i \in DOMAIN s} \ {"[", "]"}
Drop(n)  == SubSeq(source, n + 1, Len(source))
Take(n)  == SubSeq(source, 1, n)
StartsWith(s) == IsPrefix(s, source)
First(s) == IF s = <<>> THEN "end" ELSE s[1]

\* yylex is running: the parser has taken the last token
Scanning == token = NoToken

(* <INITIAL>[ \t\r\n]+ and <DEFINE_CALL_NAME>[ \t\r\n]+: in INITIAL the text   *)
(* rule is longer unless nothing but blanks comes before a bracket or the end; *)
(* in DEFINE_CALL_NAME the rule of the colon is longer when one follows.       *)
SkipBlanks ==
  LET blanks == RunLength(source, Blanks)
      next   == Drop(blanks)
  IN  /\ Scanning
      /\ blanks > 0
      /\ \/ Cond = "INITIAL" /\ First(next) \in {"end", "[", "]"}
         \/ Cond = "DEFINE_CALL_NAME" /\ First(next) # ":"
      /\ source' = next
      /\ UNCHANGED <<conds, textBuffer, token, nodes>>

\* Mutant of ReturnNode: the id is taken once the node has been added
ReturnNodeLateId(type, text, n) ==
  /\ nodes' = NewNode(nodes, type, text)
  /\ token' = [kind |-> type, node |-> Len(nodes') + 1]
  /\ source' = Drop(n)

\* The rest of a rule that makes a node of `type` from the first n characters
ReturnNode(type, text, n) ==
  /\ nodes' = NewNode(nodes, type, text)
  /\ token' = [kind |-> type, node |-> Len(nodes) + 1]
  /\ source' = Drop(n)

\* <INITIAL>[^\[\]]+ : text outside every block is taken whole, escapes and all
InitialText ==
  LET run == RunLength(source, NotBracket(source))
  IN  /\ Scanning
      /\ Cond = "INITIAL"
      /\ \E i \in 1..run : source[i] \notin Blanks
      /\ ReturnNode("TEXT", Take(run), run)
      /\ UNCHANGED <<conds, textBuffer>>

\* "[" opens a block; inside a name it also makes the name a computed one
OpenBlock ==
  /\ Scanning
  /\ First(source) = "["
  /\ \/ Cond \in {"INITIAL", "CONTENT"} /\ conds' = Append(conds, "DEFINE_CALL_NAME")
     \/ Cond = "DEFINE_CALL_NAME"
        /\ conds' = Append(Replaced("HAS_CALL_NAME"), "DEFINE_CALL_NAME")
  /\ token' = Punctuation("[")
  /\ source' = Drop(1)
  /\ UNCHANGED <<textBuffer, nodes>>

\* "]" closes the block; in INITIAL there is none and the parser will refuse it
CloseBlock ==
  /\ Scanning
  /\ First(source) = "]"
  /\ conds' = IF Cond = "INITIAL" THEN conds ELSE Front(conds)
  /\ token' = Punctuation("]")
  /\ source' = Drop(1)
  /\ UNCHANGED <<textBuffer, nodes>>

\* <DEFINE_CALL_NAME,HAS_CALL_NAME>[ \t]*:
Colon ==
  LET blanks == RunLength(source, Blanks)
  IN  /\ Scanning
      /\ Cond \in {"DEFINE_CALL_NAME", "HAS_CALL_NAME"}
      /\ First(Drop(blanks)) = ":"
      /\ conds' = Replaced("CONTENT")
      /\ token' = Punctuation(":")
      /\ source' = Drop(blanks + 1)
      /\ UNCHANGED <<textBuffer, nodes>>

\* <DEFINE_CALL_NAME>[^\[\]: \t\r\n]+ : the name of a call or of a definition
Symbol ==
  LET run == RunLength(source, NotBracket(source) \ (Blanks \union {":"}))
  IN  /\ Scanning
      /\ Cond = "DEFINE_CALL_NAME"
      /\ run > 0
      /\ ReturnNode("SYMBOL", Take(run), run)
      /\ conds' = Replaced("HAS_CALL_NAME")
      /\ UNCHANGED textBuffer

\* Mutants of NameEnds: the character is not put back; the condition not replaced
NameEndsConsuming ==
  /\ Scanning
  /\ Cond = "HAS_CALL_NAME"
  /\ First(source) \notin {"end", "]"}
  /\ First(Drop(RunLength(source, Blanks))) # ":"
  /\ conds' = Replaced("CONTENT")
  /\ source' = Drop(1)
  /\ UNCHANGED <<textBuffer, token, nodes>>

NameEndsNowhere ==
  /\ Scanning
  /\ Cond = "HAS_CALL_NAME"
  /\ First(source) \notin {"end", "]"}
  /\ First(Drop(RunLength(source, Blanks))) # ":"
  /\ source' = IF First(source) \in Blanks THEN Drop(1) ELSE source
  /\ UNCHANGED <<conds, textBuffer, token, nodes>>

(* <HAS_CALL_NAME>[ \t\r\n] and <HAS_CALL_NAME>. : the content starts after    *)
(* one blank, or at the next character, which is put back.                     *)
NameEnds ==
  /\ Scanning
  /\ Cond = "HAS_CALL_NAME"
  /\ First(source) \notin {"end", "]"}
  /\ First(Drop(RunLength(source, Blanks))) # ":"
  /\ conds' = Replaced("CONTENT")
  /\ source' = IF First(source) \in Blanks THEN Drop(1) ELSE source
  /\ UNCHANGED <<textBuffer, token, nodes>>

InContent == Scanning /\ Cond = "CONTENT"

\* <CONTENT>"$*"
ArgRef ==
  /\ InContent
  /\ StartsWith(<<"$", "*">>)
  /\ ReturnNode("ARG_REF_ALL_ARGS", NoText, 2)
  /\ UNCHANGED <<conds, textBuffer>>

\* The ends of a literal: where "#}" starts after the opening "{#"
LiteralEnds == {n \in 3..(Len(source) - 1) : source[n] = "#" /\ source[n + 1] = "}"}

(* <CONTENT>"{#" and the IN_LITERAL rules, which accumulate with yymore: the   *)
(* literal ends at the first "#}", or at the end of the source; "{#" at the    *)
(* very end makes no token.                                                    *)
Literal ==
  /\ InContent
  /\ StartsWith(<<"{", "#">>)
  /\ UNCHANGED textBuffer
  /\ IF Len(source) = 2
     THEN /\ source' = <<>>
          /\ conds' = Append(conds, "IN_LITERAL")
          /\ UNCHANGED <<token, nodes>>
     ELSE /\ IF LiteralEnds # {}
             THEN LET e == Min(LiteralEnds)
                  IN  ReturnNode("LITERAL", SubSeq(source, 3, e - 1), e + 1)
             ELSE ReturnNode("LITERAL", Drop(2), Len(source))
          /\ UNCHANGED conds

\* Mutant of TextEnds: a text runs on before an argument reference or a literal
TextEndsAtBracket(rest) == First(rest) \in {"end", "[", "]"}

\* BEFORE_TEXT_END, or the end of the source: the buffered text ends here
TextEnds(rest) ==
  \/ First(rest) \in {"end", "[", "]"}
  \/ IsPrefix(<<"$", "*">>, rest)
  \/ IsPrefix(<<"{", "#">>, rest)

\* Mutant of TextChar: an escaped character ends the text
TextCharEscapeEnds ==
  LET escape == First(source) = "\\" /\ Len(source) > 1
      n      == IF escape THEN 2 ELSE 1
      buffer == Append(textBuffer, source[n])
  IN  /\ InContent
      /\ First(source) \notin {"end", "[", "]"}
      /\ ~ StartsWith(<<"$", "*">>) /\ ~ StartsWith(<<"{", "#">>)
      /\ UNCHANGED conds
      /\ IF escape \/ TextEnds(Drop(n))
         THEN ReturnNode("TEXT", buffer, n) /\ textBuffer' = <<>>
         ELSE /\ source' = Drop(n)
              /\ textBuffer' = buffer
              /\ UNCHANGED <<token, nodes>>

(* The remaining CONTENT rules.  A backslash and a character put the           *)
(* character, any other character but a bracket puts itself; the text node is  *)
(* yielded (yield_text_node) when the text ends there.                         *)
TextChar ==
  LET escape == First(source) = "\\" /\ Len(source) > 1
      n      == IF escape THEN 2 ELSE 1
      buffer == Append(textBuffer, source[n])
  IN  /\ InContent
      /\ First(source) \notin {"end", "[", "]"}
      /\ ~ StartsWith(<<"$", "*">>) /\ ~ StartsWith(<<"{", "#">>)
      /\ UNCHANGED conds
      /\ IF TextEnds(Drop(n))
         THEN ReturnNode("TEXT", buffer, n) /\ textBuffer' = <<>>
         ELSE /\ source' = Drop(n)
              /\ textBuffer' = buffer
              /\ UNCHANGED <<token, nodes>>

EndOfSource ==
  /\ Scanning
  /\ source = <<>>
  /\ token' = Punctuation("EOF")
  /\ UNCHANGED <<source, conds, textBuffer, nodes>>

Lex ==
  \/ SkipBlanks \/ InitialText \/ OpenBlock \/ CloseBlock \/ Colon \/ Symbol
  \/ NameEnds \/ ArgRef \/ Literal \/ TextChar \/ EndOfSource
=============================================================================
