------------------------------ MODULE Literals ------------------------------
(***************************************************************************)
(* String literals from source text to expanded value and back: block      *)
(* lowering (crates/oxdock-parser/src/command.rs), the two renderers       *)
(* (literal.rs for values, commands.rs for Display), the template splitter *)
(* (template.rs), and the run-time expander of command arguments           *)
(* (crates/oxdock-core/src/exec/args.rs).                                  *)
(*                                                                         *)
(* Text is a sequence of atoms, as in Lexer; here every character that a   *)
(* renderer or the expander tells apart is an atom of its own.             *)
(***************************************************************************)
EXTENDS Lexer
LOCAL INSTANCE SequencesExt

From(s, i) == SubSeq(s, i, Len(s))
Holds(s, c) == \E i \in 1..Len(s) : s[i] = c
Blank(s) == \A i \in 1..Len(s) : s[i] \in Gaps \union {"CR"}
Map(s, Op(_)) == FlattenSeq([i \in 1..Len(s) |-> Op(s[i])])

----------------------------------------------------------------------------
(* Lowering a literal token to its text. *)

\* body.split('\n')
RECURSIVE Lines(_)
Lines(s) ==
    LET cut == SelectInSeq(s, LAMBDA c : c = "NL")
    IN IF cut = 0 THEN <<s>>
       ELSE <<SubSeq(s, 1, cut - 1)>> \o Lines(From(s, cut + 1))

\* lines.join("\n")
JoinLines(lines) ==
    FlattenSeq([i \in 1..Len(lines) |->
                  IF i = 1 THEN lines[i] ELSE <<"NL">> \o lines[i]])

\* The leading run of spaces and tabs.
Indent(s) ==
    LET first == SelectInSeq(s, LAMBDA c : c \notin Blanks)
    IN IF first = 0 THEN s ELSE SubSeq(s, 1, first - 1)

\* split_leading_newline: the text starts with blanks and a line break.
LeadingBreak(s) == At(s, Len(Indent(s)) + 1, <<"NL">>)

Dedented(line, prefix) ==
    IF ~Blank(line) /\ IsPrefix(prefix, line)
    THEN From(line, Len(prefix) + 1) ELSE line

\* The interior of a block literal with its line breaks normalised.
BlockInterior(text) ==
    LET inner == SubSeq(text, 4, Len(text) - 3)
    IN FlattenSeq([i \in 1..Len(inner) |->
         IF inner[i] # "CR" THEN <<inner[i]>>
         ELSE IF At(inner, i + 1, <<"NL">>) THEN <<>> ELSE <<"NL">>])

LowerBlockString(text) ==
    LET norm == BlockInterior(text)
        inline == ~LeadingBreak(norm)
        body == IF inline THEN norm ELSE From(norm, Len(Indent(norm)) + 2)
        all == Lines(body)
        own == Holds(norm, "NL") /\ Blank(Last(all))
        lines == IF own THEN Front(all) ELSE all
        content == IF inline /\ lines # <<>> THEN Tail(lines) ELSE lines
        solid == SelectSeq(content, LAMBDA l : ~Blank(l))
        first == inline /\ lines # <<>> /\ ~Blank(lines[1])
        indents == {Indent(solid[i]) : i \in 1..Len(solid)}
                     \union (IF own THEN {Last(all)} ELSE {})
        prefix == IF indents = {} THEN <<>> ELSE LongestCommonPrefix(indents)
    IN IF body = <<>> \/ (~first /\ solid = <<>>) THEN <<>>
       ELSE JoinLines([i \in 1..Len(lines) |->
                         IF inline /\ i = 1 THEN lines[i]
                         ELSE Dedented(lines[i], prefix)])

\* The text of a string token: escapes stay verbatim.
LowerLiteral(tok) ==
    IF tok.kind = "block" THEN LowerBlockString(tok.text) ELSE tok.text

----------------------------------------------------------------------------
(* Expansion of command arguments. *)

\* TemplateSegments: the position of the next live "{{", or 0, and the
\* position of the "}}" that closes it, or 0.
RECURSIVE NextOpen(_, _)
NextOpen(s, i) ==
    IF i > Len(s) THEN 0
    ELSE IF At(s, i, <<"\\", "{", "{">>) THEN NextOpen(s, i + 3)
    ELSE IF At(s, i, <<"\\", "\\">>) THEN NextOpen(s, i + 2)
    ELSE IF At(s, i, <<"{", "{">>) THEN i
    ELSE NextOpen(s, i + 1)

RECURSIVE NextClose(_, _)
NextClose(s, i) ==
    IF i >= Len(s) THEN 0
    ELSE IF At(s, i, <<"}", "}">>) THEN i
    ELSE NextClose(s, i + 1)

\* push_escaped_text: an escape it does not know keeps its backslash.
Control == [n |-> "NL", t |-> "TAB", r |-> "CR"]

RECURSIVE Unescape(_)
Unescape(s) ==
    IF s = <<>> THEN <<>>
    ELSE IF At(s, 1, <<"\\", "{", "{">>) THEN <<"{", "{">> \o Unescape(From(s, 4))
    ELSE IF Len(s) > 1 /\ s[1] = "\\" /\ s[2] \in {"\\", "\""}
    THEN <<s[2]>> \o Unescape(From(s, 3))
    ELSE IF Len(s) > 1 /\ s[1] = "\\" /\ s[2] \in DOMAIN Control
    THEN <<Control[s[2]]>> \o Unescape(From(s, 3))
    ELSE <<s[1]>> \o Unescape(Tail(s))

\* The text a placeholder stands for: its key, marked as a value.
Interpolated(key) == <<"value">> \o SelectSeq(key, LAMBDA c : c \notin Gaps) \o <<"end">>

\* expand_string.
RECURSIVE ExpandString(_)
ExpandString(s) ==
    LET open == NextOpen(s, 1)
        close == IF open = 0 THEN 0 ELSE NextClose(s, open + 2)
    IN IF close = 0 THEN Unescape(s)
       ELSE Unescape(SubSeq(s, 1, open - 1))
              \o Interpolated(SubSeq(s, open + 2, close - 1))
              \o ExpandString(From(s, close + 2))

----------------------------------------------------------------------------
(* Rendering text as a literal. *)

EscapeChar(c) ==
    CASE c = "\\" -> <<"\\", "\\">>
      [] c = "\"" -> <<"\\", "\"">>
      [] c = "NL" -> <<"\\", "n">>
      [] c = "CR" -> <<"\\", "r">>
      [] c = "TAB" -> <<"\\", "t">>
      [] OTHER -> <<c>>

\* Mutant: a brace pair is not an escape of its own.
EscapeDslStringPlain(s) == Map(s, EscapeChar)

\* escape_dsl_string, for values.
RECURSIVE EscapeDslString(_)
EscapeDslString(s) ==
    IF s = <<>> THEN <<>>
    ELSE IF At(s, 1, <<"{", "{">>) THEN <<"\\", "{", "{">> \o EscapeDslString(From(s, 3))
    ELSE EscapeChar(s[1]) \o EscapeDslString(Tail(s))

RenderQuoted(s) == <<"\"">> \o EscapeDslString(s) \o <<"\"">>

\* The escapes both lexers take.
Recognised == {"n", "t", "r", "\\", "\"", "'", "0"}

\* escape_inline_text, for Display: a recognised pair passes as a whole.
RECURSIVE EscapeInlineText(_)
EscapeInlineText(s) ==
    IF s = <<>> THEN <<>>
    ELSE IF s[1] = "\\" /\ Len(s) > 1 /\ s[2] \in Recognised
    THEN SubSeq(s, 1, 2) \o EscapeInlineText(From(s, 3))
    ELSE (IF s[1] \in {"\\", "\""} THEN <<"\\", s[1]>> ELSE <<s[1]>>)
           \o EscapeInlineText(Tail(s))

\* escape_block_text (its caller never passes a quote): every backslash is
\* judged by the character after it, the second one of a pair too.
EscapeBlockText(s) ==
    FlattenSeq([i \in 1..Len(s) |->
        IF s[i] = "\\" /\ ~(i < Len(s) /\ s[i + 1] \in Recognised)
        THEN <<"\\", "\\">> ELSE <<s[i]>>])

QuoteDslString(s) ==
    IF Holds(s, "NL") /\ ~Holds(s, "\"") /\ ~Holds(s, "CR") /\ ~Blank(s)
    THEN Triple \o <<"NL">> \o EscapeBlockText(s) \o <<"NL">> \o Triple
    ELSE <<"\"">> \o EscapeInlineText(s) \o <<"\"">>

\* Source text that is one string literal, and its value.
Literal(source) ==
    LET lexed == LexStr(source)
    IN lexed.ok /\ Len(lexed.toks) = 1 /\ lexed.toks[1].kind \in {"str", "block"}
ReadLiteral(source) == LowerLiteral(LexStr(source).toks[1])
=============================================================================
