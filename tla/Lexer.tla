------------------------------- MODULE Lexer -------------------------------
(***************************************************************************)
(* The context-free lexer of script text: crates/oxdock-parser/src/tok.rs. *)
(*                                                                         *)
(* A source is a sequence of atoms.  An atom is one delimiter character,   *)
(* one blank, the line break "NL" (the three spellings of a line break are *)
(* one atom), the backslash, or a run of ordinary word characters, which   *)
(* the lexer never takes apart.  A token records its kind, its text, and   *)
(* whether a gap precedes it; a group holds the tokens of its interior.    *)
(* Coordinates are left out: no decision of the parser depends on them.    *)
(***************************************************************************)
EXTENDS Naturals, Sequences

Blanks == {" ", "TAB"}
Gaps == Blanks \union {"NL"}
Openers == {"[", "(", "{"}
Closers == {"]", ")", "}"}
CloserOf(o) == CASE o = "[" -> "]" [] o = "(" -> ")" [] o = "{" -> "}"
Quotes == {"\"", "'"}
Triple == <<"\"", "\"", "\"">>

\* Characters that end a word (is_delim).
Delims == Quotes \union Openers \union Closers \union
          {"$", ":", ",", "=", "!", "<", ">", "+", "-", "*", "/", "%", ".",
           "?", "^", ";", "#", "|", "&", "@"}

\* A token.  mark is the quote of a string or the opener of a group; inner,
\* open and close describe a group (open_joint, close_joint in the code).
Tok(kind, text, joint) ==
    [kind |-> kind, text |-> text, mark |-> "", inner |-> <<>>,
     open |-> TRUE, close |-> TRUE, joint |-> joint]

At(s, i, text) ==
    /\ i + Len(text) - 1 <= Len(s)
    /\ SubSeq(s, i, i + Len(text) - 1) = text

Lexed(toks) == [ok |-> TRUE, toks |-> toks]
Unlexed == [ok |-> FALSE, toks |-> <<>>]

(***************************************************************************)
(* scan_string: an escape pair is atomic.  The position past the closing   *)
(* delimiter, or 0 when the string never closes.                           *)
(***************************************************************************)
RECURSIVE StringEnd(_, _, _)
StringEnd(s, i, delimiter) ==
    IF i > Len(s) THEN 0
    ELSE IF s[i] = "\\" THEN StringEnd(s, i + 2, delimiter)
    ELSE IF At(s, i, delimiter) THEN i + Len(delimiter)
    ELSE StringEnd(s, i + 1, delimiter)

Delimiter(s, i) == IF At(s, i, Triple) THEN Triple ELSE <<s[i]>>

ScanString(s, i) == StringEnd(s, i + Len(Delimiter(s, i)), Delimiter(s, i))

StringTok(s, i, end, joint) ==
    IF At(s, i, Triple)
    THEN Tok("block", SubSeq(s, i, end - 1), joint)
    ELSE [Tok("str", SubSeq(s, i + 1, end - 2), joint) EXCEPT !.mark = s[i]]

\* skip_line_comment: the end of the line.
RECURSIVE LineEnd(_, _)
LineEnd(s, i) == IF i > Len(s) \/ s[i] = "NL" THEN i ELSE LineEnd(s, i + 1)

\* skip_block_comment: nested comments; 0 when it never closes.
RECURSIVE CommentEnd(_, _, _)
CommentEnd(s, i, depth) ==
    IF depth = 0 THEN i
    ELSE IF i > Len(s) THEN 0
    ELSE IF At(s, i, <<"/", "*">>) THEN CommentEnd(s, i + 2, depth + 1)
    ELSE IF At(s, i, <<"*", "/">>) THEN CommentEnd(s, i + 2, depth - 1)
    ELSE CommentEnd(s, i + 1, depth)

\* at_line_start: only blanks precede on this line.
RECURSIVE AtLineStart(_, _)
AtLineStart(s, i) ==
    i = 1 \/ s[i - 1] = "NL" \/ (s[i - 1] \in Blanks /\ AtLineStart(s, i - 1))

(***************************************************************************)
(* quote_opens_before: inside a group a single quote opens a string only   *)
(* after an opener or an operator; from is the first atom of the group.    *)
(***************************************************************************)
RECURSIVE QuoteOpensBefore(_, _, _)
QuoteOpensBefore(s, from, i) ==
    \/ i = from
    \/ s[i - 1] \in Gaps /\ QuoteOpensBefore(s, from, i - 1)
    \/ s[i - 1] \in Openers \union {",", ":", "=", "$", "!", "<", ">", "|", "&"}

(***************************************************************************)
(* lex_group's scan for the closer.  Strings and comments are stepped over *)
(* (a comment ends early at the group's own closer), any opener deepens    *)
(* and any closer undoes one level.  0 when the group never closes or a    *)
(* closer matches nothing.                                                 *)
(***************************************************************************)
RECURSIVE CommentSpan(_, _, _, _)
CommentSpan(s, i, close, level) ==
    IF i > Len(s) \/ level = 0 \/ s[i] = close THEN i
    ELSE IF At(s, i, <<"/", "*">>) THEN CommentSpan(s, i + 2, close, level + 1)
    ELSE IF At(s, i, <<"*", "/">>) THEN CommentSpan(s, i + 2, close, level - 1)
    ELSE CommentSpan(s, i + 1, close, level)

RECURSIVE LineSpan(_, _, _)
LineSpan(s, i, close) ==
    IF i > Len(s) \/ s[i] \in {"NL", close} THEN i ELSE LineSpan(s, i + 1, close)

RECURSIVE GroupClose(_, _, _, _, _)
GroupClose(s, from, i, close, depth) ==
    IF i > Len(s) THEN 0
    ELSE LET c == s[i]
             \* Only a closer at depth zero cuts a comment short.
             stop == IF depth = 0 THEN close ELSE "none"
             next(j) == GroupClose(s, from, j, close, depth)
         IN IF c = "\"" \/ (c = "'" /\ QuoteOpensBefore(s, from, i))
            THEN LET end == ScanString(s, i) IN IF end = 0 THEN 0 ELSE next(end)
            ELSE IF At(s, i, <<"/", "/">>) THEN next(LineSpan(s, i + 2, stop))
            ELSE IF At(s, i, <<"/", "*">>) THEN next(CommentSpan(s, i + 2, stop, 1))
            ELSE IF c \in Openers THEN GroupClose(s, from, i + 1, close, depth + 1)
            ELSE IF c = close /\ depth = 0 THEN i
            ELSE IF c \in Closers
            THEN IF depth = 0 THEN 0 ELSE GroupClose(s, from, i + 1, close, depth - 1)
            ELSE next(i + 1)

\* lex_word: an escape pair stays in the word.
RECURSIVE WordEnd(_, _)
WordEnd(s, i) ==
    IF i > Len(s) THEN i
    ELSE IF s[i] = "\\" THEN WordEnd(s, i + 2)
    ELSE IF s[i] \in Gaps \union Delims THEN i
    ELSE WordEnd(s, i + 1)

LeastOf(a, b) == IF a < b THEN a ELSE b

(***************************************************************************)
(* StrLexer::run.  The interior of a group is lexed by a child lexer, so   *)
(* the line-start rules restart at the opener; its first token is joint    *)
(* when nothing separates it from the opener.                              *)
(***************************************************************************)
RECURSIVE LexFrom(_, _, _, _)
LexFrom(s, i, gapped, out) ==
    IF i > Len(s) THEN Lexed(out)
    ELSE LET c == s[i]
             skip(j) == LexFrom(s, j, TRUE, out)
             emit(tok, j, gap) == LexFrom(s, j, gap, Append(out, tok))
             end == LeastOf(WordEnd(s, i), Len(s) + 1)
         IN IF c \in Blanks THEN skip(i + 1)
            ELSE IF c = "NL" THEN emit(Tok("newline", <<>>, FALSE), i + 1, TRUE)
            ELSE IF c = ";" THEN emit(Tok("semicolon", <<>>, FALSE), i + 1, TRUE)
            ELSE IF At(s, i, <<"/", "/">>)
            THEN LET first == AtLineStart(s, i)
                     stop == LineEnd(s, i)
                 IN emit(Tok("comment", SubSeq(s, i, stop - 1), ~first /\ ~gapped),
                         stop, first)
            ELSE IF At(s, i, <<"/", "*">>) /\ AtLineStart(s, i)
            THEN LET stop == CommentEnd(s, i + 2, 1)
                 IN IF stop = 0 THEN Unlexed
                    ELSE emit(Tok("comment", SubSeq(s, i, stop - 1), FALSE), stop, TRUE)
            ELSE IF c = "#" /\ AtLineStart(s, i)
            THEN emit(Tok("comment", SubSeq(s, i, LineEnd(s, i) - 1), FALSE),
                      LineEnd(s, i), TRUE)
            ELSE IF c = "\"" \/ (c = "'" /\ gapped)
            THEN LET stop == ScanString(s, i)
                 IN IF stop # 0 THEN emit(StringTok(s, i, stop, ~gapped), stop, FALSE)
                    ELSE IF c = "'" THEN emit(Tok("punct", <<c>>, ~gapped), i + 1, FALSE)
                    ELSE Unlexed
            ELSE IF c \in Openers
            THEN LET stop == GroupClose(s, i + 1, i + 1, CloserOf(c), 0)
                     inner == LexFrom(SubSeq(s, i + 1, stop - 1), 1, TRUE, <<>>)
                     open == i < Len(s) /\ s[i + 1] \notin Gaps
                     joined == [k \in 1..Len(inner.toks) |->
                                  IF k = 1 /\ open /\ inner.toks[1].kind \notin
                                                 {"newline", "semicolon", "comment"}
                                  THEN [inner.toks[1] EXCEPT !.joint = TRUE]
                                  ELSE inner.toks[k]]
                 IN IF stop = 0 THEN Unlexed
                    ELSE IF ~inner.ok THEN Unlexed
                    ELSE emit([Tok("group", <<>>, ~gapped) EXCEPT
                                 !.mark = c, !.inner = joined, !.open = open,
                                 !.close = s[stop - 1] \notin Gaps],
                              stop + 1, FALSE)
            ELSE IF c \in Closers THEN Unlexed
            ELSE IF c \in Delims THEN emit(Tok("punct", <<c>>, ~gapped), i + 1, FALSE)
            ELSE emit(Tok("word", SubSeq(s, i, end - 1), ~gapped), end, FALSE)

\* lex_str.
LexStr(s) == LexFrom(s, 1, TRUE, <<>>)

=============================================================================
