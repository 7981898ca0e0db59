---------------------------- MODULE StreamExpand ----------------------------
(***************************************************************************)
(* The streaming template expander behind EXPAND                           *)
(* (crates/sys/oxdock-process/src/expand.rs): bytes arrive in chunks of    *)
(* any size, and an escape or a delimiter may be cut by a chunk boundary.  *)
(*                                                                         *)
(* An input is a sequence of atoms: "\\", "{", "}", the namespace prefix   *)
(* "env:", the sigil "$", blanks, and names.                               *)
(***************************************************************************)
EXTENDS Naturals, Sequences

CONSTANTS Overrides,   \* step overrides: name -> text
          Env,         \* the environment: name -> text
          Vars,        \* script variables: name -> text
          MaxScan      \* MAX_PLACEHOLDER_SCAN

VARIABLES exp,         \* the expander, with the text it has put out
          fed          \* the input so far

vars == <<exp, fed>>

Rest(s, i) == SubSeq(s, i, Len(s))
Starts(s, i, t) == i + Len(t) - 1 <= Len(s) /\ SubSeq(s, i, i + Len(t) - 1) = t

\* StreamingExpand::new.  pending is the cut that the last chunk ended in.
New == [buffer |-> <<>>, inside |-> FALSE, pending |-> "none",
        out |-> <<>>, failed |-> FALSE]

Put(e, text) == [e EXCEPT !.out = @ \o text]

\* extract_key
RECURSIVE Trim(_)
Trim(s) == IF s = <<>> THEN s
           ELSE IF s[1] = " " THEN Trim(Tail(s))
           ELSE IF s[Len(s)] = " " THEN Trim(SubSeq(s, 1, Len(s) - 1))
           ELSE s

\* lookup: the text of a key, in a one-element sequence, or nothing.
Found(f, name) == IF Len(name) = 1 /\ name[1] \in DOMAIN f THEN <<f[name[1]]>> ELSE <<>>

Lookup(key) ==
    IF Found(Overrides, key) # <<>> THEN Found(Overrides, key)
    ELSE IF key = <<>> THEN <<>>
    ELSE IF key[1] = "env:"
    THEN IF Found(Overrides, Tail(key)) # <<>> THEN Found(Overrides, Tail(key))
         ELSE Found(Env, Tail(key))
    ELSE IF key[1] = "$" THEN Found(Vars, Tail(key))
    ELSE <<>>

\* A closing delimiter: expand the key, or fail.
Close(e) ==
    LET value == Lookup(Trim(e.buffer))
    IN IF value = <<>> THEN [e EXCEPT !.failed = TRUE]
       ELSE [Put(e, value[1]) EXCEPT !.buffer = <<>>, !.inside = FALSE]

(***************************************************************************)
(* scan_placeholder and the literal scan are one loop over the input;      *)
(* Scan picks the mode the expander is in.                                 *)
(***************************************************************************)
RECURSIVE Scan(_, _, _)

\* A key that outgrows the buffer is literal text after all.
Buffered(e, c) ==
    LET b == Append(e.buffer, c)
    IN IF Len(b) > MaxScan
       THEN [Put(e, <<"{", "{">> \o b) EXCEPT !.buffer = <<>>, !.inside = FALSE]
       ELSE [e EXCEPT !.buffer = b]

\* Mutant: a brace at the end of a chunk is part of the key.
ScanPlaceholderAtOnce(e, in, i) ==
    IF Starts(in, i, <<"}", "}">>)
    THEN IF Close(e).failed THEN Close(e) ELSE Scan(Close(e), in, i + 2)
    ELSE Scan(Buffered(e, in[i]), in, i + 1)

ScanPlaceholder(e, in, i) ==
    IF Starts(in, i, <<"}", "}">>)
    THEN IF Close(e).failed THEN Close(e) ELSE Scan(Close(e), in, i + 2)
    ELSE IF in[i] = "}" /\ i = Len(in) THEN [e EXCEPT !.pending = "close"]
    ELSE Scan(Buffered(e, in[i]), in, i + 1)

ScanLiteral(e, in, i) ==
    IF Starts(in, i, <<"\\", "{", "{">>) THEN Scan(Put(e, <<"{", "{">>), in, i + 3)
    ELSE IF Starts(in, i, <<"\\", "{">>) /\ i + 1 = Len(in)
    THEN [e EXCEPT !.pending = "escapeBrace"]
    ELSE IF Starts(in, i, <<"\\", "\\">>) THEN Scan(Put(e, <<"\\">>), in, i + 2)
    ELSE IF in[i] = "\\" /\ i = Len(in) THEN [e EXCEPT !.pending = "escape"]
    ELSE IF Starts(in, i, <<"{", "{">>)
    THEN Scan([e EXCEPT !.inside = TRUE, !.buffer = <<>>], in, i + 2)
    ELSE IF in[i] = "{" /\ i = Len(in) THEN [e EXCEPT !.pending = "open"]
    ELSE Scan(Put(e, <<in[i]>>), in, i + 1)

Scan(e, in, i) ==
    IF i > Len(in) THEN e
    ELSE IF e.inside THEN ScanPlaceholder(e, in, i)
    ELSE ScanLiteral(e, in, i)

(***************************************************************************)
(* process_bytes: settle the cut of the previous chunk, then scan.  An     *)
(* empty chunk leaves the cut pending.                                     *)
(***************************************************************************)
ProcessBytes(e0, in) ==
    LET e == [e0 EXCEPT !.pending = "none"]
    IN IF in = <<>> THEN e0
       ELSE CASE e0.pending = "close" ->
                   IF in[1] # "}" THEN Scan([e EXCEPT !.buffer = Append(@, "}")], in, 1)
                   ELSE IF Close(e).failed THEN Close(e) ELSE Scan(Close(e), in, 2)
              [] e0.pending = "open" ->
                   IF in[1] = "{"
                   THEN Scan([e EXCEPT !.inside = TRUE, !.buffer = <<>>], in, 2)
                   ELSE Scan(Put(e, <<"{">>), in, 1)
              [] e0.pending = "escapeBrace" ->
                   IF in[1] = "{" THEN Scan(Put(e, <<"{", "{">>), in, 2)
                   ELSE Scan(Put(e, <<"\\", "{">>), in, 1)
              [] e0.pending = "escape" ->
                   IF Starts(in, 1, <<"{", "{">>) THEN Scan(Put(e, <<"{", "{">>), in, 3)
                   ELSE IF in = <<"{">> THEN [e EXCEPT !.pending = "escapeBrace"]
                   ELSE IF in[1] = "\\" THEN Scan(Put(e, <<"\\">>), in, 2)
                   ELSE Scan(Put(e, <<"\\">>), in, 1)
              [] OTHER -> Scan(e, in, 1)

\* flush: what is still deferred or unclosed is literal.
Flush(e) ==
    LET cut == CASE e.pending = "open" -> <<"{">>
                 [] e.pending = "escape" -> <<"\\">>
                 [] e.pending = "escapeBrace" -> <<"\\", "{">>
                 [] OTHER -> <<>>
        held == IF e.pending = "close" THEN Append(e.buffer, "}") ELSE e.buffer
    IN e.out \o cut \o (IF e.inside THEN <<"{", "{">> \o held ELSE <<>>)

Init == exp = New /\ fed = <<>>

\* handlers.rs: the EXPAND loop hands over what one read returned.
Feed(chunk) ==
    /\ ~exp.failed
    /\ exp' = ProcessBytes(exp, chunk)
    /\ fed' = fed \o chunk

----------------------------------------------------------------------------
(* What expansion promises, over the whole input at once. *)

RECURSIVE CloseAt(_, _)
CloseAt(s, i) == IF i > Len(s) THEN 0
                 ELSE IF Starts(s, i, <<"}", "}">>) THEN i ELSE CloseAt(s, i + 1)

RECURSIVE Template(_)
Template(s) ==
    LET over(text, i) == LET t == Template(Rest(s, i))
                         IN [t EXCEPT !.text = text \o @]
        close == CloseAt(s, 3)
        value == Lookup(Trim(SubSeq(s, 3, close - 1)))
    IN IF s = <<>> THEN [ok |-> TRUE, text |-> <<>>]
       ELSE IF Starts(s, 1, <<"\\", "{", "{">>) THEN over(<<"{", "{">>, 4)
       ELSE IF Starts(s, 1, <<"\\", "\\">>) THEN over(<<"\\">>, 3)
       ELSE IF ~Starts(s, 1, <<"{", "{">>) THEN over(<<s[1]>>, 2)
       ELSE IF (IF close = 0 THEN Len(s) - 2 ELSE close - 3) > MaxScan
       THEN over(SubSeq(s, 1, MaxScan + 3), MaxScan + 4)
       ELSE IF close = 0 THEN [ok |-> TRUE, text |-> s]
       ELSE IF value = <<>> THEN [ok |-> FALSE, text |-> <<>>]
       ELSE over(value[1], close + 2)

(* The text put out does not depend on where the chunks were cut           *)
(* (process_bytes, flush): it is the expansion of the whole input, and a   *)
(* bad placeholder fails whatever the cuts.                                *)
CutsAreInvisible ==
    IF exp.failed THEN ~Template(fed).ok
    ELSE Template(fed) = [ok |-> TRUE, text |-> Flush(exp)]
=============================================================================
