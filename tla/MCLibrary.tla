----------------------------- MODULE MCLibrary ------------------------------
(***************************************************************************)
(* What a script is made of and what it works on, for TLC: the file        *)
(* commands, scratch directories, streamed templates and text literals.    *)
(* `part' says which one a behaviour is of; the others stay in an initial  *)
(* state.                                                                  *)
(***************************************************************************)
EXTENDS TempDirs, Sequences

VARIABLES part,
          setup, st, world, last,
          exp, fed,
          text

-----------------------------------------------------------------------------
(* The file commands, over a small disk. *)

FT == INSTANCE FileTree WITH PathMax <- 5, LinkMax <- 3
Home == <<"w">>
Disk == [p \in {<<>>, Home, <<"w", "d">>, <<"t">>, <<"c">>, <<"o">>} |-> FT!Dir]
Files == FT!With(FT!With(Disk, <<"w", "f">>, FT!File(<<"x">>)), <<"o", "f">>, FT!File(<<"x">>))
Rel(p) == [abs |-> FALSE, parts |-> p, slash |-> FALSE]
Abs(p) == [abs |-> TRUE, parts |-> p, slash |-> FALSE]

\* Selections, scopes and tasks over the plain file commands.
Scopes == [disk |-> Files, steps |-> 5, ops |-> {"workspace", "block", "workdir", "write"},
           from |-> {}, to |-> {Rel(<<"a">>), Abs(<<>>)}, targets |-> {}]
Calls == [Scopes EXCEPT !.ops = {"call", "block", "workspace", "write"}, !.to = {Rel(<<"a">>)}, !.steps = 4]
Forks == [disk |-> Files, steps |-> 3, ops |-> {"workspace", "fork", "write", "append", "remove"},
          from |-> {}, to |-> {Rel(<<"a">>)}, targets |-> {}]
\* Copies and links, and what is written and removed through them.
Links == [disk |-> Files, steps |-> 4, ops |-> {"workspace", "symlink", "write", "remove"},
          from |-> {Rel(<<"d">>), Rel(<<"f">>), Abs(<<"o">>)}, to |-> {Rel(<<"a">>), Rel(<<"a", "b">>)},
          targets |-> {"none", "system"}]
Copies == [disk |-> Files, steps |-> 3, ops |-> {"workspace", "copy", "copy_git", "install", "ls", "read"},
           from |-> {Rel(<<"d">>), Rel(<<"f">>), Rel(<<>>), Abs(<<"o">>)}, to |-> {Rel(<<"a">>), Rel(<<"d", "b">>)},
           targets |-> {"none", "local", "snapshot", "cache", "system"}]
\* Archives of a small tree.
Archives == [disk |-> FT!With(FT!With(Files, <<"w", "d", "e">>, FT!Dir), <<"w", "d", "e", "g">>, FT!File(<<"x", "y">>)),
             steps |-> 4, ops |-> {"workspace", "write", "mkdir", "archive", "unarchive"},
             from |-> {Rel(<<"a">>), Rel(<<"d">>)}, to |-> {Rel(<<"a">>), Rel(<<"b">>), Rel(<<"d", "a">>)}, targets |-> {}]
\* Removal around the working directory.
Removals == [disk |-> Files, steps |-> 4, ops |-> {"workspace", "workdir", "remove"},
             from |-> {}, to |-> {Rel(<<"d">>), Rel(<<"..">>), Rel(<<>>), Abs(<<>>), Abs(<<"d">>)}, targets |-> {}]

W == INSTANCE Workspace WITH
        Tasks <- {"script", "block"}, Script <- "script", BuildContext <- Home, WorkspaceRoot <- Home,
        OsCache <- <<"c", "workspace">>, SnapshotDir <- <<"t", "s">>, Anchor <- <<"t", "p">>,
        ModuleDir <- <<"w", "d">>, PathMax <- 5, LinkMax <- 3, ExpansionCap <- 2,
        GitTree <- {<<<<"f">>, FT!File(<<"y">>)>>, <<<<"d", "g">>, FT!File(<<"y">>)>>},
        Setups <- {Scopes, Calls, Forks, Links, Copies, Archives, Removals}
files == <<setup, st, world, last>>
FilesOff == setup = Scopes /\ W!Init

-----------------------------------------------------------------------------
(* Scratch directories of three processes, one of them with two threads. *)

InUse == {<<"p", "t">>, <<"p", "u">>, <<"q", "t">>}
temp == <<proc, dir, flag, init, thread, sweep, stale>>

-----------------------------------------------------------------------------
(* A template streamed in chunks of one or two atoms. *)

X == INSTANCE StreamExpand WITH
        Overrides <- [z \in {} |-> <<>>], Env <- [A |-> <<"{", "{">>], Vars <- [A |-> <<"{", "{">>], MaxScan <- 4
stream == <<exp, fed>>
MaxFed == 7
StreamNext ==
    \E n \in 1..2 : \E chunk \in [1..n -> {"\\", "{", "}", "A", "env:"}] :
        Len(fed) + n <= MaxFed /\ X!Feed(chunk)

-----------------------------------------------------------------------------
(* Every text of up to MaxText characters. *)

L == INSTANCE Literals
MaxText == 5
TextNext ==
    \E c \in {"\\", "{", "}", "\"", "n", "x", "NL", " "} :
        Len(text) < MaxText /\ text' = Append(text, c)

-----------------------------------------------------------------------------
LibraryInit ==
    /\ Init /\ X!Init /\ text = <<>>
    /\ \/ part = "files" /\ W!Init
       \/ part \in {"temp", "stream", "text"} /\ FilesOff

LibraryNext ==
    \/ part = "files" /\ W!Next /\ UNCHANGED <<part, temp, stream, text>>
    \/ part = "temp" /\ Next /\ UNCHANGED <<part, files, stream, text>>
    \/ part = "stream" /\ StreamNext /\ UNCHANGED <<part, files, temp, text>>
    \/ part = "text" /\ TextNext /\ UNCHANGED <<part, files, temp, stream>>

LibrarySpec == LibraryInit /\ [][LibraryNext]_<<part, files, temp, stream, text>>

-----------------------------------------------------------------------------
(* Properties: ScratchSound of TempDirs, and these of the other parts *)

\* What the file commands may touch and must leave (Workspace).
TreeStays == part = "files" => W!TreeStays /\ W!AnchorNeverCreated
Confined == W!Confined
ArchiveFaithful == W!ArchiveFaithful

\* A block or a module call gives the selection back that it found, and no
\* REMOVE takes the directory the script works in or a root (Workspace).
ContextKept == W!RootRestored /\ W!ContextKept

\* Where a streamed template is cut does not show (StreamExpand), and a value
\* rendered as a literal (escape_dsl_string) is one string literal that reads
\* and expands to the value (Literals).
TextKept ==
    LET source == L!RenderQuoted(text)
    IN /\ part = "stream" => X!CutsAreInvisible
       /\ part = "text" => L!Literal(source) /\ L!ExpandString(L!ReadLiteral(source)) = text
=============================================================================
