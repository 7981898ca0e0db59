------------------------------ MODULE FileTree ------------------------------
(***************************************************************************)
(* The host file system as the guarded layer of oxdock-fs uses it: a tree  *)
(* of directories, files and symbolic links, and the calls of std::fs the  *)
(* crate makes.  A path is the sequence of its components from `/`; a      *)
(* component may be "..".  A disk is a function from the paths that exist  *)
(* (with no ".." and no link on the way) to their entries.  Permissions,   *)
(* times and hard links are left out.                                      *)
(*                                                                         *)
(* The contents of a file are a sequence of chunks; a tarball keeps its    *)
(* members, <<path, entry>> pairs, in `tree`.                              *)
(***************************************************************************)
EXTENDS Integers, Sequences, FiniteSets, SequencesExt

CONSTANTS PathMax,      \* components a path may have (ENAMETOOLONG)
          LinkMax       \* links one lookup follows (ELOOP)

Missing == <<"?">>

Dir == [kind |-> "dir", data |-> <<>>, target |-> <<>>, tree |-> {}]
File(v) == [Dir EXCEPT !.kind = "file", !.data = v]
Tarball(tree) == [Dir EXCEPT !.kind = "file", !.tree = tree]
Link(target) == [Dir EXCEPT !.kind = "link", !.target = target]

Under(p, dir) == IsPrefix(dir, p)

\* The entries below a directory, by their path relative to it.
Below(d, dir) == {<<SubSeq(p, Len(dir) + 1, Len(p)), d[p]>> : p \in {q \in DOMAIN d : IsStrictPrefix(dir, q)}}

Children(d, dir) == {p \in DOMAIN d : Len(p) = Len(dir) + 1 /\ Under(p, dir)}

Without(d, gone) == [p \in DOMAIN d \ gone |-> d[p]]
With(d, p, e) == [q \in DOMAIN d \cup {p} |-> IF q = p THEN e ELSE d[q]]

\* Path lookup: component by component, through links, and only through
\* directories.
RECURSIVE Walk(_, _, _, _)
Walk(d, at, rest, fuel) ==
  IF rest = <<>> THEN at
  ELSE IF d[at].kind # "dir" THEN Missing
  ELSE LET next == Append(at, Head(rest)) IN
    CASE Head(rest) = ".." -> Walk(d, IF at = <<>> THEN at ELSE Front(at), Tail(rest), fuel)
      [] Head(rest) # ".." /\ next \notin DOMAIN d -> Missing
      [] Head(rest) # ".." /\ next \in DOMAIN d /\ d[next].kind # "link" -> Walk(d, next, Tail(rest), fuel)
      [] OTHER -> IF fuel = 0 THEN Missing
                  ELSE Walk(d, <<>>, d[next].target \o Tail(rest), fuel - 1)

\* std::fs::canonicalize and Path::exists.
Canonicalize(d, p) == Walk(d, <<>>, p, LinkMax)
Exists(d, p) == Canonicalize(d, p) # Missing

\* Metadata, following links, and symlink_metadata, which does not follow
\* the last component.
KindAt(d, at) == IF at = Missing THEN "none" ELSE d[at].kind
Kind(d, p) == KindAt(d, Canonicalize(d, p))
EntryIn(d, dir, name) == IF dir # Missing /\ Append(dir, name) \in DOMAIN d THEN Append(dir, name) ELSE Missing
LstatPath(d, p) ==
  IF p = <<>> \/ Last(p) = ".." THEN Canonicalize(d, p) ELSE EntryIn(d, Canonicalize(d, Front(p)), Last(p))
LinkKind(d, p) == KindAt(d, LstatPath(d, p))

\* Where an open with O_CREAT lands: an existing file, or the place where a
\* new one is created, which for a dangling link is where it points.
RECURSIVE Creatable(_, _, _), CreatableIn(_, _, _, _)
Creatable(d, p, fuel) ==
  IF p = <<>> \/ Last(p) = ".." THEN Canonicalize(d, p) ELSE CreatableIn(d, Canonicalize(d, Front(p)), Last(p), fuel)
CreatableIn(d, dir, name, fuel) ==
  IF KindAt(d, dir) # "dir" \/ Len(dir) >= PathMax THEN Missing
  ELSE IF EntryIn(d, dir, name) = Missing \/ d[Append(dir, name)].kind # "link" THEN Append(dir, name)
  ELSE IF fuel = 0 THEN Missing ELSE Creatable(d, d[Append(dir, name)].target, fuel - 1)

\* A call that may fail: its verdict and the disk it leaves.
Done(ok, d) == [ok |-> ok, d |-> d]

\* std::fs::create_dir_all: mkdir, and when the parent is missing the parent
\* first.  A name that exists is fine when it is a directory.
RECURSIVE CreateDirAll(_, _), CreateDirIn(_, _, _), CreateDirBelow(_, _)
CreateDirAll(d, p) ==
  IF Kind(d, p) = "dir" THEN Done(TRUE, d)
  ELSE IF p = <<>> \/ Len(p) > PathMax \/ LstatPath(d, p) # Missing \/ Last(p) = ".." THEN Done(FALSE, d)
  ELSE CreateDirIn(d, Canonicalize(d, Front(p)), p)
CreateDirIn(d, dir, p) ==
  IF dir = Missing THEN CreateDirBelow(CreateDirAll(d, Front(p)), p)
  ELSE IF d[dir].kind = "dir" THEN Done(TRUE, With(d, Append(dir, Last(p)), Dir)) ELSE Done(FALSE, d)
CreateDirBelow(up, p) == IF up.ok THEN CreateDirAll(up.d, p) ELSE up

\* File::create and write_all: the entry is replaced by e.
PutAt(d, at, e) ==
  IF at = Missing \/ (at \in DOMAIN d /\ d[at].kind = "dir") THEN Done(FALSE, d) ELSE Done(TRUE, With(d, at, e))
PutFile(d, p, e) == PutAt(d, Creatable(d, p, LinkMax), e)

\* An open for append, and write_all.
AppendAt(d, at, v) == PutAt(d, at, [IF at \in DOMAIN d THEN d[at] ELSE File(<<>>) EXCEPT !.data = @ \o v])
AppendFile(d, p, v) == AppendAt(d, Creatable(d, p, LinkMax), v)

\* std::fs::copy: the destination is truncated before the source is read, so
\* a file copied onto itself is left empty.
CopyAt(d, src, dst) ==
  IF KindAt(d, src) # "file" THEN Done(FALSE, d) ELSE PutAt(d, dst, IF src = dst THEN File(<<>>) ELSE d[src])
CopyFile(d, from, to) == CopyAt(d, Canonicalize(d, from), Creatable(d, to, LinkMax))

\* remove_dir_all and remove_dir of a directory, remove_file of anything else.
RemoveTree(d, p) == Without(d, {q \in DOMAIN d : Under(q, p)})
=============================================================================
