----------------------------- MODULE Workspace -----------------------------
(***************************************************************************)
(* The workspace of a run: PathResolver (oxdock-fs/src/workspace_fs), which *)
(* maps every path of a script into one of four roots and guards it, and   *)
(* the file commands of the executor (oxdock-core/src/exec/handlers.rs)    *)
(* that go through it.                                                     *)
(*                                                                         *)
(* A task (the script, and an ASYNC block it forked) has its own selection *)
(* of a root, working directory and scopes; the disk and the snapshot      *)
(* directory, created on first use, are shared.  Until then the snapshot   *)
(* root is an anchor under the temporary directory that is never created.  *)
(*                                                                         *)
(* A command is one step.  It leaves what it did before it failed on the   *)
(* disk, and a failed command ends its task.  A path of the script is a    *)
(* record: absolute or not, its components without ".", and whether it was *)
(* written with a trailing slash.                                          *)
(***************************************************************************)
EXTENDS FileTree

CONSTANTS Tasks, Script,        \* the tasks; the one that runs from the start
          BuildContext, WorkspaceRoot, OsCache, SnapshotDir, Anchor, ModuleDir,
          GitTree,              \* the blobs of HEAD: <<path, entry>>
          Setups,               \* menus of commands: [disk, tasks, steps, ops, from, to]
          ExpansionCap          \* UNARCHIVE --max-bytes, in chunks

VARIABLES setup,    \* the menu this run uses
          st,       \* per task: [sel, local, cwd, module, frames, left, status]
          world,    \* [disk, snap]: the disk, and the snapshot directory or Missing
          last      \* the last command: [op, task, ok, before, at, from]

vars == <<setup, st, world, last>>

(***************************************************************************)
(* Guarded paths and verdicts.                                             *)
(***************************************************************************)
Guarded(root, path) == [root |-> root, path |-> path]
Whole(p) == Guarded(p, p)
Verdict(ok, g, w) == [ok |-> ok, g |-> g, w |-> w]
Fail(w) == Verdict(FALSE, Whole(Missing), w)
OnDisk(w, g, call) == Verdict(call.ok, g, [w EXCEPT !.disk = call.d])

\* The `?` operator: go on with what was found, or return the failure.
Then(v, F(_)) == IF v.ok THEN F(v) ELSE v
OrElse(v, F(_)) == IF v.ok THEN v ELSE F(v)

CacheGuard(r) == IF r.local THEN WorkspaceRoot \o <<".cache", "workspace">> ELSE OsCache

EffectiveRoot(r, w) ==
  CASE r.sel = "local" -> BuildContext
    [] r.sel = "snapshot" -> IF w.snap = Missing THEN Anchor ELSE w.snap
    [] r.sel = "cache" -> CacheGuard(r)
    [] r.sel = "system" -> <<>>

IsPending(r, w) == r.sel = "snapshot" /\ w.snap = Missing

\* `..` by popping a component, never above `/`.
Lexical(base, rest) ==
  FoldLeft(LAMBDA acc, c : IF c # ".." THEN Append(acc, c) ELSE IF acc = <<>> THEN acc ELSE Front(acc), base, rest)

\* The canonical form of a candidate: of the whole of it when it exists, else
\* of its longest existing ancestor with the rest appended lexically.
LexicalBelow(d, cand, n) == Lexical(Canonicalize(d, SubSeq(cand, 1, n)), SubSeq(cand, n + 1, Len(cand)))
NormalizeCandidate(d, cand) ==
  LexicalBelow(d, cand, CHOOSE k \in 0..Len(cand) :
    Exists(d, SubSeq(cand, 1, k)) /\ \A j \in (k + 1)..Len(cand) : ~Exists(d, SubSeq(cand, 1, j)))

\* Mutant: the candidate is not compared with the root.
InsideUnchecked(made, root, path) == [ok |-> made.ok, path |-> path, d |-> made.d]

Inside(made, root, path) ==
  [ok |-> made.ok /\ Under(path, Canonicalize(made.d, root)), path |-> path, d |-> made.d]

\* The root is created when it is missing; the candidate must lie below it.
GuardIn(made, root, cand) == Inside(made, root, NormalizeCandidate(made.d, cand))
GuardPath(d, root, cand) == GuardIn(IF Exists(d, root) THEN Done(TRUE, d) ELSE CreateDirAll(d, root), root, cand)

\* GuardedPath::new and GuardedPath::join.
GuardedAs(w, root, guard) == OnDisk(w, Guarded(root, guard.path), guard)
NewGuarded(w, root, cand) == GuardedAs(w, root, GuardPath(w.disk, root, cand))
JoinGuarded(w, g, rel) == NewGuarded(w, g.root, g.path \o rel)

\* A candidate outside the root is still granted, as it was written, when the
\* root is the effective one and the candidate lies in the workspace.
Granted(r, w, root, cand, guard) ==
  LET workspace == /\ root = EffectiveRoot(r, w)
                   /\ Exists(guard.d, root)
                   /\ Under(NormalizeCandidate(guard.d, cand), WorkspaceRoot)
  IN Verdict(guard.ok \/ workspace, Guarded(root, IF guard.ok THEN guard.path ELSE cand), [w EXCEPT !.disk = guard.d])
CheckAccessWithRoot(r, w, root, cand) == Granted(r, w, root, cand, GuardPath(w.disk, root, cand))

CheckAccess(r, w, cand) ==
  IF IsPending(r, w) /\ Under(cand, Anchor) THEN Fail(w)
  ELSE CheckAccessWithRoot(r, w, EffectiveRoot(r, w), cand)

\* Reads fall back to the build context.
CheckRead(r, w, cand) ==
  OrElse(CheckAccess(r, w, cand), LAMBDA v : CheckAccessWithRoot(r, v.w, BuildContext, cand))

\* The first use of the snapshot creates its directory.
SnapshotConcrete(w) ==
  IF w.snap # Missing THEN w ELSE [disk |-> With(w.disk, SnapshotDir, Dir), snap |-> SnapshotDir]

RebasedCwd(r, w, cwd) ==
  LET live == SnapshotConcrete(w)
      rel == SubSeq(cwd.path, Len(Anchor) + 1, Len(cwd.path))
  IN CASE r.sel # "snapshot" -> Verdict(TRUE, cwd, w)
       [] r.sel = "snapshot" /\ cwd.root = live.snap -> Verdict(TRUE, cwd, live)
       [] OTHER -> IF Under(cwd.path, Anchor) THEN NewGuarded(live, live.snap, live.snap \o rel) ELSE Fail(live)

EnsureCache(r, w) == OnDisk(w, Whole(CacheGuard(r)), CreateDirAll(w.disk, CacheGuard(r)))

SystemWrap(base, p) == Guarded(<<>>, Lexical(<<>>, IF p.abs THEN p.parts ELSE base \o p.parts))

\* An absolute path is taken as it is when the root grants it, else it is
\* read from the root.
CheckFromRoot(r, w, cwd, p) ==
  IF p.abs THEN OrElse(CheckAccess(r, w, p.parts), LAMBDA v : CheckAccess(r, v.w, EffectiveRoot(r, v.w) \o p.parts))
  ELSE CheckAccess(r, w, cwd.path \o p.parts)

Resolve(r, w, cwd, p) ==
  IF r.sel = "system" THEN Verdict(TRUE, SystemWrap(cwd.path, p), w)
  ELSE Then(IF r.sel = "cache" THEN EnsureCache(r, w) ELSE Verdict(TRUE, cwd, w),
            LAMBDA e : Then(RebasedCwd(r, e.w, cwd), LAMBDA c : CheckFromRoot(r, c.w, c.g, p)))

\* WORKDIR creates the directory it moves to; `/` only selects the root.
MakeWorkdir(v) ==
  IF Exists(v.w.disk, v.g.path) THEN Verdict(Kind(v.w.disk, v.g.path) = "dir", v.g, v.w)
  ELSE OnDisk(v.w, v.g, CreateDirAll(v.w.disk, v.g.path))

ResolveWorkdir(r, w, cwd, p) ==
  LET entered == IF r.sel = "cache" THEN EnsureCache(r, w) ELSE Verdict(TRUE, cwd, w) IN
  CASE r.sel = "system" -> MakeWorkdir(Verdict(TRUE, SystemWrap(cwd.path, p), w))
    [] r.sel # "system" /\ p.abs /\ p.parts = <<>> ->
         Then(entered, LAMBDA e : Verdict(TRUE, Whole(EffectiveRoot(r, w)), e.w))
    [] OTHER -> Then(entered, LAMBDA e : Then(RebasedCwd(r, e.w, cwd), LAMBDA c :
                Then(CheckFromRoot(r, c.w, c.g, p), MakeWorkdir)))

(***************************************************************************)
(* The sources of COPY, COPY_GIT and SYMLINK.                              *)
(***************************************************************************)
MustExist(v) == IF Exists(v.w.disk, v.g.path) THEN v ELSE Fail(v.w)

ResolveCopySource(r, w, p) ==
  LET ProjectRelative(v) == CheckAccessWithRoot(r, v.w, WorkspaceRoot, WorkspaceRoot \o p.parts)
      FromContext(v) == CheckAccessWithRoot(r, v.w, BuildContext, p.parts)
  IN Then(CASE p.abs /\ r.sel = "system" -> Verdict(TRUE, SystemWrap(<<>>, p), w)
            [] p.abs /\ r.sel # "system" ->
                 OrElse(OrElse(CheckAccessWithRoot(r, w, WorkspaceRoot, p.parts), FromContext), ProjectRelative)
            [] ~p.abs -> OrElse(CheckAccessWithRoot(r, w, BuildContext, BuildContext \o p.parts), ProjectRelative),
          MustExist)

FromRoot(r, w, root, p) ==
  Then(CheckAccessWithRoot(r, w, root, IF p.abs THEN p.parts ELSE root \o p.parts), MustExist)

\* COPY --from-current-workspace and its like name the root.
ResolveCopySourceFrom(r, w, target, p) ==
  CASE target = "none" -> ResolveCopySource(r, w, p)
    [] target = "local" -> FromRoot(r, w, WorkspaceRoot, p)
    [] target = "snapshot" -> IF w.snap = Missing THEN Fail(w) ELSE FromRoot(r, w, w.snap, p)
    [] target = "cache" -> Then(EnsureCache(r, w), LAMBDA v : FromRoot(r, v.w, v.g.path, p))
    [] target = "system" -> IF p.abs THEN MustExist(Verdict(TRUE, SystemWrap(<<>>, p), w))
                            ELSE FromRoot(r, w, BuildContext, p)

RecheckSource(r, w, src) ==
  OrElse(CheckAccessWithRoot(r, w, src.root, src.path),
         LAMBDA v : IF src.root = <<>> THEN Verdict(TRUE, src, v.w) ELSE CheckRead(r, v.w, src.path))

(***************************************************************************)
(* Guarded input and output.                                               *)
(***************************************************************************)
BackendMakeDir(r, v) ==
  Then(OnDisk(v.w, v.g, CreateDirAll(v.w.disk, EffectiveRoot(r, v.w))),
       LAMBDA root : OnDisk(root.w, v.g, CreateDirAll(root.w.disk, v.g.path)))

MakeDir(r, w, path) == Then(CheckAccess(r, w, path), LAMBDA v : BackendMakeDir(r, v))

EnsureParent(r, w, g) ==
  IF g.path = <<>> THEN Verdict(TRUE, g, w)
  ELSE Then(CheckRead(r, w, Front(g.path)), LAMBDA v : BackendMakeDir(r, v))

MakeParent(r, w, g) == IF g.path = <<>> THEN Verdict(TRUE, g, w) ELSE MakeDir(r, w, Front(g.path))

\* The backend's write_file, append_file and open_write make the parents of
\* the file themselves.
ParentMade(w, g) ==
  IF g.path = <<>> THEN Verdict(TRUE, g, w) ELSE OnDisk(w, g, CreateDirAll(w.disk, Front(g.path)))

Store(r, w, g, e) ==
  Then(CheckAccess(r, w, g.path), LAMBDA v :
  Then(ParentMade(v.w, v.g), LAMBDA up : OnDisk(up.w, v.g, PutFile(up.w.disk, v.g.path, e))))

CopyOneFile(r, w, src, dst) ==
  Then(CheckAccess(r, w, dst.path), LAMBDA to : Then(RecheckSource(r, to.w, src), LAMBDA from :
  Then(MakeParent(r, from.w, to.g), LAMBDA v : OnDisk(v.w, to.g, CopyFile(v.w.disk, from.g.path, to.g.path)))))

\* copy_dir_recursive creates the destination before it lists the source.
RECURSIVE CopyDir(_, _, _, _)
CopyDir(r, w, src, dst) ==
  LET Entry(to, v, name) ==
        Then(RecheckSource(r, v.w, Guarded(src.root, Append(src.path, name))), LAMBDA from :
        Then(CheckAccess(r, from.w, Append(to.path, name)), LAMBDA at :
        CASE Kind(at.w.disk, Append(src.path, name)) = "dir" ->
               Then(MakeDir(r, at.w, at.g.path), LAMBDA made : CopyDir(r, made.w, from.g, at.g))
          [] Kind(at.w.disk, Append(src.path, name)) = "file" ->
               Then(MakeParent(r, at.w, at.g), LAMBDA made :
               OnDisk(made.w, at.g, CopyFile(made.w.disk, from.g.path, at.g.path)))
          [] OTHER -> Fail(at.w)))
      Entries(to, v) ==
        IF Kind(v.w.disk, src.path) # "dir" THEN Fail(v.w)
        ELSE FoldLeft(LAMBDA acc, name : Then(acc, LAMBDA a : Entry(to, a, name)), v,
                      SetToSeq({Last(p) : p \in Children(v.w.disk, Canonicalize(v.w.disk, src.path))}))
  IN Then(CheckAccess(r, w, dst.path), LAMBDA to :
     Then(MakeDir(r, to.w, to.g.path), LAMBDA v : Entries(to.g, v)))

CopyEntry(r, w, src, dst) ==
  CASE Kind(w.disk, src.path) = "dir" -> CopyDir(r, w, src, dst)
    [] Kind(w.disk, src.path) = "file" -> Then(EnsureParent(r, w, dst), LAMBDA v : CopyOneFile(r, v.w, src, dst))
    [] OTHER -> Fail(w)

\* A destination that is a directory takes the source under its own name.
InDirectory(w, src, to, slash) ==
  IF ~slash /\ Kind(w.disk, to.path) # "dir" THEN Verdict(TRUE, to, w)
  ELSE IF src.path = <<>> THEN Fail(w) ELSE JoinGuarded(w, to, <<Last(src.path)>>)

(***************************************************************************)
(* The commands.  c is [r, cwd, run]: the resolver, the base of relative   *)
(* paths and the working directory of the run.                             *)
(***************************************************************************)
Mkdir(c, w, p) == Then(Resolve(c.r, w, c.cwd, p), LAMBDA t : MakeDir(c.r, t.w, t.g.path))

Write(c, w, p, v) ==
  Then(Resolve(c.r, w, c.cwd, p), LAMBDA t :
  Then(EnsureParent(c.r, t.w, t.g), LAMBDA e : Store(c.r, e.w, t.g, File(v))))

AppendTo(c, w, p, v) ==
  Then(Resolve(c.r, w, c.cwd, p), LAMBDA t :
  Then(EnsureParent(c.r, t.w, t.g), LAMBDA e :
  Then(CheckAccess(c.r, e.w, t.g.path), LAMBDA a :
  Then(ParentMade(a.w, a.g), LAMBDA up : OnDisk(up.w, a.g, AppendFile(up.w.disk, a.g.path, v))))))

\* READ and LS.
Look(c, w, p, kind) ==
  Then(Resolve(c.r, w, c.cwd, p), LAMBDA t :
  Then(CheckRead(c.r, t.w, t.g.path), LAMBDA v : Verdict(Kind(v.w.disk, v.g.path) = kind, v.g, v.w)))

Copy(c, w, target, p, q) ==
  Then(ResolveCopySourceFrom(c.r, w, target, p), LAMBDA from :
  Then(Resolve(c.r, from.w, c.cwd, q), LAMBDA to :
  Then(IF Kind(to.w.disk, from.g.path) = "file" THEN InDirectory(to.w, from.g, to.g, q.slash) ELSE to, LAMBDA at :
  CopyEntry(c.r, at.w, from.g, at.g))))

Symlink(c, w, target, p, q) ==
  LET Linked(to, from) ==
        Then(RecheckSource(c.r, to.w, from.g), LAMBDA src : Then(CheckAccess(c.r, src.w, to.g.path), LAMBDA dst :
        LET dir == Canonicalize(dst.w.disk, Front(dst.g.path)) IN
        IF \/ Exists(dst.w.disk, dst.g.path)
           \/ src.g.path = dst.g.path
           \/ Kind(dst.w.disk, Front(dst.g.path)) # "dir"
           \/ LstatPath(dst.w.disk, dst.g.path) # Missing
        THEN Fail(dst.w)
        ELSE OnDisk(dst.w, dst.g, Done(TRUE, With(dst.w.disk, Append(dir, Last(dst.g.path)), Link(src.g.path))))))
  IN Then(Resolve(c.r, w, c.cwd, q), LAMBDA to :
     Then(ResolveCopySourceFrom(c.r, to.w, target, p), LAMBDA from :
     Then(InDirectory(from.w, from.g, to.g, q.slash), LAMBDA at : Linked(at, from))))

\* The payload is read whole, staged beside the destination and renamed over
\* it, which fails on a directory.
Install(c, w, p, q) ==
  Then(Resolve(c.r, w, c.cwd, p), LAMBDA from : Then(Resolve(c.r, from.w, c.cwd, q), LAMBDA to :
  Then(EnsureParent(c.r, to.w, to.g), LAMBDA e : Then(CheckAccess(c.r, e.w, to.g.path), LAMBDA dst :
  Then(RecheckSource(c.r, dst.w, from.g), LAMBDA src :
  LET d == src.w.disk
      at == LstatPath(d, dst.g.path)
      dir == Canonicalize(d, Front(dst.g.path))
  IN IF \/ Kind(d, src.g.path) # "file"
        \/ dst.g.path = <<>>
        \/ Kind(d, Front(dst.g.path)) # "dir"
        \/ at # Missing /\ d[at].kind = "dir"
     THEN Fail(src.w)
     ELSE OnDisk(src.w, dst.g, Done(TRUE, With(d, Append(dir, Last(dst.g.path)), d[Canonicalize(d, src.g.path)])))))))) 

\* A final link is unlinked, never followed.
RemoveLink(c, w, p) ==
  IF p.parts = <<>> \/ Last(p.parts) = ".." THEN Fail(w)
  ELSE Then(Resolve(c.r, w, c.cwd, [p EXCEPT !.parts = Front(@)]), LAMBDA dir :
       Verdict(TRUE, Guarded(dir.g.root, Append(dir.g.path, Last(p.parts))), dir.w))

\* Mutant: ancestors of the working directory are not protected.
DeletionGuardedExactly(c, w, target, cwd) ==
  target = cwd \/ target = Whole(WorkspaceRoot) \/ target = Whole(EffectiveRoot(c.r, w))

\* The deletion guard compares guarded paths, the root they were resolved
\* under included.
DeletionGuarded(c, w, target, cwd) ==
  \/ target = cwd
  \/ Under(cwd.path, target.path)
  \/ target = Whole(WorkspaceRoot)
  \/ target = Whole(EffectiveRoot(c.r, w))

RemovePath(c, w, p, recursive) ==
  LET Cwd(t) == OrElse(CheckRead(c.r, t.w, c.run.path), LAMBDA v : Verdict(TRUE, c.run, v.w))
      Unlink(v) == OnDisk(v.w, v.g, Done(TRUE, RemoveTree(v.w.disk, LstatPath(v.w.disk, v.g.path))))
      Delete(v, target) ==
        CASE LinkKind(v.w.disk, target.path) = "file" -> Then(CheckAccess(c.r, v.w, target.path), Unlink)
          [] LinkKind(v.w.disk, target.path) = "dir" ->
               Then(CheckAccess(c.r, v.w, target.path), LAMBDA a :
               IF recursive \/ Children(a.w.disk, LstatPath(a.w.disk, a.g.path)) = {} THEN Unlink(a) ELSE Fail(a.w))
          [] OTHER -> Fail(v.w)
  IN Then(Resolve(c.r, w, c.cwd, p), LAMBDA t : Then(Cwd(t), LAMBDA cwd :
     IF DeletionGuarded(c, cwd.w, t.g, cwd.g) THEN Fail(cwd.w)
     ELSE Then(RemoveLink(c, cwd.w, p), LAMBDA l :
          IF LinkKind(l.w.disk, l.g.path) = "link" THEN Unlink(l) ELSE Delete(l, t.g))))

(***************************************************************************)
(* ARCHIVE and UNARCHIVE.                                                  *)
(***************************************************************************)
ResolveArchiveSrc(c, w, p) ==
  LET name == Last(p.parts)
      parent == IF ~p.abs /\ Len(p.parts) = 1 THEN Verdict(TRUE, c.cwd, w)
                ELSE Resolve(c.r, w, c.cwd, [p EXCEPT !.parts = Front(@)])
      Probe(dir, listed) ==
        LET d == listed.w.disk
            at == Append(Canonicalize(d, listed.g.path), name)
        IN CASE at \notin DOMAIN d -> Resolve(c.r, listed.w, c.cwd, p)
             [] at \in DOMAIN d /\ d[at].kind = "link" -> Fail(listed.w)
             [] OTHER -> JoinGuarded(listed.w, dir, <<name>>)
  IN IF p.parts = <<>> \/ name = ".." THEN Resolve(c.r, w, c.cwd, p)
     ELSE Then(parent, LAMBDA dir : Then(CheckRead(c.r, dir.w, dir.g.path), LAMBDA listed :
          IF Kind(listed.w.disk, listed.g.path) # "dir" THEN Fail(listed.w) ELSE Probe(dir.g, listed)))

\* Mutant: the walk does not descend.
CollectShallow(d, src) ==
  IF Kind(d, src) = "file" THEN {<<<<Last(src)>>, d[Canonicalize(d, src)]>>}
  ELSE {m \in Below(d, Canonicalize(d, src)) : Len(m[1]) = 1}

\* The members are collected before the destination is opened.
Collect(d, src) ==
  IF Kind(d, src) = "file" THEN {<<<<Last(src)>>, d[Canonicalize(d, src)]>>} ELSE Below(d, Canonicalize(d, src))

Archive(c, w, p, q) ==
  LET Pack(src, dst) ==
        LET members == Collect(dst.w.disk, src.path) IN
        IF \/ dst.g = src
           \/ Under(dst.g.path, src.path) /\ Exists(dst.w.disk, dst.g.path)
           \/ ~Exists(dst.w.disk, src.path)
           \/ \E m \in members : m[2].kind = "link"
        THEN Fail(dst.w)
        ELSE Then(EnsureParent(c.r, dst.w, dst.g), LAMBDA v : Store(c.r, v.w, dst.g, Tarball(members)))
  IN Then(ResolveArchiveSrc(c, w, p), LAMBDA src :
     Then(Resolve(c.r, src.w, c.cwd, q), LAMBDA dst : Pack(src.g, dst)))

\* No component of a member below the destination is a link, nor a file that
\* would have to be a directory.
PlainAncestors(d, base, rel) ==
  \A k \in 1..Len(rel) : /\ LinkKind(d, base \o SubSeq(rel, 1, k)) # "link"
                         /\ k < Len(rel) => Kind(d, base \o SubSeq(rel, 1, k)) # "file"

Unarchive(c, w, p, q) ==
  LET Member(dst, v, m) ==
        IF ~PlainAncestors(v.w.disk, dst.path, m[1]) THEN Fail(v.w)
        ELSE Then(JoinGuarded(v.w, dst, m[1]), LAMBDA at :
             IF m[2].kind = "dir" THEN MakeDir(c.r, at.w, at.g.path)
             ELSE Then(EnsureParent(c.r, at.w, at.g), LAMBDA e :
                  Then(CheckAccess(c.r, e.w, at.g.path), LAMBDA a :
                  Then(ParentMade(a.w, at.g), LAMBDA up : OnDisk(up.w, at.g, PutFile(up.w.disk, at.g.path, m[2]))))))
      Length(ms) == FoldLeft(LAMBDA n, m : n + Len(m[2].data), 0, ms)
      Extract(dst, v, ms) ==
        LET fit == CHOOSE k \in 0..Len(ms) :
                     Length(SubSeq(ms, 1, k)) <= ExpansionCap /\ (k < Len(ms) => Length(SubSeq(ms, 1, k + 1)) > ExpansionCap)
            out == FoldLeft(LAMBDA acc, m : Then(acc, LAMBDA a : Member(dst, a, m)), v, SubSeq(ms, 1, fit))
            room == ExpansionCap - Length(SubSeq(ms, 1, fit))
        IN IF fit = Len(ms) \/ ~out.ok THEN out
           ELSE Fail(Member(dst, out, <<ms[fit + 1][1], [ms[fit + 1][2] EXCEPT !.data = SubSeq(@, 1, room)]>>).w)
      Order(tree) == SetToSeq({m \in tree : m[2].kind = "dir"}) \o SetToSeq({m \in tree : m[2].kind = "file"})
  IN Then(Resolve(c.r, w, c.cwd, p), LAMBDA src : Then(Resolve(c.r, src.w, c.cwd, q), LAMBDA dst :
     Then(MakeDir(c.r, dst.w, dst.g.path), LAMBDA made : Then(CheckRead(c.r, made.w, src.g.path), LAMBDA s :
     LET at == Canonicalize(s.w.disk, s.g.path) IN
     IF Kind(s.w.disk, s.g.path) # "file" \/ s.w.disk[at].data # <<>> THEN Fail(s.w)
     ELSE Extract(dst.g, s, Order(s.w.disk[at].tree))))))

\* COPY_GIT writes the blobs of HEAD under the source, and with
\* --include-dirty the working tree's files over them.
CopyGit(c, w, p, q, dirty) ==
  LET Parent(v, g) == Then(NewGuarded(v.w, g.root, Front(g.path)), LAMBDA dir : MakeDir(c.r, dir.w, dir.g.path))
      Blob(to, rel, v, m) ==
        Then(JoinGuarded(v.w, to, SubSeq(m[1], Len(rel) + 1, Len(m[1]))), LAMBDA at :
        Then(Parent(at, at.g), LAMBDA made : Store(c.r, made.w, at.g, m[2])))
      Overlay(v, src, to) ==
        Then(Parent(v, to), LAMBDA made :
        IF Kind(made.w.disk, src.path) = "dir" THEN CopyDir(c.r, made.w, src, to) ELSE CopyOneFile(c.r, made.w, src, to))
      Blobs(v, src, to) ==
        LET rel == SubSeq(src.path, Len(BuildContext) + 1, Len(src.path))
            blobs == {m \in GitTree : IsPrefix(rel, m[1])}
        IN IF blobs = {} THEN Fail(v.w)
           ELSE Then(FoldLeft(LAMBDA acc, m : Then(acc, LAMBDA a : Blob(to, rel, a, m)), v, SetToSeq(blobs)),
                     LAMBDA done : IF dirty THEN Overlay(done, src, to) ELSE done)
  IN Then(Resolve(c.r, w, c.cwd, q), LAMBDA to : Then(ResolveCopySource(c.r, to.w, p), LAMBDA src :
     IF src.g.root # BuildContext THEN Fail(src.w)
     ELSE Then(CheckAccessWithRoot(c.r, src.w, EffectiveRoot(c.r, src.w), to.g.path), LAMBDA a :
          Then(CheckAccess(c.r, a.w, BuildContext), LAMBDA b : Blobs(b, src.g, to.g)))))

(***************************************************************************)
(* Selections and scopes.                                                  *)
(***************************************************************************)
\* Mutant: the working directory is kept as it is.
SystemEntryCwdKept(w, cwd) == cwd

SystemEntryCwd(w, cwd) ==
  CASE ~Under(cwd.path, Anchor) -> cwd
    [] Under(cwd.path, Anchor) /\ w.snap # Missing ->
         Guarded(w.snap, w.snap \o SubSeq(cwd.path, Len(Anchor) + 1, Len(cwd.path)))
    [] OTHER -> Whole(<<>>)

SwitchTo(s, w, target, local) ==
  LET r == [s EXCEPT !.sel = target, !.local = IF target = "cache" THEN local ELSE @] IN
  [r EXCEPT !.cwd = IF target = "system" THEN SystemEntryCwd(w, s.cwd) ELSE Whole(EffectiveRoot(r, w))]

\* Mutant: a cache root is only recognised in its current flavour.
SetRootCurrent(s, root) ==
  CASE root = BuildContext -> [s EXCEPT !.sel = "local"]
    [] root = <<>> -> [s EXCEPT !.sel = "system"]
    [] root = CacheGuard(s) -> [s EXCEPT !.sel = "cache"]
    [] OTHER -> [s EXCEPT !.sel = "snapshot"]

\* Only the selection is restored from a root, and with it the flavour of the
\* cache it belongs to.
SetRoot(s, root) ==
  CASE root = BuildContext -> [s EXCEPT !.sel = "local"]
    [] root = <<>> -> [s EXCEPT !.sel = "system"]
    [] root = OsCache -> [s EXCEPT !.sel = "cache", !.local = FALSE]
    [] root = CacheGuard([local |-> TRUE]) -> [s EXCEPT !.sel = "cache", !.local = TRUE]
    [] OTHER -> [s EXCEPT !.sel = "snapshot"]

PushScope(s, w) ==
  [s EXCEPT !.frames = Append(@, [cwd |-> s.cwd, root |-> EffectiveRoot(s, w), module |-> s.module])]

PopScope(s) ==
  [SetRoot(s, Last(s.frames).root) EXCEPT !.cwd = Last(s.frames).cwd, !.module = Last(s.frames).module,
                                          !.frames = Front(@)]

\* A call into a module starts in the module's directory, with the root the
\* run started with.
ModuleDirectory == Guarded(BuildContext, ModuleDir)
EnterModule(s, w) == [SetRoot(PushScope(s, w), Anchor) EXCEPT !.cwd = ModuleDirectory, !.module = TRUE]

\* Relative paths of module-owned code resolve against the module's file.
EffectiveCwd(s) == IF s.module THEN ModuleDirectory ELSE s.cwd

Context(s) == [r |-> s, cwd |-> EffectiveCwd(s), run |-> s.cwd]

(***************************************************************************)
(* The run.                                                                *)
(***************************************************************************)
NoPath == [abs |-> FALSE, parts |-> <<>>, slash |-> FALSE]

Init ==
  /\ setup \in Setups
  /\ st = [t \in Tasks |-> [sel |-> "snapshot", local |-> FALSE, cwd |-> Whole(Anchor), module |-> FALSE,
                            frames |-> <<>>, left |-> setup.steps,
                            status |-> IF t = Script THEN "run" ELSE "none"]]
  /\ world = [disk |-> setup.disk, snap |-> Missing]
  /\ last = [op |-> "none", task |-> Script, ok |-> TRUE, from |-> NoPath, to |-> NoPath]

CanRun(t, op) == st[t].status = "run" /\ st[t].left > 0 /\ op \in setup.ops

\* A command went through the disk: its verdict ends the task or not.
Ran(t, op, p, q, v, s) ==
  /\ world' = v.w
  /\ st' = [st EXCEPT ![t] = [IF v.ok THEN s ELSE st[t] EXCEPT !.left = @ - 1, !.status = IF v.ok THEN "run" ELSE "failed"]]
  /\ last' = [op |-> op, task |-> t, ok |-> v.ok, from |-> p, to |-> q]
  /\ UNCHANGED setup

FileCommand(t) ==
  LET c == Context(st[t]) IN
  \/ \E p \in setup.to :
       \/ CanRun(t, "mkdir") /\ Ran(t, "mkdir", NoPath, p, Mkdir(c, world, p), st[t])
       \/ CanRun(t, "write") /\ Ran(t, "write", NoPath, p, Write(c, world, p, <<t>>), st[t])
       \/ CanRun(t, "append") /\ Ran(t, "append", NoPath, p, AppendTo(c, world, p, <<t>>), st[t])
       \/ CanRun(t, "read") /\ Ran(t, "read", NoPath, p, Look(c, world, p, "file"), st[t])
       \/ CanRun(t, "ls") /\ Ran(t, "ls", NoPath, p, Look(c, world, p, "dir"), st[t])
       \/ \E rec \in BOOLEAN :
            CanRun(t, "remove") /\ Ran(t, "remove", NoPath, p, RemovePath(c, world, p, rec), st[t])
  \/ \E p \in setup.from, q \in setup.to :
       \/ \E target \in setup.targets :
            \/ CanRun(t, "copy") /\ Ran(t, "copy", p, q, Copy(c, world, target, p, q), st[t])
            \/ CanRun(t, "symlink") /\ Ran(t, "symlink", p, q, Symlink(c, world, target, p, q), st[t])
       \/ \E dirty \in BOOLEAN : CanRun(t, "copy_git") /\ Ran(t, "copy_git", p, q, CopyGit(c, world, p, q, dirty), st[t])
       \/ CanRun(t, "install") /\ Ran(t, "install", p, q, Install(c, world, p, q), st[t])
       \/ CanRun(t, "archive") /\ Ran(t, "archive", p, q, Archive(c, world, p, q), st[t])
       \/ CanRun(t, "unarchive") /\ Ran(t, "unarchive", p, q, Unarchive(c, world, p, q), st[t])

Workdir(t) ==
  \E p \in setup.to :
    LET v == ResolveWorkdir(st[t], world, EffectiveCwd(st[t]), p) IN
    CanRun(t, "workdir") /\ Ran(t, "workdir", NoPath, p, v, [st[t] EXCEPT !.cwd = v.g])

\* Steps that do no input or output.
Moved(t, op, s) == Ran(t, op, NoPath, NoPath, Verdict(TRUE, s.cwd, world), s)

WorkspaceTo(t) ==
  \E target \in {"snapshot", "local", "cache", "system"}, local \in BOOLEAN :
    /\ CanRun(t, "workspace") /\ (local => target = "cache")
    /\ Moved(t, "workspace", SwitchTo(st[t], world, target, local))

EnterBlock(t) == CanRun(t, "block") /\ Moved(t, "enter", PushScope(st[t], world))
CallModule(t) == CanRun(t, "call") /\ Moved(t, "call", EnterModule(st[t], world))
LeaveScope(t) == CanRun(t, "block") /\ st[t].frames # <<>> /\ Moved(t, "leave", PopScope(st[t]))

\* ASYNC: the block starts with a copy of the state of its task.
Fork(t) ==
  /\ st[Script].status = "run" /\ st[t].status = "none" /\ "fork" \in setup.ops
  /\ st' = [st EXCEPT ![t] = st[Script]]
  /\ last' = [last EXCEPT !.op = "fork", !.task = t]
  /\ UNCHANGED <<setup, world>>

Next == \E t \in Tasks : \/ FileCommand(t) \/ Workdir(t) \/ WorkspaceTo(t) \/ EnterBlock(t) \/ CallModule(t)
                         \/ LeaveScope(t) \/ Fork(t)

Spec == Init /\ [][Next]_vars

(***************************************************************************)
(* Properties.                                                             *)
(***************************************************************************)
Roots == {BuildContext, OsCache, SnapshotDir}
InRoots(p) == \E root \in Roots : Under(p, root) \/ Under(root, p)
Changed(d, e) == {p \in DOMAIN d \cup DOMAIN e : p \notin DOMAIN d \/ p \notin DOMAIN e \/ d[p] # e[p]}

\* The disk stays a tree: what is in a directory is in a directory that
\* exists, and no entry exists below a file or a link.
TreeStays ==
  \A p \in DOMAIN world.disk : p # <<>> => Front(p) \in DOMAIN world.disk /\ world.disk[Front(p)].kind = "dir"

\* No command ever creates the pending snapshot anchor, whatever the order of
\* selections, scopes and tasks in which paths below it are used.
AnchorNeverCreated == \A p \in DOMAIN world.disk : ~Under(p, Anchor)

\* A command outside WORKSPACE SYSTEM changes nothing outside the build
\* context, the cache and the snapshot, through links included.
Confined ==
  [][last'.op \notin {"none", "fork"} /\ st[last'.task].sel # "system"
       => \A p \in Changed(world.disk, world'.disk) : InRoots(p)]_vars

\* Leaving a block or a module returns to the root the caller had, whichever
\* roots the scope selected; a snapshot that was pending may now exist.
RootRestored ==
  [][last'.op = "leave" =>
       LET saved == Last(st[last'.task].frames).root IN
       EffectiveRoot(st'[last'.task], world') = IF saved = Anchor THEN EffectiveRoot([sel |-> "snapshot"], world') ELSE saved]_vars

\* A REMOVE leaves the working directory of its task and the root its paths
\* resolve under in place.
ContextKept ==
  [][last'.op = "remove" /\ last'.ok =>
       \A p \in {st[last'.task].cwd.path, EffectiveRoot(st[last'.task], world)} :
          Exists(world.disk, p) => Exists(world'.disk, p)]_vars

\* UNARCHIVE after ARCHIVE gives back the tree: what a successful UNARCHIVE
\* leaves below its destination is what the archive holds, and a successful
\* ARCHIVE holds the source as it was, the archive itself left out.
ArchiveFaithful ==
  [][/\ last'.op = "archive" /\ last'.ok =>
          LET c == Context(st[last'.task])
              src == ResolveArchiveSrc(c, world, last'.from)
              dst == Resolve(c.r, src.w, c.cwd, last'.to)
              d == dst.w.disk
          IN world'.disk[dst.g.path].tree = IF Kind(d, src.g.path) = "dir" THEN Below(d, src.g.path)
                                            ELSE {<<<<Last(src.g.path)>>, d[src.g.path]>>}
     /\ last'.op = "unarchive" /\ last'.ok =>
          LET c == Context(st[last'.task])
              src == Resolve(c.r, world, c.cwd, last'.from)
              dst == Resolve(c.r, src.w, c.cwd, last'.to)
          IN \A m \in src.w.disk[src.g.path].tree : world'.disk[dst.g.path \o m[1]] = m[2]]_vars

\* REMOVE never removes the workspace root, however its path is written.
WorkspaceKept == [][last'.op = "remove" /\ Exists(world.disk, WorkspaceRoot) => Exists(world'.disk, WorkspaceRoot)]_vars

\* ARCHIVE of a directory named in the working directory packs it.
BareArchiveWorks ==
  [][last'.op = "archive" =>
       LET c == Context(st[last'.task])
           src == Resolve(c.r, world, c.cwd, last'.from)
           dst == Resolve(c.r, src.w, c.cwd, last'.to)
       IN src.ok /\ dst.ok /\ Kind(src.w.disk, src.g.path) = "dir" /\ ~Exists(dst.w.disk, dst.g.path) => last'.ok]_vars

\* Module-owned code writes beside its own file.
ModuleWrites == [][last'.op = "write" /\ st[last'.task].module => last'.ok]_vars

\* The flavour of the cache a block selected ends with the block.
FlavourScoped == [][last'.op = "leave" => \A t \in Tasks : st[t].frames # <<>> /\ t = last'.task =>
                       (st'[t].sel # "cache" => st'[t].local = FALSE)]_vars
=============================================================================
