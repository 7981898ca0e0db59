------------------------------- MODULE Interp -------------------------------
(***************************************************************************)
(* The script interpreter: the step loop, lexical scopes, control flow,    *)
(* functions, file imports and the session that keeps one interpreter      *)
(* alive across tool calls (crates/oxdock-core/src/exec: steps.rs,         *)
(* handlers.rs, state.rs, native.rs, import.rs, mcp.rs).                   *)
(*                                                                         *)
(* The Rust call stack is the variable `control', a sequence of frames,    *)
(* innermost last.  A frame that finishes leaves its `Result<Flow>' in     *)
(* `result', which the frame below consumes.  `st' is the `ExecState'.     *)
(* One action is one handler, or the part of one that runs before or       *)
(* after the body it executes.                                             *)
(***************************************************************************)
EXTENDS Naturals, Sequences, FiniteSetsExt, TLC

CONSTANTS
    Script(_),      \* file or block name -> its parsed steps
    Programs,       \* the entry scripts a run may be given
    Tools,          \* the functions a session may be asked for, by name
    MaxSession,     \* bound: tool calls one session serves
    Exports,        \* file -> the FUNC names it EXPORTs
    FileDir,        \* file -> its directory
    EnvName,        \* environment names the scripts use
    Seed,           \* the sandbox defaults: EnvName -> value
    Host,           \* the host environment: EnvName -> value, None if removed
    InitialRoot,    \* the run-initial workspace root, also the first cwd
    MaxCallDepth,   \* MAX_CALL_DEPTH
    MaxImportDepth, \* MAX_IMPORT_DEPTH
    MaxBodyNest,    \* bound: how deep the scripts nest bodies
    Unset,          \* an environment name with no value
    Empty, Output,  \* the values "" and a command's captured output
    Bad,            \* a value that no declared type accepts
    None

VARIABLES
    control, \* the active frames
    result,  \* what the frame that just finished returned, NoResult if none
    st,      \* ExecState
    calls    \* tool calls served so far

vars == <<control, result, st, calls>>

ASSUME DepthAssumption == MaxCallDepth \in Nat /\ MaxImportDepth \in Nat

\* A sequence as a stack, and its elements taken in order.  (SequencesExt has
\* them too; its size is felt by every proof about this module.)
Last(s) == s[Len(s)]
Front(s) == SubSeq(s, 1, Len(s) - 1)
InOrder(op(_, _), base, s) == MapThenFoldSet(op, base, LAMBDA i : s[i], Max, DOMAIN s)

-----------------------------------------------------------------------------
(* Results *)

Flow(f, v) == [flow |-> f, val |-> v]

NoResult == Flow("none", None)
Done == Flow("Done", None)
Failed == Flow("Err", None)

\* What a boundary that keeps values returns: RETURN's value or "".
BoundaryValue(r) ==
    CASE r.flow = "Done"   -> Flow("Value", Empty)
      [] r.flow = "Return" -> Flow("Value", r.val)
      [] OTHER             -> Failed

-----------------------------------------------------------------------------
(* Frames *)

StepsFrame(body) == [f |-> "steps", body |-> body, i |-> 1]
CmdFrame(cmd) == [f |-> "cmd", cmd |-> cmd]

Top == Last(control)
Body == Script(Top.body)

\* The interpreter's position when a construct is entered.  The model keeps
\* it with the frame; the code does not.
Mark(s) == [ctx |-> s.ctx, scopes |-> Len(s.scopes), funcs |-> s.funcs]

-----------------------------------------------------------------------------
(* ExecState: scopes, variables and the function registry *)

NoVars == <<>>
GlobalScope == [saved |-> None, vars |-> NoVars, defined |-> {},
                shadowed |-> NoVars]

InitialState ==
    [ctx |-> [cwd |-> InitialRoot, root |-> InitialRoot, envs |-> Seed],
     scopes |-> <<GlobalScope>>,
     funcs |-> NoVars,
     modules |-> NoVars,
     mstack |-> <<>>, istack |-> <<>>, aliasFrame |-> None,
     depth |-> 0, isolated |-> <<>>, token |-> FALSE]

PushScope(s) ==
    [s EXCEPT !.scopes =
        Append(@, [saved |-> s.ctx, vars |-> NoVars, defined |-> {},
                   shadowed |-> NoVars])]

\* The registry once a frame's definitions are undone.
Reverted(funcs, frame) ==
    LET kept == (DOMAIN funcs) \ frame.defined
    IN  frame.shadowed @@ [n \in kept |-> funcs[n]]

PopScope(s) ==
    IF Len(s.scopes) = 1 THEN s
    ELSE [s EXCEPT !.ctx = Last(s.scopes).saved,
                   !.funcs = Reverted(@, Last(s.scopes)),
                   !.scopes = Front(@)]

\* The last scope is the global one, which `pop_scope' refuses to pop.
Underflows(s, n) == Len(s.scopes) <= n

\* What entering and leaving scopes and defining functions may change.
Lexical(s) == [ctx |-> s.ctx, scopes |-> s.scopes, funcs |-> s.funcs]
WithLexical(s, l) == [s EXCEPT !.ctx = l.ctx, !.scopes = l.scopes, !.funcs = l.funcs]

PushScopes(s, n) ==
    WithLexical(s, FoldSet(LAMBDA k, l : PushScope(l), Lexical(s), 1..n))
RestoreScopes(s, n) ==
    WithLexical(s, FoldSet(LAMBDA k, l : PopScope(l), Lexical(s), 1..n))

CurrentModule(s) == IF s.mstack = <<>> THEN None ELSE Last(s.mstack)

\* The store of the module whose code is executing.
ModuleVars(s) ==
    LET m == CurrentModule(s)
    IN  IF m \in DOMAIN s.modules THEN s.modules[m].vars ELSE NoVars

ScopesWith(s, x) == {i \in 1..Len(s.scopes) : x \in DOMAIN s.scopes[i].vars}

IsBound(s, x) == ScopesWith(s, x) # {} \/ x \in DOMAIN ModuleVars(s)

GetVar(s, x) ==
    IF ScopesWith(s, x) # {}
    THEN s.scopes[Max(ScopesWith(s, x))].vars[x]
    ELSE ModuleVars(s)[x]

CanDeclare(s, x, v) == x \notin DOMAIN Last(s.scopes).vars /\ v # Bad

Declare(s, x, v) == [s EXCEPT !.scopes[Len(s.scopes)].vars = (x :> v) @@ @]

CanMutate(s, x, v) == IsBound(s, x) /\ v # Bad

Mutate(s, x, v) ==
    IF ScopesWith(s, x) # {}
    THEN [s EXCEPT !.scopes[Max(ScopesWith(s, x))].vars[x] = v]
    ELSE [s EXCEPT !.modules[CurrentModule(s)].vars[x] = v]

EffectiveCwd(s) ==
    IF CurrentModule(s) # None THEN FileDir[CurrentModule(s)] ELSE s.ctx.cwd

\* An operand is a literal or a variable.
Lit(v) == [lit |-> v]
Var(x) == [var |-> x]
CanEval(s, e) == "lit" \in DOMAIN e \/ IsBound(s, e.var)
Eval(s, e) == IF "lit" \in DOMAIN e THEN e.lit ELSE GetVar(s, e.var)

\* `define_script' and `define_aliased_in': the entry goes into the table,
\* the frame remembers the name and the entry it hides.
CanDefine(s, q, frame) == q \notin s.scopes[frame].defined

Define(s, q, entry, frame) ==
    [s EXCEPT
        !.funcs = (q :> entry) @@ @,
        !.scopes[frame].defined = @ \cup {q},
        !.scopes[frame].shadowed =
            IF q \in DOMAIN s.funcs THEN (q :> s.funcs[q]) @@ @ ELSE @]

-----------------------------------------------------------------------------
(* Environment operators *)

\* `inherit_env': a name the host has a value for is (re)inserted, one the
\* embedder removed (None) is dropped.
Inherit(envs, keys) ==
    [n \in EnvName |->
        CASE n \notin keys \/ Host[n] = Unset -> envs[n]
          [] n \in keys /\ Host[n] = None     -> Unset
          [] OTHER                             -> Host[n]]

\* `isolated_inherit_env': only from the snapshot the block was entered with.
InheritIsolated(envs, snapshot, keys) ==
    [n \in EnvName |->
        IF n \in keys /\ snapshot[n] # Unset THEN snapshot[n] ELSE envs[n]]

\* What a module's calls start from: the seed plus what its init changed.
ModuleEnv(before, after) ==
    [n \in EnvName |-> IF after[n] # before[n] THEN after[n] ELSE Seed[n]]

\* The names a file re-reads from the host on every call.
InheritNames(file) ==
    UNION {Script(file)[i].keys :
             i \in {j \in 1..Len(Script(file)) : Script(file)[j].k = "INHERIT_ENV"}}

-----------------------------------------------------------------------------
(* The step loop *)

\* The frame on top is replaced by `frames', which run next.
Enter(s, frames) ==
    /\ st' = s
    /\ control' = Front(control) \o frames
    /\ result' = NoResult

\* The frame on top finishes with r.
Finish(s, r) ==
    /\ st' = s
    /\ control' = Front(control)
    /\ result' = r

Running(kind) == control # <<>> /\ Top.f = kind /\ result = NoResult
Returned(kind) == control # <<>> /\ Top.f = kind /\ result # NoResult

\* The cancellation check that precedes every step.
StepCancelled ==
    /\ Running("steps") /\ Top.i <= Len(Body)
    /\ st.token
    /\ Finish(st, Failed)

\* Scope markers of the step, then its guard.
BeginStep ==
    /\ Running("steps") /\ Top.i <= Len(Body)
    /\ ~st.token
    /\ LET step == Body[Top.i]
           s == PushScopes(st, step.enter)
       IN  /\ st' = s
           /\ IF step.guard = None \/ s.ctx.envs[step.guard] # Unset
              THEN control' = Append(control, CmdFrame(step)) /\ result' = NoResult
              ELSE control' = control /\ result' = Done

\* Whatever the step returned, its scope exits are taken; only a step that is
\* Done is followed by the next one.
FinishStep ==
    /\ Returned("steps")
    /\ LET step == Body[Top.i]
           s == RestoreScopes(st, step.exit)
       IN  IF result.flow = "Err" \/ Underflows(st, step.exit)
           THEN Finish(s, Failed)
           ELSE IF result.flow # "Done"
           THEN Finish(s, result)
           ELSE /\ st' = s
                /\ control' = [control EXCEPT ![Len(control)].i = @ + 1]
                /\ result' = NoResult

EndBody ==
    /\ Running("steps") /\ Top.i > Len(Body)
    /\ Finish(st, Done)

-----------------------------------------------------------------------------
(* Commands *)

Command(kind) == Running("cmd") /\ Top.cmd.k = kind

\* A leaf command that leaves the interpreter's state alone, and may fail.
RunCommand ==
    /\ Command("RUN")
    /\ \E r \in {Done, Failed} : Finish(st, r)

Env ==
    /\ Command("ENV")
    /\ Finish([st EXCEPT !.ctx.envs[Top.cmd.key] = Top.cmd.val], Done)

InheritEnv ==
    /\ Command("INHERIT_ENV")
    /\ Finish([st EXCEPT !.ctx.envs = Inherit(@, Top.cmd.keys)], Done)

IsolatedInheritEnv ==
    /\ Command("ISOLATED_INHERIT_ENV")
    /\ IF st.isolated = <<>>
       THEN Finish(st, Failed)
       ELSE Finish([st EXCEPT !.ctx.envs =
                       InheritIsolated(@, Last(st.isolated), Top.cmd.keys)], Done)

\* The path is resolved under the executing module's directory, if any; one
\* that cannot be resolved is refused.
Workdir ==
    /\ Command("WORKDIR")
    /\ \/ Finish([st EXCEPT !.ctx.cwd = Append(EffectiveCwd(st), Top.cmd.dir)], Done)
       \/ Finish(st, Failed)

\* WORKSPACE SYSTEM, whose root is <<>>, keeps the working directory.
Workspace ==
    /\ Command("WORKSPACE")
    /\ Finish([st EXCEPT !.ctx.root = Top.cmd.root,
                         !.ctx.cwd = IF Top.cmd.root = <<>> THEN @ ELSE Top.cmd.root],
              Done)

Assign ==
    /\ Command("LET")
    /\ LET c == Top.cmd
       IN  IF CanEval(st, c.expr) /\ CanDeclare(st, c.x, Eval(st, c.expr))
           THEN Finish(Declare(st, c.x, Eval(st, c.expr)), Done)
           ELSE Finish(st, Failed)

SetVarValue ==
    /\ Command("SET")
    /\ LET c == Top.cmd
       IN  IF CanEval(st, c.expr) /\ CanMutate(st, c.x, Eval(st, c.expr))
           THEN Finish(Mutate(st, c.x, Eval(st, c.expr)), Done)
           ELSE Finish(st, Failed)

DefineFunc ==
    /\ Command("FUNC")
    /\ LET q == <<"SCRIPT", Top.cmd.name>>
           entry == [body |-> Top.cmd.body, param |-> Top.cmd.param,
                     owner |-> CurrentModule(st)]
       IN  IF CanDefine(st, q, Len(st.scopes))
           THEN Finish(Define(st, q, entry, Len(st.scopes)), Done)
           ELSE Finish(st, Failed)

HandleReturn ==
    /\ Command("RETURN")
    /\ IF CanEval(st, Top.cmd.expr)
       THEN Finish(st, Flow("Return", Eval(st, Top.cmd.expr)))
       ELSE Finish(st, Failed)

BreakOrContinue ==
    /\ Running("cmd") /\ Top.cmd.k \in {"Break", "Continue"}
    /\ Finish(st, Flow(Top.cmd.k, None))

\* `with_io': the pipes are resolved, then the command runs as a single step.
WithIo ==
    /\ Command("WITH_IO")
    /\ IF IsBound(st, Top.cmd.pipe)
       THEN Enter(st, <<CmdFrame(Top.cmd.cmd)>>)
       ELSE Finish(st, Failed)

-----------------------------------------------------------------------------
(* Scoped bodies: IF, TIMEOUT, ISOLATED, the guest side of REMOTE *)

\* `execute_scoped_steps'
ScopedSteps(s, body) == <<[f |-> "scoped", at |-> Mark(s)], StepsFrame(body)>>

ScopedReturns ==
    /\ Returned("scoped")
    /\ Finish(PopScope(st), IF Underflows(st, 1) THEN Failed ELSE result)

\* The first branch whose condition is not FALSE; past the end, the ELSE body.
IfBranch(s, branches) ==
    Min({i \in 1..Len(branches) : ~CanEval(s, branches[i].cond)
                                  \/ Eval(s, branches[i].cond) # FALSE}
        \cup {Len(branches) + 1})

IfThen ==
    /\ Command("IF")
    /\ LET bs == Top.cmd.branches
           i == IfBranch(st, bs)
           taken == i <= Len(bs) /\ CanEval(st, bs[i].cond)
                                 /\ Eval(st, bs[i].cond) = TRUE
       IN  IF taken THEN Enter(PushScope(st), ScopedSteps(st, bs[i].body))
           ELSE IF i <= Len(bs) THEN Finish(st, Failed)
           ELSE IF Top.cmd.else = None THEN Finish(st, Done)
           ELSE Enter(PushScope(st), ScopedSteps(st, Top.cmd.else))

\* The deadline watcher runs beside the body until the body returns.
EnterTimeout ==
    /\ Command("TIMEOUT")
    /\ Enter(PushScope(st),
             <<[f |-> "timeout", initial |-> st.token, fired |-> FALSE]>>
                \o ScopedSteps(st, Top.cmd.body))

DeadlineForgetsToken ==
    \E i \in 1..Len(control) :
        /\ control[i].f = "timeout" /\ ~control[i].fired
        /\ control' = [control EXCEPT ![i].fired = TRUE]
        /\ UNCHANGED <<st, result, calls>>
DeadlineFires ==
    \E i \in 1..Len(control) :
        /\ control[i].f = "timeout" /\ ~control[i].fired
        /\ control' = [control EXCEPT ![i].fired = TRUE]
        /\ st' = [st EXCEPT !.token = TRUE]
        /\ UNCHANGED <<result, calls>>

TimeoutReturns ==
    /\ Returned("timeout")
    /\ IF Top.fired
       THEN Finish(st, Failed)
       ELSE Finish([st EXCEPT !.token = Top.initial], result)

EnterIsolated ==
    /\ Command("ISOLATED")
    /\ LET s == [st EXCEPT !.isolated = Append(@, st.ctx.envs), !.ctx.envs = Seed]
       IN  Enter(PushScope(s), <<[f |-> "isolated", at |-> Mark(st)]>>
                                   \o ScopedSteps(s, Top.cmd.body))

IsolatedReturns ==
    /\ Returned("isolated")
    /\ Finish([st EXCEPT !.ctx.envs = Last(st.isolated), !.isolated = Front(@)],
              result)

EnterRemoteBody ==
    /\ Command("REMOTE")
    /\ Enter(PushScope(st), <<[f |-> "remote"]>> \o ScopedSteps(st, Top.cmd.body))

RemoteBodyReturns ==
    /\ Returned("remote")
    /\ Finish(st, IF result = Done THEN Done ELSE Failed)

-----------------------------------------------------------------------------
(* Loops *)

EnterFor ==
    /\ Command("FOR")
    /\ Enter(st, <<[f |-> "for", items |-> Top.cmd.items, x |-> Top.cmd.x,
                    body |-> Top.cmd.body, at |-> Mark(st)]>>)

ForNext ==
    /\ Running("for") /\ Top.items # <<>>
    /\ LET s == PushScope(st)
           item == Head(Top.items)
       IN  IF CanDeclare(s, Top.x, item)
           THEN Enter(Declare(s, Top.x, item),
                      <<[Top EXCEPT !.items = Tail(@)], StepsFrame(Top.body)>>)
           ELSE Finish(s, Failed)

ForEnds ==
    /\ Running("for") /\ Top.items = <<>>
    /\ Finish(st, Done)

EnterWhile ==
    /\ Command("WHILE")
    /\ Enter(st, <<[f |-> "while", cond |-> Top.cmd.cond, body |-> Top.cmd.body,
                    at |-> Mark(st)]>>)

\* The condition is read in the scope around the loop.
WhileNext ==
    /\ Running("while")
    /\ IF st.token \/ ~CanEval(st, Top.cond) \/ Eval(st, Top.cond) \notin BOOLEAN
       THEN Finish(st, Failed)
       ELSE IF Eval(st, Top.cond)
       THEN Enter(PushScope(st), <<Top, StepsFrame(Top.body)>>)
       ELSE Finish(st, Done)

\* One iteration of either loop is over: its scope is popped.
IterationReturnsEarly ==
    /\ Returned("for") \/ Returned("while")
    /\ IF result.flow = "Continue" THEN Enter(st, <<Top>>)
       ELSE IF result.flow = "Done" THEN Enter(PopScope(st), <<Top>>)
       ELSE Finish(PopScope(st), IF result.flow = "Break" THEN Done ELSE result)
IterationReturns ==
    /\ Returned("for") \/ Returned("while")
    /\ LET s == PopScope(st)
       IN  CASE result.flow = "Err" \/ Underflows(st, 1) -> Finish(s, Failed)
             [] result.flow \in {"Done", "Continue"}     -> Enter(s, <<Top>>)
             [] result.flow = "Break"                    -> Finish(s, Done)
             [] OTHER                                    -> Finish(s, result)

-----------------------------------------------------------------------------
(* Functions and blocks that yield a value *)

\* A value reaches a LET binding, or is dropped when there is none.
Bind(s, x, r) ==
    IF r.flow # "Value" THEN Finish(s, Failed)
    ELSE IF x = None THEN Finish(s, Done)
    ELSE IF CanDeclare(s, x, r.val) THEN Finish(Declare(s, x, r.val), Done)
    ELSE Finish(s, Failed)

\* A module's function starts from the module's own context.
CallContext(s, owner) ==
    IF owner \notin DOMAIN s.modules THEN s
    ELSE [s EXCEPT !.ctx = [cwd |-> FileDir[owner], root |-> InitialRoot,
                            envs |-> Inherit(s.modules[owner].envs,
                                             InheritNames(owner))]]

\* Lookup, depth gate and arity gate come before the argument is evaluated.
CallRefused(s, c) ==
    \/ c.fn \notin DOMAIN s.funcs
    \/ s.depth >= MaxCallDepth
    \/ (c.arg = None) # (s.funcs[c.fn].param = None)
    \/ c.arg # None /\ ~CanEval(s, c.arg)

CallFuncValue ==
    /\ Command("CALL")
    /\ LET c == Top.cmd IN
       IF CallRefused(st, c) THEN Finish(st, Failed)
       ELSE LET def == st.funcs[c.fn]
                frame == [f |-> "call", bind |-> c.bind, owner |-> def.owner,
                          at |-> Mark(st)]
                inner == [PushScope(st) EXCEPT
                             !.depth = @ + 1, !.mstack = Append(@, def.owner)]
                s == CallContext(inner, def.owner)
            IN  IF def.param = None
                THEN Enter(s, <<frame, StepsFrame(def.body)>>)
                ELSE IF CanDeclare(s, def.param, Eval(st, c.arg))
                THEN Enter(Declare(s, def.param, Eval(st, c.arg)),
                           <<frame, StepsFrame(def.body)>>)
                ELSE /\ st' = s
                     /\ control' = Front(control) \o <<frame>>
                     /\ result' = Failed

CallReturnsKeepsDepth ==
    /\ Returned("call")
    /\ IF result.flow \notin {"Done", "Return"}
       THEN Finish(PopScope(st), Failed)
       ELSE Bind([PopScope(st) EXCEPT !.depth = @ - 1, !.mstack = Front(@)],
                 Top.bind, BoundaryValue(result))
CallReturnsKeepsEnv ==
    /\ Returned("call")
    /\ LET kept == IF Top.owner \in DOMAIN st.modules
                   THEN [st EXCEPT !.modules[Top.owner].envs = st.ctx.envs] ELSE st
           s == [PopScope(kept) EXCEPT !.depth = @ - 1, !.mstack = Front(@)]
       IN  Bind(s, Top.bind, BoundaryValue(result))
CallReturns ==
    /\ Returned("call")
    /\ LET s == [PopScope(st) EXCEPT !.depth = @ - 1, !.mstack = Front(@)]
       IN  Bind(s, Top.bind,
                IF Underflows(st, 1) THEN Failed ELSE BoundaryValue(result))

BlockValue ==
    /\ Command("BLOCK")
    /\ Enter(PushScope(st), <<[f |-> "block", bind |-> Top.cmd.bind,
                               at |-> Mark(st)], StepsFrame(Top.cmd.body)>>)

BlockReturns ==
    /\ Returned("block")
    /\ Bind(PopScope(st), Top.bind,
            IF Underflows(st, 1) THEN Failed ELSE BoundaryValue(result))

\* LET of a command that is neither a call nor an import binds its output;
\* no flow may leave it.
AssignCapture ==
    /\ Command("CAPTURE")
    /\ Enter(st, <<[f |-> "capture", bind |-> Top.cmd.bind],
                   CmdFrame(Top.cmd.cmd)>>)

CaptureReturns ==
    /\ Returned("capture")
    /\ Bind(st, Top.bind, IF result = Done THEN Flow("Value", Output) ELSE Failed)

-----------------------------------------------------------------------------
(* File imports *)

\* The chain of files being imported rejects cycles and bounds the depth.
LoadRefused(s, file) ==
    file \in Range(s.istack) \/ Len(s.istack) >= MaxImportDepth

\* The outermost import's caller frame receives every view.
EnterAliasFrame(s) ==
    IF s.istack = <<>> THEN [s EXCEPT !.aliasFrame = Len(s.scopes)] ELSE s

AliasFrame(s) == IF s.aliasFrame <= Len(s.scopes) THEN s.aliasFrame ELSE Len(s.scopes)

FuncSteps(file) ==
    SelectSeq(Script(file), LAMBDA step : step.k = "FUNC" /\ step.name \in Exports[file])

\* Views of the exported functions; a name already in the table is kept.
RegisterViews(s, file, alias) ==
    WithLexical(s,
        InOrder(LAMBDA step, l :
                    LET q == <<alias, step.name>>
                    IN  IF q \in DOMAIN l.funcs THEN l
                        ELSE Define(l, q, [body |-> step.body, param |-> step.param,
                                           owner |-> file], AliasFrame(s)),
                Lexical(s), FuncSteps(file)))

ImportFileReruns ==
    /\ Command("IMPORT")
    /\ LET c == Top.cmd
           s == RegisterViews(EnterAliasFrame(st), c.file, c.alias)
       IN  IF LoadRefused(st, c.file) THEN Finish(st, Failed)
           ELSE Enter([PushScope(s) EXCEPT !.istack = Append(@, c.file),
                                           !.mstack = Append(@, c.file)],
                      <<[f |-> "import", file |-> c.file, bind |-> c.bind,
                         before |-> s.ctx.envs, at |-> Mark(s)], StepsFrame(c.file)>>)
ImportFile ==
    /\ Command("IMPORT")
    /\ LET c == Top.cmd IN
       IF LoadRefused(st, c.file) THEN Finish(st, Failed)
       ELSE LET s == RegisterViews(EnterAliasFrame(st), c.file, c.alias)
            IN  IF c.file \in DOMAIN s.modules
                THEN Bind(s, c.bind, Flow("Value", s.modules[c.file].ret))
                ELSE Enter([PushScope(s) EXCEPT
                               !.istack = Append(@, c.file),
                               !.mstack = Append(@, c.file)],
                           <<[f |-> "import", file |-> c.file, bind |-> c.bind,
                              before |-> s.ctx.envs, at |-> Mark(s)],
                             StepsFrame(c.file)>>)

\* The init frame's bindings become the module's store before it is popped.
Initialised(s, file, before, val) ==
    LET store == [vars |-> Last(s.scopes).vars, ret |-> val,
                  envs |-> ModuleEnv(before, s.ctx.envs)]
    IN  [s EXCEPT !.modules = [f \in DOMAIN @ \cup {file} |->
                                 IF f = file THEN store ELSE s.modules[f]],
                  !.scopes[Len(s.scopes)].vars = NoVars]

PopImport(s) ==
    [s EXCEPT !.istack = Front(@),
              !.aliasFrame = IF Len(s.istack) = 1 THEN None ELSE @]

ImportReturns ==
    /\ Returned("import")
    /\ LET r == BoundaryValue(result)
           s == IF r.flow = "Value"
                THEN Initialised(st, Top.file, Top.before, r.val) ELSE st
           popped == PopImport([PopScope(s) EXCEPT !.mstack = Front(@)])
       IN  Bind(popped, Top.bind, IF Underflows(st, 1) THEN Failed ELSE r)

\* A harvest registers the named functions, in order, without running the
\* file; a bare name is defined like the importer's own FUNC.
FuncStep(file, name) ==
    LET found == {i \in 1..Len(Script(file)) : /\ Script(file)[i].k = "FUNC"
                                               /\ Script(file)[i].name = name}
    IN  IF found = {} THEN 0 ELSE Min(found)

HarvestOne(l, file, alias, name, frame) ==
    LET step == Script(file)[FuncStep(file, name)]
        entry == [body |-> step.body, param |-> step.param, owner |-> file]
        q == <<alias, name>>
    IN  IF alias = "SCRIPT" THEN Define(l, q, entry, Len(l.scopes))
        ELSE IF q \in DOMAIN l.funcs THEN l
        ELSE Define(l, q, entry, frame)

NameRefused(l, file, alias, name) ==
    \/ name \notin Exports[file] \/ FuncStep(file, name) = 0
    \/ alias = "SCRIPT" /\ ~CanDefine(l, <<alias, name>>, Len(l.scopes))

\* Scopes and functions once the names before the first refused one are
\* registered.
Harvested(s, c) ==
    InOrder(LAMBDA name, acc :
                IF ~acc.ok \/ NameRefused(acc.l, c.file, c.alias, name)
                THEN [acc EXCEPT !.ok = FALSE]
                ELSE [acc EXCEPT !.l = HarvestOne(@, c.file, c.alias, name, AliasFrame(s))],
            [l |-> Lexical(s), ok |-> TRUE], c.names)

ImportFuncs ==
    /\ Command("HARVEST")
    /\ LET c == Top.cmd
           load == [EnterAliasFrame(st) EXCEPT !.istack = Append(@, c.file)]
           h == Harvested(load, c)
           s == WithLexical(load, h.l)
       IN  IF LoadRefused(st, c.file) THEN Finish(st, Failed)
           ELSE IF h.ok THEN Enter(s, <<[f |-> "harvest", file |-> c.file, i |-> 1]>>)
           ELSE Finish(PopImport(s), Failed)

\* The file's own imports are the harvested functions' dependencies.
HarvestNext ==
    /\ Running("harvest") /\ Top.i <= Len(Script(Top.file))
    /\ LET step == Script(Top.file)[Top.i]
           next == [Top EXCEPT !.i = @ + 1]
       IN  Enter(st, IF step.k \in {"IMPORT", "HARVEST"}
                     THEN <<next, CmdFrame([step EXCEPT !.bind = None])>>
                     ELSE <<next>>)

HarvestReturns ==
    /\ \/ Running("harvest") /\ Top.i > Len(Script(Top.file))
       \/ Returned("harvest") /\ result.flow = "Err"
    /\ Finish(PopImport(st), IF result = NoResult THEN Done ELSE Failed)

HarvestContinues ==
    /\ Returned("harvest") /\ result.flow # "Err"
    /\ Enter(st, <<Top>>)

-----------------------------------------------------------------------------
(* The import closure, expanded before the first step *)

\* `child_bodies': the bodies of a step, seen through WITH_IO and LET.
Unwrapped(step) ==
    FoldSet(LAMBDA k, c : IF c.k \in {"WITH_IO", "CAPTURE"} THEN c.cmd ELSE c,
            step, 1..MaxBodyNest)

ChildBodiesOfBlocks(step) ==
    LET c == Unwrapped(step) IN
    IF c.k \in {"FOR", "WHILE", "TIMEOUT", "ISOLATED", "REMOTE"} THEN {c.body} ELSE {}
ChildBodies(step) ==
    LET c == Unwrapped(step) IN
    CASE c.k \in {"FOR", "WHILE", "FUNC", "TIMEOUT", "ISOLATED", "REMOTE"} -> {c.body}
      [] c.k = "IF" -> ({c.branches[i].body : i \in 1..Len(c.branches)} \cup {c.else})
                          \ {None}
      [] OTHER -> {}

\* Every body an `expand_walk' of b visits.
WalkedBodies(b) ==
    FoldSet(LAMBDA k, bs :
                bs \cup UNION {UNION {ChildBodies(Script(x)[i]) : i \in 1..Len(Script(x))} :
                                 x \in bs},
            {b}, 1..MaxBodyNest)

\* The import sites of a body: only steps that are themselves imports.
ImportSites(b) ==
    {<<Script(b)[i].file, Script(b)[i].k>> :
        i \in {j \in 1..Len(Script(b)) : Script(b)[j].k \in {"IMPORT", "HARVEST"}
                                         /\ Script(b)[j].bind = None}}

\* What a site's file imports: all of it, or its top level when harvested.
NestedSites(site) ==
    IF site[2] = "IMPORT" THEN UNION {ImportSites(b) : b \in WalkedBodies(site[1])}
    ELSE ImportSites(site[1])

\* `expand_import_closure' fails: some chain is too deep, or never ends.
ClosureRefused(program) ==
    FoldSet(LAMBDA k, sites : UNION {NestedSites(x) : x \in sites},
            {<<program, "IMPORT">>}, 1..(MaxImportDepth + 1)) # {}

-----------------------------------------------------------------------------
(* Sessions *)

\* `McpSession::call': the exported function runs on the session's own state.
SessionCall ==
    /\ control = <<>> /\ (result = Done \/ calls > 0)
    /\ calls < MaxSession
    /\ calls' = calls + 1
    /\ \E tool \in Tools :
          control' = <<CmdFrame([k |-> "CALL", fn |-> tool, arg |-> None, bind |-> None])>>
    /\ result' = NoResult
    /\ UNCHANGED st

-----------------------------------------------------------------------------

Init ==
    /\ \E p \in Programs :
          IF ClosureRefused(p) THEN control = <<>> /\ result = Failed
          ELSE control = <<StepsFrame(p)>> /\ result = NoResult
    /\ st = InitialState
    /\ calls = 0

Leaf ==
    \/ RunCommand \/ Env \/ InheritEnv \/ IsolatedInheritEnv \/ Workdir
    \/ Workspace \/ Assign \/ SetVarValue \/ DefineFunc \/ HandleReturn
    \/ BreakOrContinue

Compound ==
    \/ WithIo \/ IfThen \/ EnterTimeout \/ EnterIsolated \/ EnterRemoteBody
    \/ EnterFor \/ ForNext \/ ForEnds \/ EnterWhile \/ WhileNext
    \/ CallFuncValue \/ BlockValue \/ AssignCapture
    \/ ImportFile \/ ImportFuncs \/ HarvestNext

Return ==
    \/ ScopedReturns \/ TimeoutReturns \/ IsolatedReturns \/ RemoteBodyReturns
    \/ IterationReturns \/ CallReturns \/ BlockReturns \/ CaptureReturns
    \/ ImportReturns \/ HarvestReturns \/ HarvestContinues

Interpret ==
    /\ StepCancelled \/ BeginStep \/ FinishStep \/ EndBody \/ Leaf \/ Compound \/ Return
    /\ UNCHANGED calls

\* The run, or the session, is over.
Finished == control = <<>> /\ UNCHANGED vars

Next == Interpret \/ DeadlineFires \/ SessionCall \/ Finished

\* The interpreter's thread runs, and a deadline watcher polls the clock
\* every 10 ms until it fires or is told that the body is done.
Spec == Init /\ [][Next]_vars /\ WF_vars(Interpret) /\ WF_vars(DeadlineFires)
-----------------------------------------------------------------------------
(* Properties *)

Count(kinds) == Cardinality({i \in 1..Len(control) : control[i].f \in kinds})

\* Every stack of the interpreter's state is well formed and every frame on
\* the control stack is of a known kind.
TypeOK ==
    /\ \A i \in 1..Len(control) :
          control[i].f \in {"steps", "cmd", "scoped", "timeout", "isolated", "remote",
                           "for", "while", "call", "block", "capture", "import",
                           "harvest"}
    /\ result.flow \in {"none", "Done", "Break", "Continue", "Return", "Err"}
    /\ st.scopes[1] = [GlobalScope EXCEPT !.vars = st.scopes[1].vars,
                                          !.defined = st.scopes[1].defined,
                                          !.shadowed = st.scopes[1].shadowed]
    /\ DOMAIN st.ctx.envs = EnvName
    /\ st.token \in BOOLEAN /\ calls \in 0..MaxSession

\* The counters and stacks that `call_func_value', `import_file',
\* `import_funcs' and the ISOLATED guard push and pop by hand agree with the
\* constructs that are active, on every path: a failed or broken call leaves
\* no depth, module or snapshot behind, and recursion stays in its budget.
DepthsMatchFrames ==
    /\ st.depth = Count({"call"}) /\ st.depth <= MaxCallDepth
    /\ Len(st.mstack) = Count({"call", "import"})
    /\ Len(st.istack) = Count({"import", "harvest"})
    /\ Len(st.istack) <= MaxImportDepth
    /\ Len(st.isolated) = Count({"isolated"})

\* A construct that ends without an error leaves its caller's directory,
\* root, environment, scope depth and visible functions as it found them
\* ("the pop restores the caller on every path", handlers.rs:2550), loop
\* iterations included.
Restores(mark, s) ==
    s.ctx = mark.ctx /\ Len(s.scopes) = mark.scopes /\ s.funcs = mark.funcs

ScopesRestored ==
    [][ ( /\ control # <<>> /\ control' # <<>>
          /\ Top.f \in {"scoped", "isolated", "for", "while", "call", "block"}
          /\ result # NoResult /\ result'.flow # "Err"
          /\ Len(control') < Len(control) \/ result' = NoResult )
        => Restores(Top.at, st') ]_vars

\* A file is initialised at most once, whatever the order of imports and
\* harvests: it is never on the import chain twice, and no import of an
\* initialised file runs its body.
InitialisedOnce ==
    /\ \A i, j \in 1..Len(st.istack) : st.istack[i] = st.istack[j] => i = j
    /\ \A i \in 1..Len(control) :
          control[i].f = "import" => control[i].file \notin DOMAIN st.modules

\* Once a module is initialised, what its init left (the RETURN value, the
\* environment its calls start from, the set of its bindings) never changes,
\* and only its own code changes a binding.
StoreIsStable ==
    [][ \A m \in DOMAIN st.modules :
          /\ m \in DOMAIN st'.modules
          /\ st'.modules[m].ret = st.modules[m].ret
          /\ st'.modules[m].envs = st.modules[m].envs
          /\ DOMAIN st'.modules[m].vars = DOMAIN st.modules[m].vars
          /\ st'.modules[m].vars # st.modules[m].vars => CurrentModule(st) = m ]_vars

\* Every run and every tool call ends: recursion is cut off by the depth
\* budget, import chains by the cycle check, and a loop that never ends by
\* itself by the deadline around it, wherever in the loop it fires.
EventuallyIdle == []<>(control = <<>>)

\* "Cycles: circular imports and depth over 32 fail before the first step
\* runs" (README.md, Module rules): an import that runs is never refused.
ImportsCheckedFirst ==
    Running("cmd") /\ Top.cmd.k \in {"IMPORT", "HARVEST"} => ~LoadRefused(st, Top.cmd.file)

\* A file is checked before anything runs and runs at most once.
ImportsSound == InitialisedOnce /\ ImportsCheckedFirst

\* "Variables never cross" (README.md, Module rules): while a function of an
\* initialised module runs, a name its init bound is not taken by a binding
\* of the code that called it.
ModuleReadsItsOwn ==
    LET caller == Max({i \in 1..Len(control) : control[i].f = "call"}) IN
    CurrentModule(st) \in DOMAIN st.modules =>
        \A x \in DOMAIN ModuleVars(st) :
            \A i \in ScopesWith(st, x) : i > control[caller].at.scopes
=============================================================================
