------------------------------ MODULE MCInterp ------------------------------
(***************************************************************************)
(* Scripts for the interpreter: hand-written ones for the commands and the *)
(* import rules, and every nest of constructs up to MaxNest deep around    *)
(* each way a body can end.  A RUN may fail wherever it stands.            *)
(***************************************************************************)
EXTENDS Interp

CONSTANTS v1, v2, local, MaxNest, Constructs, Ends

S(k) == [k |-> k, guard |-> None, enter |-> 0, exit |-> 0]
Run == S("RUN")
EnvTo(n, v) == [key |-> n, val |-> v] @@ S("ENV")
InheritN(ns) == [keys |-> ns] @@ S("INHERIT_ENV")
IsoInherit(ns) == [keys |-> ns] @@ S("ISOLATED_INHERIT_ENV")
Cd(d) == [dir |-> d] @@ S("WORKDIR")
Ws(r) == [root |-> r] @@ S("WORKSPACE")
Let(x, e) == [x |-> x, expr |-> e] @@ S("LET")
Set(x, e) == [x |-> x, expr |-> e] @@ S("SET")
Func(n, p, b) == [name |-> n, param |-> p, body |-> b] @@ S("FUNC")
Ret(e) == [expr |-> e] @@ S("RETURN")
Break == S("Break")
Continue == S("Continue")
Io(c) == [pipe |-> "p", cmd |-> c] @@ S("WITH_IO")
If(e, b, els) == [branches |-> <<[cond |-> e, body |-> b]>>, else |-> els] @@ S("IF")
Timeout(b) == [body |-> b] @@ S("TIMEOUT")
Isolated(b) == [body |-> b] @@ S("ISOLATED")
Remote(b) == [body |-> b] @@ S("REMOTE")
For(x, items, b) == [x |-> x, items |-> items, body |-> b] @@ S("FOR")
While(e, b) == [cond |-> e, body |-> b] @@ S("WHILE")
CallN(q, a, x) == [fn |-> q, arg |-> a, bind |-> x] @@ S("CALL")
Block(b, x) == [body |-> b, bind |-> x] @@ S("BLOCK")
Capture(c, x) == [cmd |-> c, bind |-> x] @@ S("CAPTURE")
Import(f, a, x) == [file |-> f, alias |-> a, bind |-> x] @@ S("IMPORT")
Harvest(f, a, ns) == [file |-> f, alias |-> a, names |-> ns, bind |-> None] @@ S("HARVEST")
Guarded(n, s) == [s EXCEPT !.guard = n]
\* A WITH_IO block: every step is wrapped, the first opens the block's scope
\* and the last closes it.
IoBlock(steps) ==
    [i \in 1..Len(steps) |->
        [Io(steps[i]) EXCEPT !.enter = IF i = 1 THEN 1 ELSE 0,
                             !.exit = IF i = Len(steps) THEN 1 ELSE 0]]
Fn(n) == <<"SCRIPT", n>>

HandScript ==
  [ loops |-> <<Let("p", Lit(v1)), Let("go", Lit(TRUE)),
                For("i", <<v1, v2, Bad>>, <<"forbody">>),
                EnvTo("A", v1)>>,
    forbody |-> <<EnvTo("A", v2), If(Var("go"), <<"next">>, <<"stop">>), Run>>
                 \o IoBlock(<<Cd("d"), Run>>),
    next |-> <<Cd("d"), Set("go", Lit(FALSE)), Continue>>,
    stop |-> <<Let("t", Lit(v1)), Break>>,
    whiles |-> <<Guarded("B", Run), Let("go", Lit(TRUE)), If(Lit(FALSE), <<"stop">>, None),
                 While(Var("go"), <<"whilebody">>), While(Var("nope"), <<"stop">>)>>,
    whilebody |-> <<Set("go", Lit(FALSE)), Func("F", None, <<"stop">>),
                    If(Lit(TRUE), <<"stop">>, None)>>,
    err1 |-> <<For("i", <<v1, Bad>>, <<"leaf">>)>>,
    err2 |-> <<Let("n", Lit(v1)), Set("m", Lit(v1))>>,
    err3 |-> <<Func("F", None, <<"id">>), Func("F", None, <<"id">>)>>,
    err4 |-> <<Let("x", Lit(v1)), Block(<<"getret">>, "x")>>,
    err5 |-> <<Io(Run)>>,
    err6 |-> <<Import(<<"leaf">>, "L", "x"), Import(<<"leaf">>, "M", "x")>>,
    err7 |-> <<If(Lit(v1), <<"stop">>, None)>>,
    err8 |-> <<Block(<<"id">>, "x")>>,
    err9 |-> <<Let("x", Lit(v1)), Func("F", None, <<"getret">>), CallN(Fn("F"), None, "x")>>,
    err10 |-> <<Harvest(<<"hcyc">>, "H", <<>>)>>,
    err11 |-> <<Let("x", Lit(v1)), Let("p", Lit(v1)), Capture(Io(Run), "x")>>,
    runaway |-> <<Timeout(<<"forever">>)>>,
    forever |-> <<While(Lit(TRUE), <<"leaf">>)>>,
    caller |-> <<Import(<<"lib">>, "L", None), Func("G", "n", <<"callpeek">>),
                 CallN(Fn("G"), Lit(v2), None)>>,
    callpeek |-> <<CallN(<<"L", "PEEK">>, None, None)>>,
    hcyc |-> <<Harvest(<<"hcyc">>, "H", <<>>)>>,
    calls |-> <<Let("p", Lit(v1)), Func("REC", "n", <<"rec">>), Func("ESC", None, <<"stop">>),
                CallN(Fn("REC"), Lit(v1), None)>>,
    rec |-> <<EnvTo("A", v2), Func("REC2", "m", <<"rec">>),
              If(Lit(TRUE), <<"recmore">>, None)>>,
    recmore |-> <<Cd("d"), Run, CallN(Fn("REC"), Var("n"), "r"), Ret(Var("r"))>>,
    values |-> <<Let("p", Lit(v1)), Func("GET", None, <<"get">>), Func("ESC", None, <<"stop">>),
                 CallN(Fn("GET"), None, "x"),
                 Block(<<"get">>, "y"), Capture(Io(Run), "z"), Capture(Timeout(<<"get">>), "w")>>,
    get |-> <<Func("GET", None, <<"stop">>), EnvTo("B", v2),
              If(Lit(FALSE), <<"stop">>, <<"getret">>)>>,
    getret |-> <<Run, Ret(Lit(v2))>>,
    bad |-> <<Func("ID", "n", <<"getret">>), CallN(Fn("ID"), Lit(Bad), None)>>,
    boxes |-> <<EnvTo("A", v1), Isolated(<<"box">>), Timeout(<<"box2">>), Remote(<<"box2">>),
                Remote(<<"getret">>)>>,
    box |-> <<IsoInherit({"A"}), Guarded("A", EnvTo("B", v1)), Isolated(<<"box2">>)>>,
    box2 |-> <<Ws(<<"local">>), EnvTo("C", v1), InheritN({"B", "C"}), Ws(<<>>), Run>>,
    mods |-> <<EnvTo("A", v1), Import(<<"lib">>, "M", None), Import(<<"lib">>, "L", None),
               Import(<<"lib">>, "R", "r"),
               CallN(<<"L", "BUMP">>, None, "x"), CallN(<<"M", "PEEK">>, None, "y"),
               Harvest(<<"util">>, "U", <<"ID">>), Harvest(<<"util">>, "SCRIPT", <<"ID">>),
               CallN(<<"U", "ID">>, Lit(v2), "z"),
               Harvest(<<"util">>, "SCRIPT", <<"ID", "SECRET">>)>>,
    lib |-> <<InheritN({"B"}), Let("n", Lit(v1)), EnvTo("A", v2),
              Func("BUMP", None, <<"bump">>), Func("PEEK", None, <<"peek">>),
              Import(<<"util">>, "U", None), CallN(<<"SCRIPT", "PEEK">>, None, None), Run, Ret(Lit(v2))>>,
    bump |-> <<Cd("d"), EnvTo("A", v1), Set("n", Lit(v2)), CallN(<<"U", "ID">>, Var("n"), "k"), Ret(Var("k"))>>,
    peek |-> <<Run, Ret(Var("n"))>>,
    util |-> <<Func("ID", "n", <<"id">>), Func("SECRET", None, <<"stop">>), Import(<<"leaf">>, "F", None)>>,
    id |-> <<Ret(Var("n"))>>,
    leaf |-> <<Let("n", Lit(v1))>>,
    cyc |-> <<Import(<<"cyca">>, "A", None)>>,
    cyca |-> <<Import(<<"cycb">>, "B", None)>>,
    lazy |-> <<Run, Import(<<"lazya">>, "A", "x")>>,
    lazya |-> <<Import(<<"lazya">>, "A", "y")>>,
    cycb |-> <<Let("t", Lit(v1)), If(Lit(TRUE), <<"cycc">>, None)>>,
    cycc |-> <<Import(<<"cyca">>, "A", None)>>,
    brk |-> <<Import(<<"brklib">>, "A", None)>>,
    brklib |-> <<Break>>,
    serve |-> <<Let("p", Lit(v1)), Import(<<"lib">>, "L", None), Import(<<"lib">>, "M", None),
                Import(<<"lib">>, "R", "r"), Func("REC", "n", <<"rec">>), Func("GET", None, <<"get">>), Func("ESC", None, <<"stop">>),
                Func("SPIN", None, <<"spin">>)>>,
    spin |-> <<Cd("d"), For("i", <<v1, v2>>, <<"spinbody">>), Run>>
             \o IoBlock(<<Run, EnvTo("A", v1)>>),
    spinbody |-> <<CallN(Fn("GET"), None, "x"), Set("x", Var("i"))>>,
    stray |-> <<IsoInherit({"A"})>> ]

\* A nest is a sequence of constructs, outermost first, and an end.
Nests == UNION {{cs \o <<e>> : cs \in [1..n -> Constructs], e \in Ends} : n \in 0..MaxNest}

Construct(c, inner) ==
    CASE c = "FOR"      -> <<For("i", <<v1, v2>>, inner)>>
      [] c = "WHILE"    -> <<Let("go", Lit(TRUE)), While(Var("go"), inner)>>
      [] c = "IF"       -> <<If(Lit(TRUE), inner, None)>>
      [] c = "TIMEOUT"  -> <<Timeout(inner)>>
      [] c = "ISOLATED" -> <<Isolated(inner)>>
      [] c = "REMOTE"   -> <<Remote(inner)>>
      [] c = "CALL"     -> <<Func("F", None, inner), CallN(Fn("F"), None, "x")>>
      [] c = "BLOCK"    -> <<Block(inner, "x")>>
      [] c = "CAPTURE"  -> <<Capture(Io(Isolated(inner)), "x")>>
      [] c = "IMPORT"   -> <<Import(inner, "L", None)>>
      [] c = "WITH_IO"  -> IoBlock(<<Let("t", Lit(v1)), If(Lit(TRUE), inner, None)>>)
      [] c = "WITH_IO+" -> IoBlock(<<If(Lit(TRUE), inner, None), Let("t", Lit(v1))>>)

NestBody(b) ==
    IF Len(b) > 1
    THEN <<EnvTo("A", v2), Cd("d")>> \o Construct(Head(b), Tail(b))
         \o <<Set("go", Lit(FALSE)), Run>>
    ELSE CASE b[1] = "Return" -> <<Set("go", Lit(FALSE)), Ret(Lit(v2))>>
           [] b[1] = "Run"    -> <<Set("go", Lit(FALSE)), Run>>
           [] OTHER           -> <<Set("go", Lit(FALSE)), S(b[1])>>

Entry(b) == <<"entry">> \o b
MCScript(b) ==
    CASE b[1] = "entry"           -> <<Let("p", Lit(v1)), Let("go", Lit(TRUE))>>
                                     \o NestBody(Tail(b))
      [] b[1] \in DOMAIN HandScript -> HandScript[b[1]]
      [] OTHER                    -> NestBody(b)

MCPrograms ==
    {<<n>> : n \in {"loops", "whiles", "calls", "values", "bad", "boxes", "mods", "cyc",
                    "brk", "stray", "serve", "err1", "err2", "err3", "err4", "err5", "err6",
                    "err7", "err8", "err9", "err10", "err11", "runaway"}}
    \cup {Entry(b) : b \in Nests}
MCNestPrograms == {Entry(b) : b \in Nests}
MCCallerPrograms == {<<"caller">>}
MCLazyPrograms == {<<"lazy">>}
MCTools == {Fn("SPIN"), Fn("GET"), Fn("ESC"), <<"L", "BUMP">>, <<"M", "PEEK">>}
MCExports ==
    [f \in {<<"util">>} |-> {"ID"}] @@ [f \in {<<"lib">>} |-> {"BUMP", "PEEK"}]
    @@ [f \in Nests \cup {<<"leaf">>, <<"cyca">>, <<"cycb">>, <<"brklib">>,
                      <<"hcyc">>,
                      <<"lazya">>} |-> {}]
MCFileDir == [f \in DOMAIN MCExports |-> <<"dir">> \o f]
MCEnvName == {"A", "B", "C"}
MCSeed == [n \in MCEnvName |-> Unset]
MCHost == [A |-> Unset, B |-> local, C |-> None]
MCInitialRoot == <<"root">>
=============================================================================
