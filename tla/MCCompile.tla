----------------------------- MODULE MCCompile -----------------------------
(***************************************************************************)
(* The programs Compile is checked on: headers with every kind of          *)
(* declaration, among them some that Lower refuses, and statements that    *)
(* build every kind of value and then use what was bound.                  *)
(***************************************************************************)
EXTENDS Compile

Lit(t) == Surf("lit", t, <<>>, <<>>, <<>>)
Id(n) == Surf("ident", n, <<>>, <<>>, <<>>)
Call(f, a) == Surf("call", f, <<>>, <<>>, a)
Chain(ops, a) == Surf("chain", "", ops, <<>>, a)
On(k, s, a) == Surf(k, s, <<>>, <<>>, a)
Fun(ps, ts, body) == Surf("fun", "", ps, ts, <<body>>)
One1 == Lit("int")
Txt == Lit("string")
True == Lit("bool")
Half == Lit("float")

(* Declarations.                                                           *)
Field(n, r) == [n |-> n, r |-> r]
Record(n, fs) == [k |-> "type", n |-> n, variants |-> <<>>, fields |-> fs]
Union(n, vs) == [k |-> "type", n |-> n, variants |-> vs, fields |-> <<>>]
Extern(lang, n, ps, ret) == [k |-> "extern", lang |-> lang, n |-> n, ps |-> ps, ret |-> ret]
FunDecl(n, ps, ret) == [k |-> "fun", n |-> n, ps |-> ps, ret |-> ret]
Intent(a, n, ps, ret) == [k |-> "intent", agent |-> a, n |-> n, ps |-> ps, ret |-> ret]
Close(a) == [k |-> "close", agent |-> a, n |-> "on_close", ps |-> <<>>, ret |-> T("unit")]
AgentDecl(n, fs, us) == [k |-> "agent", n |-> n, fields |-> fs, units |-> us]
State(n, r, lit) == [n |-> n, r |-> r, lit |-> lit]

Point == Record("Point", <<Field("x", Ints), Field("tag", Strings)>>)
Shape0 == Union("Shape", <<[n |-> "Circle", fields |-> <<Field("r", Ints)>>],
                           [n |-> "Label", fields |-> <<Field("s", Strings), Field("w", Ints)>>],
                           [n |-> "Dot", fields |-> <<>>]>>)
Counter == AgentDecl("Counter", <<State("count", <<>>, "int"), State("name", <<Strings>>, "string")>>,
                     <<Intent("Counter", "inc", <<Field("by", Ints)>>, Ints),
                       Intent("Counter", "rename", <<Field("to", Strings)>>, T("unit")),
                       Close("Counter")>>)
Foreign == <<Extern("c", "puts", <<Field("s", Strings)>>, <<T("unit")>>),
             Extern("go", "sq", <<Field("x", Ints)>>, <<Ints>>),
             Extern("python", "load", <<>>, <<Strings>>),
             Extern("js", "now", <<>>, <<T("float")>>),
             Extern("java", "id", <<Field("x", Ints)>>, <<Ints>>)>>
Plus == FunDecl("plus", <<Field("a", Ints), Field("b", Ints)>>, Ints)
Say == FunDecl("say", <<Field("s", Strings)>>, T("unit"))

(* Functions whose parameters and results are of every type.               *)
PointType == T("Point")
Lists2 == Lists(Lists(Ints))
Rows == Lists(TA("map", <<Strings, Ints>>))
Counts == TA("map", <<Strings, Ints>>)
Groups == TA("map", <<Strings, Lists(Ints)>>)
UnOp == TA("fun", <<Ints, Ints>>)
Data == FunDecl("data", <<Field("xs", Lists(Ints)), Field("ps", Lists(PointType)),
                          Field("xss", Lists2), Field("rows", Rows)>>, Lists2)
Table == FunDecl("table", <<Field("m", Counts), Field("g", Groups), Field("p", PointType),
                            Field("q", T("float"))>>, Groups)
Apply == FunDecl("apply", <<Field("f", UnOp), Field("sh", T("Shape"))>>, T("Shape"))

Types == <<Point, Shape0>>
Outside == Types \o <<Counter>> \o Foreign \o <<Say>>
Collections == Types \o <<Plus, Data, Table, Apply>>
Bad == {<<Point, Point>>,
        <<Record("Pair", <<Field("p", Lists(Ints))>>)>>,
        <<Record("Pair", <<>>)>>,
        <<Union("Tree", <<[n |-> "Leaf", fields |-> <<Field("p", Lists(Ints))>>]>>)>>,
        <<Point, AgentDecl("Point", <<>>, <<>>)>>,
        <<AgentDecl("Bag", <<State("xs", <<Lists(Ints)>>, "")>>, <<>>)>>,
        <<AgentDecl("Bag", <<State("n", <<>>, "int")>>,
                    <<Intent("Bag", "put", <<Field("xs", Lists(Ints))>>, T("unit"))>>)>>,
        <<Extern("go", "sq", <<>>, <<Ints>>), Extern("go", "sq", <<>>, <<Strings>>)>>,
        <<FunDecl("main", <<>>, Ints)>>,
        <<Plus, Plus>>,
        <<FunDecl("deep", <<Field("x", Lists(Lists2))>>, Ints)>>}
MCHeaders == {Outside, Collections} \cup Bad

(* Statements.                                                             *)
S(k, n, r, a, arms) == [k |-> k, n |-> n, r |-> r, a |-> a, arms |-> arms]
Let(n, e) == S("let", n, <<>>, <<e>>, <<>>)
LetAs(n, r, e) == S("let", n, <<r>>, <<e>>, <<>>)
Var(n, e) == S("var", n, <<>>, <<e>>, <<>>)
VarAs(n, r, e) == S("var", n, <<r>>, <<e>>, <<>>)
Do(e) == S("expr", "", <<>>, <<e>>, <<>>)
Assign(n, e) == S("assign", n, <<>>, <<e>>, <<>>)
Put(n, i, e) == S("put", n, <<>>, <<i, e>>, <<>>)
Return(a) == S("return", "", <<>>, a, <<>>)
Arm1(v, ns, bare, guard, e) == [v |-> v, ns |-> ns, bare |-> bare, guard |-> guard, e |-> e]

PointLit == Surf("struct", "Point", <<"tag", "x">>, <<>>, <<Txt, One1>>)
V == Id("v")
Arms == <<Arm1("Circle", <<"r">>, FALSE, <<Chain(<<"<">>, <<Id("r"), One1>>)>>, Id("r")),
          Arm1("Label", <<"_", "t">>, FALSE, <<>>, Id("t")), Arm1("Dot", <<>>, TRUE, <<>>, One1),
          Arm1("_", <<>>, TRUE, <<>>, One1)>>
BadArms == <<Arm1("Circle", <<"r", "q">>, FALSE, <<>>, One1)>>

Bindings(n, es) == {Let(n, e) : e \in es}

(* Both headers: what every body may do.                                   *)
Jumps == {S("break", "", <<>>, <<>>, <<>>), S("continue", "", <<>>, <<>>, <<>>),
          Return(<<>>), Return(<<V>>)}
BlockStatements ==
    {S("if", "", <<>>, <<True>>, <<>>), S("for", "v", <<>>, <<One1, One1>>, <<>>),
     S("foreach", "y", <<>>, <<V>>, <<>>), S("try", "v", <<>>, <<>>, <<>>)}
Common ==
    Jumps \cup BlockStatements
    \cup {Let("z", Chain(<<"+">>, <<Id("y"), One1>>)), Var("v", One1), Assign("v", One1),
          LetAs("v", Ints, Txt), Do(Call("print", <<V>>))}

(* Agents, variants, futures, channels, streams, foreign functions.        *)
OutsideStatements ==
    Common
    \cup Bindings("v", {On("spawn", "Counter", <<>>),
                        Surf("struct", "Counter", <<"name", "count">>, <<>>, <<Txt, One1>>),
                        Call("Circle", <<One1>>), Surf("struct", "Label", <<"w", "s">>, <<>>, <<One1, Txt>>),
                        On("async", "", <<One1>>), Call("loadCSV", <<Txt>>)})
    \cup Bindings("w", {Call("await_all", <<On("list", "", <<On("async", "", <<One1>>)>>)>>), Id("Dot"),
                        On("logic", "", <<>>), Call("json_decode", <<Txt>>), Call("load", <<>>),
                        Surf("generate", "", <<"prompt", "schema">>, <<>>, <<Txt, Txt>>),
                        Call("now", <<>>), Call("id", <<Txt>>), On("await", "", <<V>>), Call("recv", <<V>>),
                        Call("subscribe", <<V>>), Call("recv_sub", <<Id("u")>>),
                        On("field", "inc", <<V>>), On("method", "inc", <<V, One1>>),
                        Surf("match", "", Arms, <<>>, <<V>>), Surf("fmt", "", <<"v">>, <<>>, <<>>)})
    \cup {LetAs("v", TA("chan", <<Ints>>), Call("make_chan", <<One1>>)),
          LetAs("v", TA("stream", <<Ints>>), Call("make_stream", <<One1>>)),
          Let("u", Call("subscribe_limit", <<V, One1>>)),
          Assign("count", Id("by")), Assign("name", Id("to")),
          S("emit", "", <<>>, <<V, One1>>, <<>>), S("fetch", "w", <<>>, <<Txt>>, <<>>),
          S("match", "", <<>>, <<V>>, Arms),
          Do(Call("say", <<Txt>>)), Do(Call("puts", <<Txt>>)), Do(Call("panic", <<One1, Txt>>)),
          Do(Call("send", <<V, One1>>)), Do(Call("writeFile", <<Txt, Txt>>)),
          Do(Call("saveCSV", <<Txt, V>>)), Do(On("method", "rename", <<V, Txt>>)),
          Do(On("method", "inc", <<V, Txt>>))}

(* Lists, maps, sets, records and functions.                               *)
Ones == On("list", "", <<One1>>)
Made0 ==
    {Ones, On("list", "", <<PointLit>>), On("list", "", <<Ones>>), On("map", "", <<Txt, One1>>),
     On("set", "", <<One1>>), Call("split", <<Txt, Txt>>),
     Call("append", <<Id("xss"), Id("xs")>>), On("index", "", <<Id("xss"), One1>>),
     On("index", "", <<Id("rows"), One1>>), Call("values", <<Id("g")>>)}
Uses ==
    {Call("len", <<V>>), On("index", "", <<V, One1>>), On("index", "", <<V, Txt>>),
     Call("append", <<V, One1>>), Call("append", <<V, PointLit>>), Call("has", <<V, One1>>),
     Call("add", <<V, One1>>), Call("max", <<V>>), Call("join", <<V, Txt>>), Call("keys", <<V>>),
     On("slice", "", <<V, One1, One1>>), On("list", "", <<V>>), On("map", "", <<Txt, V>>),
     Chain(<<"==">>, <<V, V>>), Fun(<<"e">>, <<Ints, Ints>>, Chain(<<"+">>, <<Id("e"), V>>))}
Others ==
    {On("list", "", <<On("map", "", <<Txt, One1>>)>>), On("list", "", <<One1, Txt>>),
     Call("reduce", <<Ones, Id("plus"), One1>>),
     Call("map", <<Ones, Fun(<<"e">>, <<Ints, Strings>>, Call("str", <<Id("e")>>))>>),
     Call("filter", <<Id("xs"), Fun(<<"e">>, <<Ints, Bools>>, Chain(<<"<">>, <<Id("e"), One1>>))>>),
     Chain(<<"+", "==">>, <<One1, One1, Txt>>), Chain(<<"*", "+", "<">>, <<One1, One1, One1, One1>>),
     On("unary", "-", <<Half>>), On("slice", "", <<Id("rows"), One1, One1>>),
     On("field", "tag", <<On("index", "", <<Id("ps"), One1>>)>>),
     Chain(<<"in">>, <<Txt, Id("m")>>), Call("f", <<One1>>), Call("plus", <<One1, Id("_")>>)}
CollectionStatements ==
    Common \cup Bindings("v", Made0) \cup Bindings("w", Uses \cup Others)
    \cup {VarAs("v", Lists2, On("list", "", <<>>)), VarAs("v", Counts, On("map", "", <<>>)),
          Var("v", On("omap", "", <<Txt, One1>>)), Var("v", Id("xs")),
          Assign("v", Id("xs")), Put("v", One1, Id("xs")), Put("v", One1, One1), Put("v", Txt, One1),
          S("while", "", <<>>, <<Chain(<<"<">>, <<V, One1>>)>>, <<>>),
          S("foreach", "v", <<>>, <<Id("xss")>>, <<>>), S("match", "", <<>>, <<Id("sh")>>, BadArms)}

MCStatements == [h \in MCHeaders |-> CASE h = Outside -> OutsideStatements
                                       [] h = Collections -> CollectionStatements
                                       [] OTHER -> {}]

(* A chain of two levels.                                                  *)
MCChains == [h \in {<<>>} |-> {Let("v", Chain(<<"*", "+">>, <<One1, One1, One1>>)),
                               Let("w", Chain(<<"+", "*">>, <<One1, One1, One1>>))}]
(* A fetch into a name that may be taken.                                  *)
MCFetches == [h \in {<<>>} |-> {Let("w", Txt), S("fetch", "w", <<>>, <<Txt>>, <<>>)}]
MCNoHeader == {<<>>}
=============================================================================
