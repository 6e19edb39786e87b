------------------------------- MODULE CLower -------------------------------
(***************************************************************************)
(* src/internal/clower/lower.go: expressions and types of the surface      *)
(* language, lowered to nodes of aotir.                                    *)
(*                                                                         *)
(* A surface expression is a record [k, s, f, ts, a]: its kind, its name   *)
(* or head, further names (operators, fields, parameters), type references *)
(* and its operands.  A type reference is [s, a].  A lowerer l has the     *)
(* declarations records, unions, variants (name -> its union), agents,     *)
(* externs (name -> [emit, ps, ret]) and fns (name -> [names, ps, ret]),   *)
(* the open frames scope, the number of loops around, the stamp ret of the *)
(* function being lowered and the number of temps it has used.  Its        *)
(* bindings also carry the name the variable has in the emitted code.      *)
(*                                                                         *)
(* Lowering yields a set: {n} when the expression lowers to node n, {}     *)
(* when the lowerer reports an error.                                      *)
(***************************************************************************)
EXTENDS IRTypes, SequencesExt

Surf(k, s, f, ts, a) == [k |-> k, s |-> s, f |-> f, ts |-> ts, a |-> a]
If(p, n) == IF p THEN {n} ELSE {}

LBinding(st, mut, name) == [st |-> st, mut |-> mut, name |-> name]

-----------------------------------------------------------------------------
(* What the expr...Name, expr...Type and exprFunSig helpers of the lowerer *)
(* read off a node: of a list, of a map or set, of a name, of a carrier.   *)
Picked(n, fs) == [f \in DOMAIN Zero |->
                    IF f = "t" THEN n.t ELSE IF f \in fs THEN n.st[f] ELSE Zero[f]]
Holding(n, e, i) == [Zero EXCEPT !.t = n.t, !.elem = e, !.inner = i]
OwnList == {"ListLit", "AppendExpr", "ListSortAscExpr", "ListSliceExpr"}
MadeList == {"MapKeysExpr", "MapValuesExpr", "StrSplitExpr", "LinesExpr", "DatalogQueryExpr",
             "LoadCSVExpr", "ListMapExpr", "ListFilterExpr"}
KnownList(n) ==
    CASE n.k = "MapKeysExpr" -> Holding(n, n.st.key, "")
      [] n.k = "MapValuesExpr" -> Holding(n, n.st.val, n.st.lval)
      [] n.k = "LoadCSVExpr" -> Holding(n, "list", "string")
      [] n.k \in {"ListMapExpr", "ListFilterExpr"} -> Holding(n, n.st.elem, "")
      [] OTHER -> Holding(n, "string", "")
MapsAndSets == {"JsonDecodeExpr", "MapLit", "OMapLiteralExpr", "OMapSetExpr", "SetLiteralExpr",
                "SetAddExpr"}
KnownMap(n) ==
    CASE n.k = "JsonDecodeExpr" -> MapOf("map", "string", "string")
      [] n.k = "MapLit" -> Picked(n, {"key", "val", "lval"})
      [] n.k \in {"OMapLiteralExpr", "OMapSetExpr"} -> Picked(n, {"key", "val"})
      [] OTHER -> Holding(n, n.st.elem, "")
NameOf == [RecordLit |-> "rec", UnionVarRef |-> "union", VariantLit |-> "union", AgentLit |-> "agent",
           AgentSpawnExpr |-> "agent"]
CarriedBy == [FunLit |-> "sig", ChanMakeExpr |-> "msg", StreamMakeExpr |-> "msg",
              SubMakeExpr |-> "msg", SubMakeLimitExpr |-> "msg", AsyncExpr |-> "msg"]
Known(n) ==
    CASE n.k = "VarRef" -> Picked(n, DOMAIN Zero)
      [] n.k = "CallExpr" -> Picked(n, DOMAIN Zero \ {"msg", "agent"})
      [] n.k = "IndexExpr" -> [ElementOf(n.st) EXCEPT !.erec = n.st.erec, !.inner = n.st.inner]
      [] n.k \in OwnList -> Picked(n, {"elem", "erec", "inner", "mk", "mv"})
      [] n.k \in MadeList -> KnownList(n)
      [] n.k \in MapsAndSets -> KnownMap(n)
      [] n.k \in DOMAIN NameOf -> Picked(n, {NameOf[n.k]})
      [] n.k \in DOMAIN CarriedBy -> Picked(n, {CarriedBy[n.k]})
      [] OTHER -> Only(n.t)

(* The type a list, map, set or omap operation records of its receiver.    *)
ListStamp(w) == [Zero EXCEPT !.t = "list", !.elem = w.elem, !.erec = w.erec,
                             !.inner = IF w.elem = "list" THEN w.inner ELSE "",
                             !.mk = IF w.elem = "map" THEN w.mk ELSE "",
                             !.mv = IF w.elem = "map" THEN w.mv ELSE ""]
MapStamp(w) == [MapOf(w.t, w.key, w.val) EXCEPT !.lval = w.lval]

-----------------------------------------------------------------------------
(* typeFromRef and its helpers for element, key and value references.      *)
Element(w) ==
    CASE w.t \in Scalars -> {ListOf(w.t)}
      [] w.t = "record" -> {[ListOf("record") EXCEPT !.erec = w.rec]}
      [] w.t = "list" /\ w.elem \in Scalars -> {[ListOf("list") EXCEPT !.inner = w.elem]}
      [] w.t = "map" /\ w.val \in Scalars ->
            {[ListOf("map") EXCEPT !.mk = w.key, !.mv = w.val]}
      [] OTHER -> {}
Entry(t, k, w) ==
    CASE k.t \in Keys /\ w.t \in Scalars -> {MapOf(t, k.t, w.t)}
      [] k.t \in Keys /\ w.t = "list" /\ w.elem \in Scalars ->
            {[MapOf(t, k.t, "list") EXCEPT !.lval = IF t = "map" THEN w.elem ELSE ""]}
      [] OTHER -> {}
Signature(ws) ==
    LET ps == Front(ws) IN
    If(/\ \A i \in DOMAIN ps : ps[i].t \in Scalars
       /\ Last(ws).t \in Scalars \cup {"unit"},
       FunOf([i \in DOMAIN ps |-> ps[i].t], Last(ws).t))
Applied(s, ws) ==
    CASE s = "list" /\ Len(ws) = 1 -> Element(ws[1])
      [] s = "set" /\ Len(ws) = 1 -> If(ws[1].t \in Scalars, SetOf(ws[1].t))
      [] s \in {"map", "omap"} /\ Len(ws) = 2 -> Entry(s, ws[1], ws[2])
      [] s \in Carriers /\ Len(ws) = 1 -> If(ws[1].t \in Scalars, Carrying(s, ws[1].t))
      [] s = "future" /\ Len(ws) = 1 -> {Carrying(s, ws[1].t)}
      [] s = "fun" -> Signature(ws)
      [] OTHER -> {}
RECURSIVE typeFromRef(_, _)
RECURSIVE typesFromRefs(_, _)
typesFromRefs(l, rs) ==
    IF rs = <<>> THEN {<<>>}
    ELSE {<<w>> \o ws : w \in typeFromRef(l, Head(rs)), ws \in typesFromRefs(l, Tail(rs))}
typeFromRef(l, r) ==
    CASE r.a # <<>> -> UNION {Applied(r.s, ws) : ws \in typesFromRefs(l, r.a)}
      [] r.s \in Scalars \cup {"unit", "value"} -> {Only(r.s)}
      [] r.s \in DOMAIN l.records -> {Named("record", r.s)}
      [] r.s \in DOMAIN l.unions -> {Named("union", r.s)}
      [] OTHER -> {}

-----------------------------------------------------------------------------
(* opForTypes: the operators a pair of operands of type t may stand under, *)
(* and the aotir operator and result.                                      *)
Equalities == {"==", "!="}
Comparisons == Equalities \cup {"<", "<=", ">", ">="}
OpsOn(t) ==
    CASE t = "int" -> {"+", "-", "*", "/", "%"} \cup Comparisons
      [] t = "float" -> {"+", "-", "*", "/"} \cup Comparisons
      [] t = "string" -> {"+"} \cup Equalities
      [] t = "bool" -> {"&&", "||"} \cup Equalities
      [] t \in {"record", "list", "map"} -> Equalities
      [] OTHER -> {}
OpName == ("+" :> "Add") @@ ("-" :> "Sub") @@ ("*" :> "Mul") @@ ("/" :> "Div") @@ ("%" :> "Mod")
          @@ ("==" :> "Eq") @@ ("!=" :> "Ne") @@ ("<" :> "Lt") @@ ("<=" :> "Le")
          @@ (">" :> "Gt") @@ (">=" :> "Ge") @@ ("&&" :> "And") @@ ("||" :> "Or")
TypeName == [int |-> "I64", float |-> "F64", bool |-> "Bool", string |-> "Str",
             record |-> "Rec", list |-> "List", map |-> "Map"]
opForTypes(op, t, u) ==
    IF t # u \/ op \notin OpsOn(t) THEN {}
    ELSE IF t = "string" /\ op = "+" THEN {<<"StrCat", "string">>}
    ELSE {<<OpName[op] \o TypeName[t],
            IF op \in Comparisons \cup {"&&", "||"} THEN "bool" ELSE t>>}

(* `x in c`.                                                               *)
Membership(x, c) ==
    LET w == Known(c) IN
    CASE c.t = "map" ->
            If(x.t = w.key, Node("MapHasExpr", "bool", MapStamp(w), "", <<c, x>>))
      [] c.t = "set" ->
            If(x.t = w.elem, Node("SetHasExpr", "bool", SetOf(w.elem), "", <<c, x>>))
      [] c.t = "list" ->
            If(x.t = w.elem /\ x.t \in Scalars,
               Node("ListContainsExpr", "bool", ListOf(w.elem), "", <<c, x>>))
      [] OTHER -> {}
Combine(op, x, y) ==
    IF op = "in" THEN Membership(x, y)
    ELSE {Plain("BinaryExpr", b[2], b[1], <<x, y>>) : b \in opForTypes(op, x.t, y.t)}

(* lowerBinary: the parser leaves a chain of operators and operands, which *)
(* is combined from the left.                                              *)
RECURSIVE Chained(_, _, _)
Chained(x, ops, ys) ==
    IF ops = <<>> THEN {x}
    ELSE UNION {Chained(n, Tail(ops), Tail(ys)) : n \in Combine(Head(ops), x, Head(ys))}
lowerBinary(e, a) == Chained(Head(a), e.f, Tail(a))

lowerUnary(op, x) ==
    CASE op = "-" /\ x.t = "int" -> {Plain("UnaryExpr", "int", "NegI64", <<x>>)}
      [] op = "-" /\ x.t = "float" -> {Plain("UnaryExpr", "float", "NegF64", <<x>>)}
      [] op = "!" /\ x.t = "bool" -> {Plain("UnaryExpr", "bool", "NotBool", <<x>>)}
      [] OTHER -> {}

-----------------------------------------------------------------------------
(* Names: a variable, or a function of the program used as a value, which  *)
(* gets a shim.  A FunLit stands for the function lifted for it: s.frame   *)
(* are its parameters and captures, a its body, s.pre the variables its    *)
(* fixed arguments were hoisted into.                                      *)
Reference(b) ==
    IF b.st.t = "union" THEN Typed("UnionVarRef", Named("union", b.st.union), b.name, <<>>)
    ELSE Typed("VarRef", [b.st EXCEPT !.sig = <<>>], b.name, <<>>)
Param(n, t) == Plain("VarRef", t, n, <<>>)
Frame(ns, ts) == [n \in ToSet(ns) |-> Binding(Only(ts[CHOOSE i \in DOMAIN ns : ns[i] = n]), FALSE)]
Lifted(ps, r, frame, pre, body) ==
    Node("FunLit", "fun", FunOf(ps, r), [frame |-> frame, pre |-> pre], <<body>>)
Emitted(f) == "mochi__" \o f
ShimCall(f, r, as) == Plain(IF r = "unit" THEN "CallStmt" ELSE "CallExpr", r, Emitted(f), as)
ScalarFun(ps, r) == (\A i \in DOMAIN ps : ps[i] \in Scalars) /\ r \in Scalars \cup {"unit"}
lowerFunRef(l, f) ==
    LET sig == l.fns[f]
        ps == [i \in DOMAIN sig.ps |-> sig.ps[i].t]
    IN  If(ScalarFun(ps, sig.ret.t),
           Lifted(ps, sig.ret.t, Frame(sig.names, ps), <<>>,
                  ShimCall(f, sig.ret.t, [i \in DOMAIN ps |-> Param(sig.names[i], ps[i])])))

(* The union a variant belongs to: the last one declared with it.          *)
VariantOf(l, v) == IF v \in DOMAIN l.variants THEN {l.variants[v]} ELSE {}
Variant(u, v, a) == Typed("VariantLit", Named("union", u), v, a)
lowerIdent(l, n) ==
    CASE \E u \in VariantOf(l, n) : l.unions[u][n] = <<>> ->
            {Variant(u, n, <<>>) : u \in VariantOf(l, n)}
      [] n \in Visible(l.scope) -> {Reference(Found(l.scope, n))}
      [] n \in DOMAIN l.fns -> lowerFunRef(l, n)
      [] OTHER -> {}

(* A string with holes: the parts are converted and concatenated.          *)
Text(b) == CASE b.st.t = "string" -> {Reference(b)}
             [] b.st.t \in {"int", "float", "bool"} ->
                    {Plain("StrConvertExpr", "string", "", <<Reference(b)>>)}
             [] OTHER -> {}
Joined(x, y) == Plain("BinaryExpr", "string", "StrCat", <<x, y>>)
StringLit == Plain("StringLit", "string", "", <<>>)
lowerFmtString(l, holes) ==
    LET Glue(ns, h) == IF h \notin Visible(l.scope) THEN {}
                       ELSE {Joined(n, x) : n \in ns, x \in Text(Found(l.scope, h))}
    IN  FoldLeft(Glue, {StringLit}, holes)

-----------------------------------------------------------------------------
(* Operations on a receiver.                                               *)
lowerIndexOp(x, i) ==
    LET w == Known(x) IN
    CASE x.t = "list" ->
            If(i.t = "int", Node("IndexExpr", w.elem, ListStamp(w), "", <<x, i>>))
      [] x.t = "map" ->
            If(i.t = w.key, Node("MapGetExpr", w.val, MapStamp(w), "", <<x, i>>))
      [] x.t = "omap" ->
            If(i.t = w.key, Node("OMapGetExpr", w.val, MapOf("omap", w.key, w.val), "", <<x, i>>))
      [] x.t = "string" -> If(i.t = "int", Plain("StrIndexExpr", "string", "", <<x, i>>))
      [] OTHER -> {}
lowerListSliceOp(x, lo, hi) ==
    If(x.t = "list" /\ lo.t = "int" /\ hi.t = "int",
       Typed("ListSliceExpr", [Known(x) EXCEPT !.t = "list", !.rec = "", !.key = "", !.val = ""],
             "", <<x, lo, hi>>))

(* The field of a record; an intent of an agent, as a function value that  *)
(* closes over the agent's variable.                                       *)
lowerAgentMethodRefAsValue(it, x) ==
    If(x.k = "VarRef" /\ ScalarFun(it.ps, it.ret),
       Node("FunLit", "fun", FunOf(it.ps, it.ret), [frame |-> NoFrame, pre |-> <<>>], <<>>))
lowerFieldOp(l, x, f) ==
    LET w == Known(x) IN
    CASE x.t = "record" /\ w.rec \in DOMAIN l.records ->
            {Node("FieldAccess", d.t, Named("record", w.rec), f, <<x>>) :
                d \in {c \in ToSet(l.records[w.rec]) : c.n = f}}
      [] x.t = "agent" /\ w.agent \in DOMAIN l.agents
            /\ f \in DOMAIN l.agents[w.agent].intents ->
            lowerAgentMethodRefAsValue(l.agents[w.agent].intents[f], x)
      [] OTHER -> {}

(* x.f(as): the one method of strings, or an intent that has a result.     *)
Heads(as) == [i \in DOMAIN as |-> as[i].t]
lowerStrMethodCallOp(x, f, as) ==
    If(f = "contains" /\ Heads(as) = <<"string">>,
       Plain("StrContainsExpr", "bool", "", <<x>> \o as))
lowerAgentMethodCallOp(it, x, f, as) ==
    If(Heads(as) = it.ps /\ it.ret # "unit",
       Node("AgentIntentCallExpr", it.ret, Named("agent", Known(x).agent), f, <<x>> \o as))
lowerMethodCall(l, x, f, as) ==
    LET w == Known(x) IN
    CASE x.t = "string" -> lowerStrMethodCallOp(x, f, as)
      [] x.t = "agent" /\ w.agent \in DOMAIN l.agents
            /\ f \in DOMAIN l.agents[w.agent].intents ->
            lowerAgentMethodCallOp(l.agents[w.agent].intents[f], x, f, as)
      [] OTHER -> {}

-----------------------------------------------------------------------------
(* Literals of composite type: the first element or entry decides, the     *)
(* others must agree with it.                                              *)
Agreeing(fs, a) == \A i \in DOMAIN a : Agree(fs, Known(a[i]), Known(a[1]))
lowerListLit(a) ==
    IF a = <<>> \/ ~Agreeing({"rec", "elem", "key", "val"}, a) THEN {}
    ELSE IF a[1].t = "future" THEN {Typed("ListLit", ListOf("future"), "", a)}
    ELSE {Typed("ListLit", w, "", a) : w \in Element(Known(a[1]))}
OddsOf(a) == [i \in 1..(Len(a) \div 2) |-> a[2 * i - 1]]
EvensOf(a) == [i \in 1..(Len(a) \div 2) |-> a[2 * i]]
lowerMapLit(a) ==
    IF a = <<>> \/ ~Agreeing({}, OddsOf(a)) \/ ~Agreeing({"elem"}, EvensOf(a)) THEN {}
    ELSE {Typed("MapLit", w, "", a) : w \in Entry("map", Known(a[1]), Known(a[2]))}
lowerOMapLit(a) ==
    If(a # <<>> /\ Agreeing({}, OddsOf(a)) /\ Agreeing({}, EvensOf(a)) /\ a[1].t \in Scalars,
       Typed("OMapLiteralExpr", MapOf("omap", a[1].t, a[2].t), "", a))
lowerSetLit(a) ==
    If(a # <<>> /\ Agreeing({}, a) /\ a[1].t \in Scalars,
       Typed("SetLiteralExpr", SetOf(a[1].t), "", a))

(* T { f: v, ... }: an agent, a variant or a record; the fields in the     *)
(* order of the declaration.  A variant's are not checked further.         *)
InOrder(decl, f, a) == [i \in DOMAIN decl |-> a[CHOOSE j \in DOMAIN f : f[j] = decl[i].n]]
Complete(decl, f) == {decl[i].n : i \in DOMAIN decl} \subseteq ToSet(f)
FieldsFit(decl, f, a) ==
    /\ Cardinality(ToSet(f)) = Len(f) /\ Complete(decl, f) /\ Len(f) = Len(decl)
    /\ \A i \in DOMAIN decl : InOrder(decl, f, a)[i].t = decl[i].t
Names(decl) == [i \in DOMAIN decl |-> decl[i].n]
lowerAgentLit(d, n, f, a) ==
    If(FieldsFit(d, f, a), Typed("AgentLit", Named("agent", n), "", InOrder(d, f, a)))
lowerVariantStructLit(d, u, n, f, a) == If(Complete(d, f), Variant(u, n, InOrder(d, f, a)))
lowerStructLit(l, n, f, a) ==
    CASE n \in DOMAIN l.agents -> lowerAgentLit(l.agents[n].fields, n, f, a)
      [] n \notin DOMAIN l.agents /\ VariantOf(l, n) # {} ->
            UNION {lowerVariantStructLit(l.unions[u][n], u, n, f, a) : u \in VariantOf(l, n)}
      [] n \in DOMAIN l.records \ DOMAIN l.agents /\ VariantOf(l, n) = {} ->
            LET d == l.records[n]
            IN  If(FieldsFit(d, f, a),
                   Typed("RecordLit", Named("record", n), Names(d), InOrder(d, f, a)))
      [] OTHER -> {}
lowerVariantConstructor(l, v, a) ==
    UNION {LET d == l.unions[u][v]
           IN  If(Heads(a) = [i \in DOMAIN d |-> d[i].t], Variant(u, v, a)) : u \in VariantOf(l, v)}

-----------------------------------------------------------------------------
(* Calls of builtin functions whose operands have fixed types.             *)
Fixed(k, hs, t) == [k |-> k, hs |-> hs, t |-> t]
StringCalls ==
    [substring |-> Fixed("StrSubstringExpr", <<"string", "int", "int">>, "string"),
     reverse |-> Fixed("StrReverseExpr", <<"string">>, "string"),
     upper |-> Fixed("StrUpperExpr", <<"string">>, "string"),
     lower |-> Fixed("StrLowerExpr", <<"string">>, "string"),
     split |-> Fixed("StrSplitExpr", <<"string", "string">>, "list"),
     join |-> Fixed("StrJoinExpr", <<"list", "string">>, "string")]
JsonCalls == [json_decode |-> Fixed("JsonDecodeExpr", <<"string">>, "map")]
RoundingCalls == [floor |-> Fixed("MathCallExpr", <<"float">>, "float"),
                  ceil |-> Fixed("MathCallExpr", <<"float">>, "float")]
ReadFileCalls == [readFile |-> Fixed("ReadFileExpr", <<"string">>, "string")]
ReadLinesCalls == [lines |-> Fixed("LinesExpr", <<"string">>, "list"),
                   loadCSV |-> Fixed("LoadCSVExpr", <<"string">>, "list")]
FixedCalls == StringCalls @@ JsonCalls @@ RoundingCalls @@ ReadFileCalls @@ ReadLinesCalls
lowerFixedCall(f, a) ==
    LET c == FixedCalls[f] IN If(Heads(a) = c.hs, Plain(c.k, c.t, f, a))

(* Conversions and arithmetic by operand type.                             *)
lowerAbsCall(a) ==
    CASE Heads(a) = <<"int">> -> {Plain("MathCallExpr", "int", "abs_i64", a)}
      [] Heads(a) = <<"float">> -> {Plain("MathCallExpr", "float", "abs_f64", a)}
      [] OTHER -> {}
lowerConversion(f, a) ==
    CASE f = "str" -> If(Len(a) = 1 /\ a[1].t \in Scalars, Plain("StrConvertExpr", "string", "", a))
      [] f = "int" -> IF Heads(a) = <<"int">> THEN {a[1]}
                      ELSE If(Heads(a) = <<"float">>, Plain("NumCastExpr", "int", "", a))

(* Collections.                                                            *)
lowerLenCall(x) ==
    LET w == Known(x) IN
    CASE x.t = "string" -> {Plain("StrLenExpr", "int", "", <<x>>)}
      [] x.t = "list" -> {Node("LenExpr", "int", ListStamp(w), "", <<x>>)}
      [] x.t = "map" -> {Node("MapLenExpr", "int", MapStamp(w), "", <<x>>)}
      [] x.t = "set" -> {Node("SetLenExpr", "int", SetOf(w.elem), "", <<x>>)}
      [] x.t = "omap" -> {Node("OMapLenExpr", "int", MapOf("omap", w.key, w.val), "", <<x>>)}
      [] OTHER -> {}
lowerAppendCall(x, v) ==
    LET w == ListStamp(Known(x)) IN
    If(x.t = "list" /\ Agree({"rec", "elem", "key", "val"}, Known(v), ElementOf(w)),
       Typed("AppendExpr", w, "", <<x, v>>))
lowerHasCall(x, v) ==
    LET w == Known(x) IN
    CASE x.t = "set" -> {Node("SetHasExpr", "bool", SetOf(w.elem), "", <<x, v>>)}
      [] x.t = "omap" -> If(v.t = w.key, Node("OMapHasExpr", "bool", MapOf("omap", w.key, w.val),
                                              "", <<x, v>>))
      [] x.t = "map" -> If(v.t = w.key, Node("MapHasExpr", "bool", MapStamp(w), "", <<x, v>>))
      [] OTHER -> {}
lowerMapPartCall(f, x) ==
    If(x.t = "map", Node(IF f = "keys" THEN "MapKeysExpr" ELSE "MapValuesExpr", "list",
                         MapStamp(Known(x)), "", <<x>>))
lowerAggregateCall(f, x) ==
    LET e == Known(x).elem
        ok == CASE f = "sum" -> {"int", "float"} [] OTHER -> {"int", "float", "string"}
        k == CASE f = "sum" -> "ListSumExpr" [] f = "min" -> "ListMinExpr" [] f = "max" -> "ListMaxExpr"
    IN  If(x.t = "list" /\ e \in ok, Node(k, e, ListOf(e), "", <<x>>))

(* map, filter and reduce.  The element type of a map is the result of a   *)
(* function literal and string for any other function value.               *)
lowerHigherOrderCall(f, a) ==
    CASE f = "map" ->
            If(Len(a) = 2, Typed("ListMapExpr",
                ListOf(IF a[2].k = "FunLit" THEN a[2].st.sig[2] ELSE "string"), "", a))
      [] f = "filter" -> If(Len(a) = 2, Typed("ListFilterExpr", ListOf(Known(a[1]).elem), "", a))
      [] f = "reduce" -> If(Len(a) = 3, Plain("ListFoldlExpr", a[3].t, "", a))

(* Channels, streams, subscriptions and futures.                           *)
CarriedIn(x, t) == x.t = t /\ Known(x).msg # ""
Taking(k, a) == LET m == Known(a[1]).msg IN Node(k, m, Carrying(a[1].t, m), "", a)
lowerRecvCall(a) == If(Len(a) = 1 /\ CarriedIn(a[1], "chan"), Taking("ChanRecvExpr", a))
lowerStreamCall(f, a) ==
    LET sub == Carrying("sub", Known(a[1]).msg)
    IN  CASE f = "recv_sub" -> If(Len(a) = 1 /\ CarriedIn(a[1], "sub"), Taking("SubRecvExpr", a))
          [] f = "subscribe" -> If(Len(a) = 1 /\ CarriedIn(a[1], "stream"),
                                   Typed("SubMakeExpr", sub, "", a))
          [] f = "subscribe_limit" ->
                If(Len(a) = 2 /\ CarriedIn(a[1], "stream") /\ a[2].t = "int",
                   Typed("SubMakeLimitExpr", sub, "", a))
lowerAwaitAllCall(a) ==
    If(Len(a) = 1 /\ a[1].t = "list",
       Typed("CallExpr", ListOf(IF a[1].k = "ListLit" /\ a[1].st.elem = "future"
                                THEN Known(a[1].a[1]).msg ELSE ""), "__await_all__", a))

(* lowerUserCallExpr's builtins: the first always win, the others give way *)
(* to a function of the program.                                           *)
Reserved == {"len", "append", "keys", "values", "has", "substring", "reverse", "str"}
Yielding == {"add", "upper", "lower", "split", "join", "int", "min", "max", "sum",
             "json_decode", "map", "filter", "reduce", "abs", "readFile", "lines", "loadCSV",
             "floor", "ceil", "recv", "subscribe", "subscribe_limit", "recv_sub", "await_all"}
lowerBuiltinCall(f, a) ==
    CASE a = <<>> -> {}
      [] f \in DOMAIN FixedCalls -> lowerFixedCall(f, a)
      [] f \in {"str", "int"} -> lowerConversion(f, a)
      [] f = "abs" -> lowerAbsCall(a)
      [] f \in {"map", "filter", "reduce"} -> lowerHigherOrderCall(f, a)
      [] f = "recv" -> lowerRecvCall(a)
      [] f \in {"recv_sub", "subscribe", "subscribe_limit"} -> lowerStreamCall(f, a)
      [] f = "await_all" -> lowerAwaitAllCall(a)
      [] f \in {"append", "has", "add"} /\ Len(a) # 2 -> {}
      [] f \in {"len", "keys", "values", "min", "max", "sum"} /\ Len(a) # 1 -> {}
      [] f = "len" -> lowerLenCall(a[1])
      [] f = "append" -> lowerAppendCall(a[1], a[2])
      [] f = "has" -> lowerHasCall(a[1], a[2])
      [] f = "add" -> If(a[1].t = "set", Typed("SetAddExpr", SetOf(Known(a[1]).elem), "", a))
      [] f \in {"keys", "values"} -> lowerMapPartCall(f, a[1])
      [] f \in {"min", "max", "sum"} -> lowerAggregateCall(f, a[1])

(* lowerCallArgs.                                                          *)
ArgumentsFit(a, ps) ==
    /\ Len(a) = Len(ps)
    /\ \A i \in DOMAIN ps :
        Agree({"rec", "erec", "inner", "mk", "mv", "lval"}
                \cup (IF ps[i].t = "list" THEN {"elem"} ELSE {})
                \cup (IF ps[i].t = "map" THEN {"key", "val"} ELSE {}), Known(a[i]), ps[i])
lowerFunVarCall(b, f, a) ==
    If(b.st.sig # <<>> /\ b.st.sig[2] # "unit" /\ Heads(a) = b.st.sig[1],
       Plain("FunCallExpr", b.st.sig[2], "", <<Typed("VarRef", b.st, f, <<>>)>> \o a))
lowerCall(l, f, a) ==
    CASE f \in Reserved \/ (f \in Yielding \ DOMAIN l.fns) -> lowerBuiltinCall(f, a)
      [] f \notin Reserved \cup (Yielding \ DOMAIN l.fns)
            /\ f \in Visible(l.scope) /\ Found(l.scope, f).st.t = "fun" ->
            lowerFunVarCall(Found(l.scope, f), f, a)
      [] OTHER ->
            IF f \in DOMAIN l.externs
            THEN If(/\ l.externs[f].ret # "unit"
                    /\ ArgumentsFit(a, [i \in DOMAIN l.externs[f].ps |-> Only(l.externs[f].ps[i])]),
                    Plain("CallExpr", l.externs[f].ret, l.externs[f].emit, a))
            ELSE IF f \in DOMAIN l.fns
            THEN If(l.fns[f].ret.t # "unit" /\ ArgumentsFit(a, l.fns[f].ps),
                    Typed("CallExpr", l.fns[f].ret, Emitted(f), a))
            ELSE {}

-----------------------------------------------------------------------------
(* scanFreeVarNames of a function expression with an expression for body.  *)
Scanned == {"chain", "unary", "call", "index", "list", "method"}
RECURSIVE Mentioned(_)
Mentioned(e) ==
    CASE e.k = "ident" -> {e.s}
      [] e.k = "field" -> Mentioned(e.a[1])
      [] e.k \in Scanned -> UNION {Mentioned(e.a[i]) : i \in DOMAIN e.a}
      [] OTHER -> {}

(* lowerFunExpr: its own lowerer sees the parameters and the captured      *)
(* variables, neither external functions nor agents.                       *)
Captured(l, e) == (Mentioned(e.a[1]) \ ToSet(e.f)) \cap Visible(l.scope)
Closed(n) == "__e->" \o n
InnerScope(l, e, ts) ==
    <<[n \in ToSet(e.f) \cup Captured(l, e) |->
        IF n \in ToSet(e.f)
        THEN LBinding(Only(ts[CHOOSE i \in DOMAIN e.f : e.f[i] = n]), FALSE, n)
        ELSE LBinding(Only(Found(l.scope, n).st.t), FALSE, Closed(n))]>>
InnerLowerer(l, e, ts) ==
    [l EXCEPT !.scope = InnerScope(l, e, ts), !.externs = NoFrame, !.agents = NoFrame,
              !.ret = Only(Last(ts)), !.loops = 0]
VerifierFrame(sc) ==
    [n \in {sc[1][m].name : m \in DOMAIN sc[1]} |->
        LET m == CHOOSE x \in DOMAIN sc[1] : sc[1][x].name = n IN Binding(sc[1][m].st, FALSE)]
FunExprOK(l, e, ws) ==
    /\ Cardinality(ToSet(e.f)) = Len(e.f)
    /\ Signature(ws) # {}
    /\ \A n \in Captured(l, e) : Found(l.scope, n).st.t \in Scalars

(* lowerPartialApply: f(x, _) becomes a closure over the fixed arguments.  *)
PartialName(i) == <<"__pa_0", "__pa_1", "__pa_2">>[i]
HoleName(i) == <<"__p0", "__p1", "__p2">>[i]
IsHole(e) == e.k = "ident" /\ e.s = "_"
Holes(e) == SelectSeq([i \in DOMAIN e.a |-> i], LAMBDA i : IsHole(e.a[i]))
FixedAt(e) == SelectSeq([i \in DOMAIN e.a |-> i], LAMBDA i : ~IsHole(e.a[i]))
lowerPartialApply(l, e, fixed) ==
    LET sig == l.fns[e.s]
        holes == Holes(e)
        kept == FixedAt(e)
        ps == [i \in DOMAIN holes |-> sig.ps[holes[i]].t]
        At(i) == fixed[CHOOSE j \in DOMAIN kept : kept[j] = i]
        frame == [n \in {HoleName(holes[i]) : i \in DOMAIN holes}
                        \cup {Closed(PartialName(i)) : i \in ToSet(kept)} |->
                    Binding(Only(IF \E i \in ToSet(kept) : n = Closed(PartialName(i))
                                 THEN At(CHOOSE i \in ToSet(kept) : n = Closed(PartialName(i))).t
                                 ELSE ps[CHOOSE i \in DOMAIN ps : n = HoleName(holes[i])]), FALSE)]
        args == [i \in DOMAIN e.a |-> IF IsHole(e.a[i]) THEN Param(HoleName(i), sig.ps[i].t)
                                      ELSE Param(Closed(PartialName(i)), At(i).t)]
    IN  If(ScalarFun(ps, sig.ret.t),
           Lifted(ps, sig.ret.t, frame,
                  [j \in DOMAIN kept |-> [n |-> PartialName(kept[j]), init |-> fixed[j]]],
                  ShimCall(e.s, sig.ret.t, args)))
IsPartial(l, e) ==
    /\ e.k = "call" /\ Holes(e) # <<>>
    /\ e.s \in DOMAIN l.fns \ (Reserved \cup DOMAIN l.externs)
    /\ Len(e.a) = Len(l.fns[e.s].ps)
    /\ VariantOf(l, e.s) = {} /\ e.s \notin Visible(l.scope)

-----------------------------------------------------------------------------
(* generate: the prompt, the model and the schema are strings; the schema  *)
(* is appended to the prompt.                                              *)
Given(f, a, n) == IF n \in ToSet(f) THEN a[CHOOSE i \in DOMAIN f : f[i] = n] ELSE StringLit
lowerGenerateExpr(f, a) ==
    LET prompt == IF "schema" \in ToSet(f)
                  THEN Joined(Joined(Given(f, a, "prompt"), StringLit), Given(f, a, "schema"))
                  ELSE Given(f, a, "prompt")
    IN  If(/\ ToSet(f) \subseteq {"prompt", "model", "schema"}
           /\ \A i \in DOMAIN a : a[i].t = "string",
           Plain("LLMGenerateExpr", "string", "", <<Given(f, a, "model"), prompt>>))

(* await: whatever its operand is, a future's element is known of it.      *)
lowerAwaitExpr(x) ==
    LET m == IF x.k \in {"AsyncExpr", "VarRef"} /\ x.t = "future" THEN Known(x).msg ELSE ""
    IN  If(m # "", Node("AwaitExpr", m, Carrying("future", m), "", <<x>>))

(* lowerPrimary and lowerPostfix, once the operands are lowered.           *)
Built(l, e, a) ==
    CASE e.k = "lit" -> {Plain("Literal", e.s, "", <<>>)}
      [] e.k = "fmt" -> lowerFmtString(l, e.f)
      [] e.k = "ident" -> lowerIdent(l, e.s)
      [] e.k = "chain" -> lowerBinary(e, a)
      [] e.k = "unary" -> lowerUnary(e.s, a[1])
      [] e.k = "index" -> lowerIndexOp(a[1], a[2])
      [] e.k = "slice" -> lowerListSliceOp(a[1], a[2], a[3])
      [] e.k = "field" -> lowerFieldOp(l, a[1], e.s)
      [] e.k = "method" -> lowerMethodCall(l, a[1], e.s, Tail(a))
      [] e.k = "list" -> lowerListLit(a)
      [] e.k = "map" -> lowerMapLit(a)
      [] e.k = "omap" -> lowerOMapLit(a)
      [] e.k = "set" -> lowerSetLit(a)
      [] e.k = "struct" -> lowerStructLit(l, e.s, e.f, a)
      [] e.k = "call" -> IF VariantOf(l, e.s) # {} THEN lowerVariantConstructor(l, e.s, a)
                         ELSE lowerCall(l, e.s, a)
      [] e.k = "spawn" -> If(e.s \in DOMAIN l.agents, Typed("AgentSpawnExpr", Named("agent", e.s), "", <<>>))
      [] e.k = "async" -> {Typed("AsyncExpr", Carrying("future", a[1].t), "", a)}
      [] e.k = "await" -> lowerAwaitExpr(a[1])
      [] e.k = "fetch" -> {Plain("HttpGetExpr", "string", "", a)}
      [] e.k = "generate" -> lowerGenerateExpr(e.f, a)
      [] e.k = "logic" -> {Plain("DatalogQueryExpr", "list", "", <<>>)}

RECURSIVE lowerExpr(_, _)
RECURSIVE lowerExprs(_, _)
lowerExprs(l, es) ==
    IF es = <<>> THEN {<<>>}
    ELSE {<<n>> \o ns : n \in lowerExpr(l, Head(es)), ns \in lowerExprs(l, Tail(es))}
lowerFunExpr(l, e) ==
    UNION {IF ~FunExprOK(l, e, ws) THEN {}
           ELSE LET ts == [i \in DOMAIN ws |-> ws[i].t] IN
                {Lifted(Front(ts), Last(ts), VerifierFrame(InnerScope(l, e, ts)), <<>>, n) :
                    n \in {m \in lowerExpr(InnerLowerer(l, e, ts), e.a[1]) : m.t = Last(ts)}} :
           ws \in typesFromRefs(l, e.ts)}
lowerExpr(l, e) ==
    CASE e.k = "fun" -> lowerFunExpr(l, e)
      [] IsPartial(l, e) ->
            UNION {lowerPartialApply(l, e, fixed) :
                    fixed \in lowerExprs(l, [j \in DOMAIN FixedAt(e) |-> e.a[FixedAt(e)[j]]])}
      [] OTHER -> UNION {Built(l, e, a) : a \in lowerExprs(l, e.a)}

(* The variables an expression hoists into the block it stands in.         *)
RECURSIVE Hoisted(_)
Hoisted(n) ==
    IF n.k = "FunLit" THEN n.s.pre
    ELSE FlattenSeq([i \in DOMAIN n.a |-> Hoisted(n.a[i])])
=============================================================================
