------------------------------- MODULE Typing -------------------------------
(***************************************************************************)
(* The reference for CLower: what type an expression has, as a structural  *)
(* type [s, a], and how a chain of operators groups.  A set again, {} for  *)
(* an expression without a type.                                           *)
(*                                                                         *)
(* An environment g has the declarations of a lowerer, the types funs of   *)
(* the program's functions, and the frames vars, name -> set of types.     *)
(***************************************************************************)
EXTENDS CLower

T(s) == [s |-> s, a |-> <<>>]
TA(s, a) == [s |-> s, a |-> a]
Ints == T("int")
Bools == T("bool")
Strings == T("string")
Lists(t) == TA("list", <<t>>)

(* checkBinaryExpr: operators that bind tighter are applied first, those   *)
(* of one level from the left.                                             *)
Levels == <<{"*", "/", "%"}, {"+", "-"}, {"<", "<=", ">", ">="}, {"==", "!=", "in"},
            {"&&"}, {"||"}>>
Level(op) == CHOOSE i \in DOMAIN Levels : op \in Levels[i]
Tightest(ops) ==
    CHOOSE i \in DOMAIN ops : /\ \A j \in DOMAIN ops : Level(ops[i]) <= Level(ops[j])
                              /\ \A j \in 1 .. i - 1 : Level(ops[i]) < Level(ops[j])
Pair(op, x, y) == Surf("chain", "", <<op>>, <<>>, <<x, y>>)
RECURSIVE checkBinaryExpr(_, _)
checkBinaryExpr(ops, ys) ==
    IF Len(ops) <= 1 THEN (IF ops = <<>> THEN ys[1] ELSE Pair(ops[1], ys[1], ys[2]))
    ELSE LET i == Tightest(ops)
         IN  checkBinaryExpr(RemoveAt(ops, i),
                             SubSeq(ys, 1, i - 1) \o <<Pair(ops[i], ys[i], ys[i + 1])>>
                                \o SubSeq(ys, i + 2, Len(ys)))

(* How the operators of a lowered and of a surface expression nest.        *)
RECURSIVE NodeShape(_)
NodeShape(n) == IF n.k = "BinaryExpr" THEN [i \in 1 .. 2 |-> NodeShape(n.a[i])] ELSE <<>>
RECURSIVE Shape(_)
Shape(e) ==
    IF e.k # "chain" THEN <<>>
    ELSE IF Len(e.f) = 1 THEN [i \in 1 .. 2 |-> Shape(e.a[i])]
    ELSE Shape(checkBinaryExpr(e.f, e.a))

-----------------------------------------------------------------------------
(* Builtin functions, by the types of their operands.                      *)
FixedTypes == [split |-> Lists(Strings), lines |-> Lists(Strings),
               loadCSV |-> Lists(Lists(Strings)),
               json_decode |-> TA("map", <<Strings, Strings>>)]
BuiltinType(f, ts) ==
    CASE f \in DOMAIN FixedTypes -> {FixedTypes[f]}
      [] f \in DOMAIN FixedCalls -> {T(FixedCalls[f].t)}
      [] f \in {"len", "int"} -> {Ints}
      [] f = "has" -> {Bools}
      [] f = "str" -> {Strings}
      [] f \in {"append", "add", "filter", "abs"} -> {ts[1]}
      [] f \in {"keys", "values"} -> {Lists(ts[1].a[IF f = "keys" THEN 1 ELSE 2])}
      [] f \in {"min", "max", "sum", "recv", "recv_sub"} -> {ts[1].a[1]}
      [] f = "map" -> {Lists(Last(ts[2].a))}
      [] f = "reduce" -> {ts[3]}
      [] f \in {"subscribe", "subscribe_limit"} -> {TA("sub", ts[1].a)}
      [] f = "await_all" -> {Lists(ts[1].a[1].a[1])}
IndexType(t) == CASE t.s = "list" -> {t.a[1]}
                  [] t.s \in {"map", "omap"} -> {t.a[2]}
                  [] t.s = "string" -> {t}
                  [] OTHER -> {}
OpType(op, t, u) ==
    CASE op = "in" -> If(u.a # <<>> /\ u.a[1] = t, Bools)
      [] op \in Comparisons \cup {"&&", "||"} -> If(t = u, Bools)
      [] OTHER -> If(t = u, t)
MemberType(g, t, f) ==
    IF t.s \in DOMAIN g.agents THEN {T(g.agents[t.s].intents[f].ret)}
    ELSE IF t.s \in DOMAIN g.records THEN {T(d.t) : d \in {y \in ToSet(g.records[t.s]) : y.n = f}}
    ELSE If(f = "contains", Bools)
NamedType(g, n) ==
    CASE n \in DOMAIN g.variants -> {T(g.variants[n])}
      [] n \in Visible(g.vars) -> Found(g.vars, n)
      [] n \in DOMAIN g.funs -> {g.funs[n]}
      [] OTHER -> {}
CallType(g, e, ts) ==
    CASE e.s \in DOMAIN g.variants -> {T(g.variants[e.s])}
      [] e.s \in Reserved \/ (e.s \in Yielding \ DOMAIN g.funs) -> BuiltinType(e.s, ts)
      [] e.s \in Visible(g.vars) -> {Last(t.a) : t \in Found(g.vars, e.s)}
      [] e.s \in DOMAIN g.externs -> {T(g.externs[e.s].ret)}
      [] OTHER -> {Last(g.funs[e.s].a)}
Uniform(ts) == \A i \in DOMAIN ts : ts[i] = ts[1]
LiteralType(e, ts) ==
    IF e.k \in {"map", "omap"} THEN {TA(e.k, <<ts[1], ts[2]>>)} ELSE If(Uniform(ts), TA(e.k, <<ts[1]>>))

BuiltType(g, e, ts) ==
    CASE e.k = "lit" -> {T(e.s)}
      [] e.k \in {"fmt", "fetch", "generate"} -> {Strings}
      [] e.k = "ident" -> NamedType(g, e.s)
      [] e.k = "chain" -> OpType(e.f[1], ts[1], ts[2])
      [] e.k \in {"unary", "slice"} -> {ts[1]}
      [] e.k = "index" -> IndexType(ts[1])
      [] e.k \in {"field", "method"} -> MemberType(g, ts[1], e.s)
      [] e.k \in {"list", "set", "map", "omap"} -> LiteralType(e, ts)
      [] e.k \in {"struct", "spawn"} ->
            {T(IF e.s \in DOMAIN g.variants THEN g.variants[e.s] ELSE e.s)}
      [] e.k = "call" -> CallType(g, e, ts)
      [] e.k = "async" -> {TA("future", ts)}
      [] e.k = "await" -> {ts[1].a[1]}
      [] e.k = "logic" -> {Lists(Strings)}

(* The type of a function reference as a value, of f(x, _), of an agent's  *)
(* intent, of a match by its first arm.                                    *)
IntentType(g, t, f) ==
    LET it == g.agents[t.s].intents[f]
    IN  TA("fun", [i \in DOMAIN it.ps |-> T(it.ps[i])] \o <<T(it.ret)>>)
HoleType(g, e) ==
    TA("fun", [i \in DOMAIN Holes(e) |-> g.funs[e.s].a[Holes(e)[i]]] \o <<Last(g.funs[e.s].a)>>)
FirstArm(arms) == Head(SelectSeq(arms, LAMBDA arm : arm.v # "_"))
ArmTypes(g, u, arm) ==
    [n \in ToSet(arm.ns) \ {"_"} |->
        {T(g.unions[u][arm.v][i].t) : i \in {j \in DOMAIN arm.ns : arm.ns[j] = n}}]

RECURSIVE TypeOf(_, _)
RECURSIVE TypesOf(_, _)
TypesOf(g, es) ==
    IF es = <<>> THEN {<<>>}
    ELSE {<<t>> \o ts : t \in TypeOf(g, Head(es)), ts \in TypesOf(g, Tail(es))}
TypeOf(g, e) ==
    CASE e.k = "fun" -> {TA("fun", e.ts)}
      [] e.k = "call" /\ Holes(e) # <<>> -> {HoleType(g, e)}
      [] e.k = "chain" /\ Len(e.f) > 1 -> TypeOf(g, checkBinaryExpr(e.f, e.a))
      [] e.k = "match" ->
            UNION {TypeOf([g EXCEPT !.vars = Append(@, ArmTypes(g, u.s, FirstArm(e.f)))],
                          FirstArm(e.f).e) :
                    u \in TypeOf(g, e.a[1])}
      [] OTHER ->
            UNION {IF e.k = "field" /\ ts[1].s \in DOMAIN g.agents THEN {IntentType(g, ts[1], e.s)}
                   ELSE BuiltType(g, e, ts) : ts \in TypesOf(g, e.a)}

(* The stamp of a type; what the futures of a list carry is not in it.     *)
StampOf(g, t) ==
    CASE t.s \in DOMAIN g.agents -> {Named("agent", t.s)}
      [] t.s = "list" /\ t.a[1].s = "future" -> {ListOf("future")}
      [] OTHER -> typeFromRef(g, t)
=============================================================================
