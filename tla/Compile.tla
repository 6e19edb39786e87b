------------------------------ MODULE Compile ------------------------------
(***************************************************************************)
(* clower.Lower from the declarations to the end of one body, with         *)
(* aotir.Verify at its side.                                               *)
(*                                                                         *)
(* A program is a header, its declarations, and the statements of its      *)
(* bodies.  Lower makes its passes over the declarations, then lowers the  *)
(* body of every intent, every function and main.  Bodies share only the   *)
(* declarations, so a behaviour lowers one of them, unit; its statements   *)
(* arrive one by one, nested blocks between the statement that opens them  *)
(* and an End.  Verify visits the statements in the order they are         *)
(* emitted, so its step is taken together with the lowerer's.              *)
(*                                                                         *)
(* types is the reference: the frames the lowerer has open, each name with *)
(* the type the program gives it, or {} when it has none (Typing).         *)
(***************************************************************************)
EXTENDS Typing, Verifier

CONSTANTS Headers,      \* the declarations of the programs, as sequences
          Statements,   \* the surface statements, of the programs with each header
          MaxStmts,     \* statements in a body
          MaxDepth      \* blocks open at a time

ASSUME BoundsAssumption == MaxStmts \in Nat /\ MaxDepth \in Nat

VARIABLES header,   \* the declarations
          phase,    \* the pass Lower is in
          l,        \* the lowerer
          c,        \* the verifier's context
          open,     \* the blocks open in the body, outermost first
          unit,     \* the body: an intent, on_close, a function or main
          types,    \* the reference types of the names in scope
          stmts,    \* statements so far
          outcome   \* "lowering", "done", "rejected" by Lower or "unverified"

vars == <<header, phase, l, c, open, unit, types, stmts, outcome>>

-----------------------------------------------------------------------------
(* Declarations.                                                           *)
Of(k) == SelectSeq(header, LAMBDA d : d.k = k)
(* One pass: F on every declaration, until one is refused.                 *)
Over(F(_, _), x, ds) == FoldLeft(LAMBDA xs, d : UNION {F(y, d) : y \in xs}, {x}, ds)
With(f, n, v) == [m \in DOMAIN f \cup {n} |-> IF m = n THEN v ELSE f[m]]
Distinct(ps) == \A i, j \in DOMAIN ps : ps[i].n = ps[j].n => i = j

(* The names of all types come first, so that a type may name a later one. *)
registerType(x, d) ==
    IF d.n \in DOMAIN x.records \cup DOMAIN x.unions THEN {}
    ELSE IF d.variants # <<>> THEN {[x EXCEPT !.unions = With(@, d.n, NoFrame)]}
    ELSE {[x EXCEPT !.records = With(@, d.n, <<>>)]}

scalarVariantFieldType(r) == r.a = <<>> /\ r.s \in Scalars
buildUnionDecl(x, d) ==
    LET vs == {d.variants[i].n : i \in DOMAIN d.variants}
        FieldsOf(v) == d.variants[CHOOSE i \in DOMAIN d.variants : d.variants[i].n = v].fields
    IN  If(\A v \in vs : \A i \in DOMAIN FieldsOf(v) : scalarVariantFieldType(FieldsOf(v)[i].r),
           [x EXCEPT !.unions[d.n] = [v \in vs |-> [i \in DOMAIN FieldsOf(v) |->
                                        [n |-> FieldsOf(v)[i].n, t |-> FieldsOf(v)[i].r.s]]],
                     !.variants = [v \in DOMAIN @ \cup vs |-> IF v \in vs THEN d.n ELSE @[v]]])
buildRecordDecl(x, d) ==
    LET fs == d.fields
    IN  UNION {If(/\ fs # <<>> /\ Distinct(fs)
                  /\ \A i \in DOMAIN ws : ws[i].t \notin {"record", "list", "map"},
                  [x EXCEPT !.records[d.n] = [i \in DOMAIN fs |-> [n |-> fs[i].n, t |-> ws[i].t]]]) :
               ws \in typesFromRefs([x EXCEPT !.unions = NoFrame], [i \in DOMAIN fs |-> fs[i].r])}
buildType(x, d) == IF d.variants # <<>> THEN buildUnionDecl(x, d) ELSE buildRecordDecl(x, d)

(* An agent: its fields; a field without a type has a literal of type lit. *)
buildAgent(x, d) ==
    LET fs == d.fields
        Typed1(f) == IF f.r = <<>> THEN {Only(f.lit)} ELSE typeFromRef(x, f.r[1])
    IN  If(/\ d.n \notin DOMAIN x.agents \cup DOMAIN x.records
           /\ Distinct(fs)
           /\ \A i \in DOMAIN fs : \E w \in Typed1(fs[i]) : w.t \in Scalars,
           [x EXCEPT !.agents = With(@, d.n,
                [fields |-> [i \in DOMAIN fs |->
                               [n |-> fs[i].n, t |-> (CHOOSE w \in Typed1(fs[i]) : TRUE).t]],
                 intents |-> NoFrame])])

(* External functions, language by language; a later language wins a name. *)
Languages == <<"c", "go", "python", "js", "java">>
Prefix == [c |-> "", go |-> "mochi_go_", python |-> "mochi_py_", js |-> "mochi_js_", java |-> ""]
Result(x, r) == IF r = <<>> THEN {Zero} ELSE typeFromRef(x, r[1])
buildExtern(x, d) ==
    UNION {If(Distinct(d.ps),
              [x EXCEPT !.externs = With(@, d.n,
                [emit |-> Prefix[d.lang] \o d.n, ps |-> [i \in DOMAIN ws |-> ws[i].t], ret |-> w.t])]) :
           w \in Result(x, d.ret), ws \in typesFromRefs(x, [i \in DOMAIN d.ps |-> d.ps[i].r])}
Externs == FlattenSeq([i \in DOMAIN Languages |->
                SelectSeq(header, LAMBDA d : d.k = "extern" /\ d.lang = Languages[i])])
DistinctExterns == \A i, j \in DOMAIN Externs :
    Externs[i].n = Externs[j].n /\ Externs[i].lang = Externs[j].lang => i = j

(* aotir.Param has no field for what a channel, stream or future carries.  *)
Param0(w) == [w EXCEPT !.msg = ""]
buildFuncSig(x, d) ==
    UNION {If(d.n # "main" /\ d.n \notin DOMAIN x.fns /\ Distinct(d.ps),
              [x EXCEPT !.fns = With(@, d.n,
                [names |-> [i \in DOMAIN d.ps |-> d.ps[i].n],
                 ps |-> [i \in DOMAIN ws |-> Param0(ws[i])], ret |-> Param0(w)])]) :
           w \in typeFromRef(x, d.ret), ws \in typesFromRefs(x, [i \in DOMAIN d.ps |-> d.ps[i].r])}

Passes == <<"names", "types", "agents", "externs", "funs", "units">>
NextPass == Passes[1 + CHOOSE i \in DOMAIN Passes : Passes[i] = phase]
Pass(ls) ==
    /\ outcome = "lowering"
    /\ \/ /\ ls = {}
          /\ outcome' = "rejected"
          /\ UNCHANGED <<phase, l>>
       \/ /\ l' \in ls
          /\ phase' = NextPass
          /\ UNCHANGED outcome
    /\ UNCHANGED <<header, c, open, unit, types, stmts>>

RegisterTypes == phase = "names" /\ Pass(Over(registerType, l, Of("type")))
BuildTypes == phase = "types" /\ Pass(Over(buildType, l, Of("type")))
BuildAgents == phase = "agents" /\ Pass(Over(buildAgent, l, Of("agent")))
BuildExterns ==
    phase = "externs" /\ Pass(IF DistinctExterns THEN Over(buildExtern, l, Externs) ELSE {})
BuildFuncs == phase = "funs" /\ Pass(Over(buildFuncSig, l, Of("fun")))

-----------------------------------------------------------------------------
(* Statements.  A surface statement is [k, n, r, a, arms]: its kind, the   *)
(* variable it is about, its annotation (<<>> for none), its expressions   *)
(* and, of a match, its arms.  Lowering one yields a set of results [l,    *)
(* ir], {} for an error: the lowerer after it and what it emits into the   *)
(* block, the variables its expressions are hoisted into first.            *)
Hoist(x, ns) ==
    LET hs == FlattenSeq([i \in DOMAIN ns |-> Hoisted(ns[i])])
    IN  [l |-> FoldLeft(LAMBDA y, h : [y EXCEPT !.scope =
                            Declare(@, h.n, LBinding(Only(h.init.t), FALSE, h.n))], x, hs),
         ir |-> [i \in DOMAIN hs |-> Stmt("LetStmt", hs[i].n, Only(hs[i].init.t), FALSE, <<hs[i].init>>)]]
Emit(x, ns, s) == LET h == Hoist(x, ns) IN [l |-> h.l, ir |-> Append(h.ir, s)]
Bind(x, n, st, mut) == [x EXCEPT !.scope = Declare(@, n, LBinding(st, mut, n))]
EmitLet(x, n, st, mut, init) ==
    LET h == Hoist(x, init)
    IN  [l |-> Bind(h.l, n, st, mut), ir |-> Append(h.ir, Stmt("LetStmt", n, st, mut, init))]

(* The arms of a match, [v, ns, bare, guard, e]: a wildcard has v = "_", a *)
(* bare variant binds nothing, ns may hold "_".  A guard is lowered where  *)
(* the arm's variables are visible and not looked at again.                *)
ArmFields(x, u, arm) == IF arm.bare THEN <<>> ELSE x.unions[u][arm.v]
ArmFrame(x, u, arm) ==
    LET fs == ArmFields(x, u, arm)
    IN  [n \in ToSet(arm.ns) \ {"_"} |->
            LET i == CHOOSE j \in DOMAIN arm.ns : arm.ns[j] = n
            IN  LBinding(Only(fs[i].t), FALSE, n)]
Within(x, frame) == [x EXCEPT !.scope = Append(@, frame)]
lowerMatchArm(x, u, arm) ==
    If(/\ arm.v # "_" => /\ arm.v \in DOMAIN x.unions[u]
                         /\ arm.bare \/ Len(arm.ns) = Len(x.unions[u][arm.v])
       /\ arm.guard # <<>> => lowerExpr(Within(x, ArmFrame(x, u, arm)), arm.guard[1]) # {},
       Within(x, ArmFrame(x, u, arm)))
OneWildcard(arms) == Cardinality({i \in DOMAIN arms : arms[i].v = "_"}) <= 1
MatchHead(n, arms) ==
    Stmt("MatchStmt", {arms[i].v : i \in DOMAIN arms} \ {"_"}, Named("union", Known(n).union),
         FALSE, <<n>>)

(* lowerMatchExpr: the arms assign to a temporary of the block, whose type *)
(* is the first arm's.  The arms follow the MatchStmt as MatchArm.         *)
TempName(i) == <<"__match1", "__match2", "__match3", "__match4">>[i]
inferMatchResultType(x, n, arms) ==
    LET first == FirstArm(arms)
        In(y) == {[Only(r.t) EXCEPT !.union = Known(r).union] : r \in lowerExpr(y, first.e)}
        ws == UNION {In(y) : y \in lowerMatchArm(x, Known(n).union, first)}
    IN  ws \cup If(ws = {}, Named("union", Known(n).union))
ArmAssign(x, u, t, arm) ==
    UNION {{Stmt("MatchArm", t, VerifierFrame(<<ArmFrame(x, u, arm)>>), FALSE, <<r>>) :
                r \in lowerExpr(y, arm.e)} : y \in lowerMatchArm(x, u, arm)}
MatchInto(x, n, t, st, arms) ==
    LET Lower1(irs, arm) == UNION {{Append(ir, r) : r \in ArmAssign(x, Known(n).union, t, arm)} :
                                   ir \in irs}
        start == {<<Stmt("LetStmt", t, st, TRUE, <<>>), MatchHead(n, arms)>>}
    IN  {[l |-> x, ir |-> ir, n |-> Reference(LBinding(st, TRUE, t))] :
            ir \in FoldLeft(Lower1, start, arms)}
lowerMatchExpr(x, n, arms) ==
    LET t == TempName(x.temps + 1)
    IN  IF n.t # "union" \/ ~OneWildcard(arms) THEN {}
        ELSE UNION {UNION {MatchInto(y, n, t, st, arms) :
                            y \in {[Bind(x, t, st, TRUE) EXCEPT !.temps = @ + 1]}} :
                    st \in inferMatchResultType(x, n, arms)}

(* What a binding is initialised with: [l, ir, n].                         *)
Initialiser(x, e) ==
    IF e.k = "match" THEN UNION {lowerMatchExpr(x, n, e.f) : n \in lowerExpr(x, e.a[1])}
    ELSE {[l |-> x, ir |-> <<>>, n |-> n] : n \in lowerExpr(x, e)}

(* lowerBinding, for an initialiser that gets its type from the annotation *)
(* w, and for the others: the annotation must agree with what is known of  *)
(* the initialiser, and takes its place.                                   *)
Fresh(e) == /\ e.k \in {"list", "map", "call"}
            /\ e.k = "call" => e.s \in {"make_chan", "make_stream"} /\ Len(e.a) = 1
            /\ e.k # "call" => e.a = <<>>
Made(w, k, args) == Typed(k, w, "", args)
lowerFresh(x, e, w) ==
    CASE e.k = "list" /\ w.t = "list" -> {Made(w, "ListLit", <<>>)}
      [] e.k = "map" /\ w.t = "map" -> {Made(w, "MapLit", <<>>)}
      [] e.k = "call" /\ <<e.s, w.t>> \in {<<"make_chan", "chan">>, <<"make_stream", "stream">>} ->
            {Made(w, IF w.t = "chan" THEN "ChanMakeExpr" ELSE "StreamMakeExpr", <<i>>) :
                i \in {j \in lowerExpr(x, e.a[1]) : j.t = "int"}}
      [] OTHER -> {}
Inferred(n) == LET w == Known(n) IN [w EXCEPT !.inner = IF w.elem = "list" THEN @ ELSE ""]
Annotated(w, n) ==
    LET d == Inferred(n)
    IN  [w EXCEPT !.sig = IF @ = <<>> THEN d.sig ELSE @, !.msg = IF @ = "" THEN d.msg ELSE @,
                  !.agent = d.agent]
Accepts(w, n) ==
    Agree({"rec", "union", "elem", "erec", "inner", "mk", "mv", "key", "val", "lval"}
            \ (IF w.t \in {"set", "omap"} THEN {"elem", "key", "val"} ELSE {}), Inferred(n), w)
Prefixed(ir, o) == [o EXCEPT !.ir = ir \o @]
\* The ClosureEnvStmt in front of a capturing function literal declares nothing,
\* and Verify asks of it only that its names are not empty: it is left out.
lowerBinding(x, s) ==
    LET e == s.a[1]
        mut == s.k = "var"
    IN  IF s.n \in DOMAIN Last(x.scope) THEN {}
        ELSE IF s.r # <<>> /\ Fresh(e)
        THEN {EmitLet(x, s.n, w, mut, <<n>>) :
                <<w, n>> \in UNION {{w} \X lowerFresh(x, e, w) : w \in typeFromRef(x, s.r[1])}}
        ELSE UNION {IF s.r = <<>> THEN {Prefixed(i.ir, EmitLet(i.l, s.n, Inferred(i.n), mut, <<i.n>>))}
                    ELSE {Prefixed(i.ir, EmitLet(i.l, s.n, Annotated(w, i.n), mut, <<i.n>>)) :
                            w \in {v \in typeFromRef(x, s.r[1]) : Accepts(v, i.n)}} :
                    i \in Initialiser(x, e)}

lowerAssign(x, s) ==
    IF s.n \notin Visible(x.scope) THEN {}
    ELSE LET b == Found(x.scope, s.n)
         IN  {Emit(x, <<n>>, Stmt("AssignStmt", b.name, Zero, FALSE, <<n>>)) :
                n \in {m \in lowerExpr(x, s.a[1]) :
                        /\ b.mut
                        /\ Agree({"rec", "elem", "erec", "inner", "mk", "mv", "key", "val"},
                                 Known(m), b.st)}}

lowerIndexAssign(x, s) ==
    IF s.n \notin Visible(x.scope) THEN {}
    ELSE LET b == Found(x.scope, s.n)
             k == CASE b.st.t = "list" -> "ListSetStmt" [] b.st.t = "map" -> "MapPutStmt"
                    [] b.st.t = "omap" -> "OMapPutStmt" [] OTHER -> ""
             want == IF b.st.t = "list" THEN <<"int", b.st.elem>> ELSE <<b.st.key, b.st.val>>
         IN  {Emit(x, ns, Stmt(k, s.n, Zero, FALSE, ns)) :
                ns \in {ms \in lowerExprs(x, s.a) : b.mut /\ k # "" /\ Heads(ms) = want}}

lowerReturn(x, s) ==
    IF x.ret.t = "unit" \/ s.a = <<>>
    THEN If(x.ret.t = "unit" /\ s.a = <<>>, Emit(x, <<>>, Stmt("ReturnStmt", "", Zero, FALSE, <<>>)))
    ELSE {Emit(x, <<n>>, Stmt("ReturnStmt", "", Zero, FALSE, <<n>>)) :
            n \in {m \in lowerExpr(x, s.a[1]) :
                    Agree({"rec", "union", "inner", "erec", "lval"}
                            \cup (IF x.ret.t = "list" THEN {"elem"} ELSE {})
                            \cup (IF x.ret.t = "map" THEN {"key", "val"} ELSE {}),
                          Known(m), x.ret)}}

lowerJump(x, s) ==
    If(x.loops > 0, Emit(x, <<>>, Stmt(IF s.k = "break" THEN "BreakStmt" ELSE "ContinueStmt",
                                       "", Zero, FALSE, <<>>)))

lowerEmitCallStmt(x, s) ==
    {Emit(x, ns, Stmt("StreamEmitStmt", "", Carrying("stream", Known(ns[1]).msg), FALSE, ns)) :
        ns \in {ms \in lowerExprs(x, s.a) :
                Known(ms[1]).msg # "" /\ Heads(ms) = <<"stream", Known(ms[1]).msg>>}}

(* fetch binds its target without looking whether the name is taken: it    *)
(* overwrites the name and emits a second let.                             *)
lowerFetchStmt(x, s) ==
    {EmitLet(x, s.n, Only("string"), FALSE, <<Plain("HttpGetExpr", "string", "", <<n>>)>>) :
        n \in lowerExpr(x, s.a[1])}

(* lowerExprStmt: calls in statement position.                             *)
printCalleeFor(t) ==
    CASE t = "string" -> {"mochi_print_str"} [] t = "int" -> {"mochi_print_i64"}
      [] t = "float" -> {"mochi_print_f64"} [] t = "bool" -> {"mochi_print_bool"} [] OTHER -> {}
CallStmt(x, f, ns) == Emit(x, ns, Stmt("CallStmt", f, Zero, FALSE, ns))
lowerPanicCall(x, ns) ==
    If(Heads(ns) = <<"int", "string">>, Emit(x, ns, Stmt("PanicStmt", "", Zero, FALSE, ns)))
lowerSendCall(x, ns) ==
    If(Len(ns) = 2 /\ Known(ns[1]).msg # "" /\ Heads(ns) = <<"chan", Known(ns[1]).msg>>,
       Emit(x, ns, Stmt("ChanSendStmt", "", Carrying("chan", Known(ns[1]).msg), FALSE, ns)))
lowerFileCall(x, f, ns) ==
    If(Heads(ns) = <<"string", "string">>,
       Emit(x, ns, Stmt(IF f = "writeFile" THEN "WriteFileStmt" ELSE "AppendFileStmt",
                        "", Zero, FALSE, ns)))
lowerSaveCSVCall(x, ns) ==
    If(Heads(ns) = <<"string", "list">> /\ Known(ns[2]).elem = "list",
       Emit(x, ns, Stmt("SaveCSVStmt", "", Zero, FALSE, ns)))
lowerCallStmt(x, f, ns) ==
    CASE f = "print" -> IF Len(ns) # 1 THEN {} ELSE {CallStmt(x, g, ns) : g \in printCalleeFor(ns[1].t)}
      [] f = "panic" -> lowerPanicCall(x, ns)
      [] f = "send" -> lowerSendCall(x, ns)
      [] f \in {"writeFile", "appendFile"} -> lowerFileCall(x, f, ns)
      [] f = "saveCSV" /\ f \notin DOMAIN x.fns -> lowerSaveCSVCall(x, ns)
      [] f \in Visible(x.scope) /\ Found(x.scope, f).st.t = "fun" -> {}
      [] OTHER ->
            IF f \in DOMAIN x.externs
            THEN If(ArgumentsFit(ns, [i \in DOMAIN x.externs[f].ps |-> Only(x.externs[f].ps[i])]),
                    CallStmt(x, x.externs[f].emit, ns))
            ELSE IF f \in DOMAIN x.fns THEN If(ArgumentsFit(ns, x.fns[f].ps), CallStmt(x, Emitted(f), ns))
            ELSE {}
lowerAgentIntentCallStmt(x, b, f, ns) ==
    If(/\ f \in DOMAIN x.agents[b.st.agent].intents
       /\ Heads(ns) = x.agents[b.st.agent].intents[f].ps,
       Emit(x, ns, Stmt("AgentIntentCallStmt", f, Named("agent", b.st.agent), FALSE,
                        <<Typed("VarRef", Named("agent", b.st.agent), b.name, <<>>)>> \o ns)))
lowerExprStmt(x, s) ==
    LET e == s.a[1]
    IN  CASE e.k = "call" -> UNION {lowerCallStmt(x, e.s, ns) : ns \in lowerExprs(x, e.a)}
          [] /\ e.k = "method" /\ e.a[1].k = "ident" /\ e.a[1].s \in Visible(x.scope)
             /\ Found(x.scope, e.a[1].s).st.t = "agent" ->
                UNION {lowerAgentIntentCallStmt(x, Found(x.scope, e.a[1].s), e.s, ns) :
                        ns \in lowerExprs(x, Tail(e.a))}
          [] OTHER -> {}

-----------------------------------------------------------------------------
(* Statements that open a block: what they emit, the lowerer after their   *)
(* expressions, and the frame and loop of the block.                       *)
Opening(o, frame, loop) == [l |-> o.l, ir |-> o.ir, frame |-> frame, loop |-> loop]
Only1(n, st) == [m \in {n} |-> LBinding(st, FALSE, n)]
lowerCond(x, s, k, loop) ==
    {Opening(Emit(x, <<n>>, Stmt(k, "", Zero, FALSE, <<n>>)), NoFrame, loop) :
        n \in {m \in lowerExpr(x, s.a[1]) : m.t = "bool"}}
lowerFor(x, s) ==
    {Opening(Emit(x, ns, Stmt("ForRangeStmt", s.n, Zero, FALSE, ns)), Only1(s.n, Only("int")), 1) :
        ns \in {ms \in lowerExprs(x, s.a) : Heads(ms) = <<"int", "int">>}}

(* foreach: over a map its keys, over a set its elements as a list.  The   *)
(* variable also gets the element type as its own element.                 *)
Iterated(n) ==
    LET w == Known(n)
    IN  CASE n.t = "list" -> {[n |-> n, st |-> ListStamp(w)]}
          [] n.t = "map" -> {[n |-> Node("MapKeysExpr", "list", MapStamp(w), "", <<n>>),
                              st |-> ListOf(w.key)]}
          [] n.t = "set" -> {[n |-> Node("SetToListExpr", "list", SetOf(w.elem), "", <<n>>),
                              st |-> ListOf(w.elem)]}
          [] OTHER -> {}
\* Mutant: the variable over a list<list> has the element of the outer list.
ForEachFlat(w) == [ElementOf(w) EXCEPT !.elem = w.elem]
ForEachBinding(w) ==
    [ElementOf(w) EXCEPT !.elem = IF w.elem = "list" THEN w.inner ELSE w.elem,
                         !.erec = IF w.elem = "list" THEN "" ELSE w.erec]
lowerForEach(x, s) ==
    UNION {{Opening(Emit(x, <<n>>, Stmt("ForEachStmt", s.n, i.st, FALSE, <<i.n>>)),
                    Only1(s.n, ForEachBinding(i.st)), 1) : i \in Iterated(n)} :
           n \in lowerExpr(x, s.a[1])}
lowerTryCatch(x) ==
    {Opening(Emit(x, <<>>, Stmt("TryCatchStmt", "", Zero, FALSE, <<>>)), NoFrame, 0)}
lowerMatch(x, s) ==
    {Opening(Emit(x, <<n>>, MatchHead(n, s.arms)), NoFrame, 0) :
        n \in {m \in lowerExpr(x, s.a[1]) : m.t = "union" /\ OneWildcard(s.arms)}}

-----------------------------------------------------------------------------
(* The body to lower: an intent, on_close, a function, main.               *)
Units ==
    FlattenSeq([i \in DOMAIN Of("agent") |-> Of("agent")[i].units]) \o Of("fun")
        \o <<[k |-> "main", n |-> "main", ps |-> <<>>, ret |-> T("unit")]>>
Intents(us) == SelectSeq(us, LAMBDA u : u.k = "intent")
buildIntent(x, u) ==
    UNION {If(/\ \A i \in DOMAIN ws : ws[i].t \in Scalars
              /\ w.t \in Scalars \cup {"unit"},
              [x EXCEPT !.agents[u.agent].intents =
                IF u.n \in DOMAIN @ THEN @
                ELSE With(@, u.n, [ps |-> [i \in DOMAIN ws |-> ws[i].t], ret |-> w.t])]) :
           w \in typeFromRef(x, u.ret), ws \in typesFromRefs(x, [i \in DOMAIN u.ps |-> u.ps[i].r])}

(* The variables a body starts with.                                       *)
ParamFrame(x, u) ==
    [n \in {u.ps[i].n : i \in DOMAIN u.ps} |->
        LET i == CHOOSE j \in DOMAIN u.ps : u.ps[j].n = n
        IN  LBinding(IF u.k = "fun" THEN x.fns[u.n].ps[i]
                     ELSE CHOOSE w \in typeFromRef(x, u.ps[i].r) : TRUE, FALSE, n)]
FieldFrame(x, u) ==
    LET fs == x.agents[u.agent].fields
    IN  [n \in {fs[i].n : i \in DOMAIN fs} |->
            LET i == CHOOSE j \in DOMAIN fs : fs[j].n = n
            IN  LBinding(Only(fs[i].t), u.k = "intent", "__self->" \o n)]
InAgent(u) == u.k \in {"intent", "close"}
StartScope(x, u) ==
    LET ps == ParamFrame(x, u)
    IN  IF ~InAgent(u) THEN ps
        ELSE [n \in DOMAIN ps \cup DOMAIN FieldFrame(x, u) |->
                IF n \in DOMAIN ps THEN ps[n] ELSE FieldFrame(x, u)[n]]
StartLowerer(x, u) ==
    [x EXCEPT !.scope = <<StartScope(x, u)>>,
              !.variants = IF InAgent(u) THEN NoFrame ELSE @,
              !.ret = IF u.k = "fun" THEN x.fns[u.n].ret ELSE CHOOSE w \in typeFromRef(x, u.ret) : TRUE]
StartTypes(x, u) ==
    <<[n \in DOMAIN StartScope(x, u) |->
        IF n \in DOMAIN ParamFrame(x, u)
        THEN {u.ps[CHOOSE i \in DOMAIN u.ps : u.ps[i].n = n].r}
        ELSE {T(StartScope(x, u)[n].st.t)}]>>

(* What Verify starts a function with.                                     *)
Registered(x) ==
    LET es == x.externs
    IN  [n \in DOMAIN es \cup {es[f].emit : f \in DOMAIN es} |->
            LET f == CHOOSE g \in DOMAIN es : n \in {g, es[g].emit}
            IN  [ps |-> es[f].ps, ret |-> es[f].ret]]
Functions0(x) ==
    [n \in {Emitted(f) : f \in DOMAIN x.fns} \cup {"main"} |->
        IF n = "main" THEN [ps |-> <<>>, ret |-> Only("unit")]
        ELSE LET f == CHOOSE g \in DOMAIN x.fns : Emitted(g) = n
             IN  [ps |-> x.fns[f].ps, ret |-> x.fns[f].ret]]
StartContext(x, u) ==
    [records |-> x.records, unions |-> x.unions, agents |-> x.agents, externs |-> Registered(x),
     fns |-> Functions0(x), loops |-> 0, ret |-> x.ret,
     scope |-> <<[n \in DOMAIN ParamFrame(x, u) |-> ParamVar(ParamFrame(x, u)[n].st)]>>]

Begin ==
    /\ phase = "units" /\ outcome = "lowering"
    /\ \E i \in DOMAIN Units :
        LET u == Units[i]
            seen == Over(buildIntent, l, Intents(SubSeq(Units, 1, i - 1)))
            all == Over(buildIntent, l, Intents(Units))
        IN  \/ /\ all = {}
               /\ outcome' = "rejected"
               /\ UNCHANGED <<phase, l, c, unit, types>>
            \/ \E x \in seen, y \in all :
               /\ l' = StartLowerer(x, u)
               /\ c' = StartContext([y EXCEPT !.ret = StartLowerer(x, u).ret], u)
               /\ types' = StartTypes(x, u)
               /\ unit' = u.k
               /\ phase' = "body"
               /\ outcome' = IF verifyRecords(y.records) /\ verifySignatures(c', "main")
                             THEN outcome ELSE "unverified"
    /\ UNCHANGED <<header, open, stmts>>

-----------------------------------------------------------------------------
(* Steps of the body.                                                      *)
Top == Last(open)
Env == [records |-> l.records, unions |-> l.unions, variants |-> l.variants, agents |-> l.agents,
        externs |-> l.externs, vars |-> types,
        funs |-> [f \in DOMAIN l.fns |->
                    LET d == Of("fun")[CHOOSE i \in DOMAIN Of("fun") : Of("fun")[i].n = f]
                    IN  TA("fun", [i \in DOMAIN d.ps |-> d.ps[i].r] \o <<d.ret>>)]]
DeclareType(n, ts) == Declare(types, n, ts)

(* Verify's judgement of what has just been emitted; it does not look into *)
(* the bodies of agents.                                                   *)
Judged(ir) ==
    FoldLeft(LAMBDA j, s : [c |-> Bound(j.c, s), ok |-> j.ok /\ verifyStmt(j.c, s)],
             [c |-> c, ok |-> TRUE], ir)
Unverified == unit \in {"intent", "close"}
Reject == outcome' = "rejected" /\ UNCHANGED <<l, c, open, types>>
InBody == phase = "body" /\ outcome = "lowering"
Accepting == InBody /\ stmts < MaxStmts /\ (open # <<>> => Top.k # "match")
Verdict(j) == outcome' = IF j.ok \/ Unverified THEN outcome ELSE "unverified"
Seen(d) == IF Unverified THEN c ELSE d

(* lowerStatement.                                                         *)
lowerStatement(x, s) ==
    CASE s.k \in {"let", "var"} -> lowerBinding(x, s)
      [] s.k = "fetch" -> lowerFetchStmt(x, s)
      [] s.k = "assign" -> lowerAssign(x, s)
      [] s.k = "put" -> lowerIndexAssign(x, s)
      [] s.k = "return" -> lowerReturn(x, s)
      [] s.k \in {"break", "continue"} -> lowerJump(x, s)
      [] s.k = "emit" -> lowerEmitCallStmt(x, s)
      [] s.k = "expr" -> lowerExprStmt(x, s)
TypesAfter(s) ==
    CASE s.k \in {"let", "var"} -> DeclareType(s.n, IF s.r # <<>> THEN {s.r[1]} ELSE TypeOf(Env, s.a[1]))
      [] s.k = "fetch" -> DeclareType(s.n, {T("string")})
      [] OTHER -> types
Blocks == {"if", "while", "for", "foreach", "try", "match"}
LowerStatement == \E s \in Statements[header] :
    /\ Accepting
    /\ s.k \notin Blocks
    /\ stmts' = stmts + 1
    /\ \E R \in {lowerStatement(l, s)} :
        \/ R = {} /\ Reject
        \/ \E o \in R : \E j \in {Judged(o.ir)} :
            /\ l' = o.l
            /\ c' = Seen(j.c)
            /\ Verdict(j)
            /\ types' = TypesAfter(s)
            /\ UNCHANGED open
    /\ UNCHANGED <<header, phase, unit>>

(* A statement with a block: what is restored when the block ends, and     *)
(* what comes then (the variable of a catch, the arms of a match that are  *)
(* left).  A match is open until its first arm starts, and takes no        *)
(* statement.                                                              *)
lowerBlock(x, s) ==
    CASE s.k = "if" -> lowerCond(x, s, "IfStmt", 0)
      [] s.k = "while" -> lowerCond(x, s, "WhileStmt", 1)
      [] s.k = "for" -> lowerFor(x, s)
      [] s.k = "foreach" -> lowerForEach(x, s)
      [] s.k = "try" -> lowerTryCatch(x)
      [] s.k = "match" -> lowerMatch(x, s)
FrameTypes(s) ==
    CASE s.k = "for" -> One(s.n, {Ints})
      [] s.k = "foreach" -> One(s.n, {t.a[1] : t \in TypeOf(Env, s.a[1])})
      [] OTHER -> NoFrame
Nested(x, o) == [x EXCEPT !.scope = Append(@, o.frame), !.loops = @ + o.loop]
LowerBlock == \E s \in Statements[header] :
    /\ Accepting /\ Len(open) < MaxDepth
    /\ s.k \in Blocks
    /\ stmts' = stmts + 1
    /\ \E R \in {lowerBlock(l, s)} :
        \/ R = {} /\ Reject
        \/ \E o \in R : \E j \in {Judged(o.ir)} :
            /\ l' = Nested(o.l, o)
            /\ c' = Seen(BodyOf(j.c, Last(o.ir)))
            /\ Verdict(j)
            /\ types' = Append(types, FrameTypes(s))
            /\ open' = Append(open, [k |-> s.k, types |-> types, l |-> o.l, c |-> Seen(j.c),
                                     union |-> Last(o.ir).st.union,
                                     rest |-> IF s.k = "try" THEN <<s.n>> ELSE s.arms])
    /\ UNCHANGED <<header, phase, unit>>

(* The end of the innermost block: the scopes are what they were before    *)
(* it.  The next part of its statement follows in the frames lfs (of the   *)
(* lowerer), cfs (of the verifier) and tfs (of the reference).             *)
\* Mutant: the scope of the block stays open.
Unrestored == [l EXCEPT !.loops = Top.l.loops]
Restored == [Top.l EXCEPT !.temps = l.temps]
Reopen(k, lfs, cfs, tfs, rest) ==
    /\ l' = [Restored EXCEPT !.scope = @ \o lfs]
    /\ c' = IF Unverified THEN c ELSE [Top.c EXCEPT !.scope = @ \o cfs]
    /\ types' = Top.types \o tfs
    /\ open' = [open EXCEPT ![Len(open)].k = k, ![Len(open)].rest = rest]
InBlock(ks) == InBody /\ open # <<>> /\ Top.k \in ks

(* Else: an `else if` is an else with an if in it.                         *)
Else ==
    /\ InBlock({"if"})
    /\ Reopen("else", <<NoFrame>>, <<NoFrame>>, <<NoFrame>>, <<>>)
    /\ UNCHANGED <<header, phase, unit, stmts, outcome>>
Catch ==
    /\ InBlock({"try"})
    /\ LET n == Top.rest[1]
       IN  Reopen("catch", <<Only1(n, Only("int")), NoFrame>>,
                  <<One(n, Binding(Only("int"), FALSE)), NoFrame>>, <<One(n, {Ints}), NoFrame>>, <<>>)
    /\ UNCHANGED <<header, phase, unit, stmts, outcome>>
Arm ==
    /\ InBlock({"match", "arm"}) /\ Top.rest # <<>>
    /\ LET arm == Top.rest[1]
           frame == ArmFrame(l, Top.union, arm)
       IN  \/ /\ lowerMatchArm(Restored, Top.union, arm) = {}
              /\ Reject
           \/ /\ lowerMatchArm(Restored, Top.union, arm) # {}
              /\ Reopen("arm", <<frame>>, <<VerifierFrame(<<frame>>)>>,
                        <<ArmTypes(Env, Top.union, arm)>>, Tail(Top.rest))
              /\ UNCHANGED outcome
    /\ UNCHANGED <<header, phase, unit, stmts>>
End ==
    /\ InBlock({"if", "else", "for", "foreach", "while", "catch", "match", "arm"})
    /\ Top.rest = <<>>
    /\ l' = Restored
    /\ c' = IF Unverified THEN c ELSE Top.c
    /\ types' = Top.types
    /\ open' = Front(open)
    /\ UNCHANGED <<header, phase, unit, stmts, outcome>>
Finish ==
    /\ InBody /\ open = <<>>
    /\ outcome' = "done"
    /\ UNCHANGED <<header, phase, l, c, open, unit, types, stmts>>
Stopped == outcome # "lowering" /\ UNCHANGED vars

Init ==
    /\ header \in Headers
    /\ phase = "names"
    /\ l = [records |-> NoFrame, unions |-> NoFrame, variants |-> NoFrame, agents |-> NoFrame,
            externs |-> NoFrame, fns |-> NoFrame, scope |-> <<>>, loops |-> 0, ret |-> Zero,
            temps |-> 0]
    /\ c = <<>> /\ open = <<>> /\ unit = "" /\ types = <<>> /\ stmts = 0
    /\ outcome = "lowering"

Next ==
    \/ RegisterTypes \/ BuildTypes \/ BuildAgents \/ BuildExterns \/ BuildFuncs \/ Begin
    \/ LowerStatement \/ LowerBlock \/ Else \/ Catch \/ Arm \/ End \/ Finish \/ Stopped

Spec == Init /\ [][Next]_vars

-----------------------------------------------------------------------------
(* The frames of the lowerer and of the verifier stay in step: frame by    *)
(* frame the same variables under the names they are emitted with, of the  *)
(* same type and mutability, and the same number of loops around.          *)
FrameAgrees(lf, cf) ==
    /\ {lf[n].name : n \in DOMAIN lf} = DOMAIN cf
    /\ \A n \in DOMAIN lf : lf[n].st.t = cf[lf[n].name].st.t /\ lf[n].mut = cf[lf[n].name].mut
ScopesAgree ==
    (InBody /\ ~Unverified) =>
        /\ Len(l.scope) = Len(c.scope) /\ l.loops = c.loops
        /\ \A i \in DOMAIN l.scope : FrameAgrees(l.scope[i], c.scope[i])

(* The comment on Lower: it "turns a type-checked parser.Program into an   *)
(* aotir.Program", and "anything outside this set is rejected with an      *)
(* explicit phase-named diagnostic".  No program gets through the lowering *)
(* for Verify to refuse.                                                   *)
LoweredIsVerified == outcome # "unverified"

(* Every variable of the program has a type, and the type fields the       *)
(* lowerer keeps for it, put together from one expression to the next, say *)
(* just that type.                                                         *)
TypeSound ==
    InBody => \A i \in DOMAIN types : \A n \in DOMAIN types[i] :
        \E t \in types[i][n] : \E w \in StampOf(Env, t) : Agree(Relevant(w), l.scope[i][n].st, w)

(* A chain of operators is grouped the way the type checker groups it.     *)
GroupsAsChecked ==
    InBody => \A s \in Statements[header] :
        s.k = "let" /\ s.a[1].k = "chain" =>
            \A n \in lowerExpr(l, s.a[1]) : NodeShape(n) = Shape(s.a[1])
=============================================================================
