------------------------------ MODULE Verifier ------------------------------
(***************************************************************************)
(* src/internal/aotir/verifier.go: the check between the lowerer and the   *)
(* code generators.  Everything is judged in a context c = [records,       *)
(* unions, agents, externs, fns, scope, loops, ret]: the declarations, the *)
(* frames open where the construct stands, the number of loops around it   *)
(* and the stamp the enclosing function returns.  A nil operand, an empty  *)
(* name and a node of no known kind are never built here.                  *)
(***************************************************************************)
EXTENDS IRTypes

LOCAL INSTANCE SequencesExt

(* The declared names a field may hold, the types it may hold.             *)
Allowed(c, w, f) ==
    CASE f \in {"rec", "erec"} -> DOMAIN c.records
      [] f = "union" -> DOMAIN c.unions
      [] f = "agent" -> DOMAIN c.agents
      [] f = "elem" -> IF w.t = "set" THEN Scalars ELSE ListElems
      [] f \in {"mk", "key"} -> Keys
      [] f = "val" -> IF w.t = "omap" THEN Scalars ELSE MapValues
      [] f \in {"inner", "mv", "lval"} -> Scalars

(* A type field is set where it means something, to what it may be, and    *)
(* nowhere else.  Of a future's element the verifier knows nothing.        *)
Clean(w, rel) == \A f \in DOMAIN w \ (rel \cup {"t"}) :
                    w[f] = Zero[f] \/ (f = "msg" /\ w.t = "future")
ShapeOK(c, w) ==
    /\ Clean(w, Relevant(w))
    /\ \A f \in Relevant(w) :
        IF f \in {"msg", "sig"} THEN w[f] # Zero[f] ELSE w[f] \in Allowed(c, w, f)

(* The result or a parameter of a function: a set or omap has no fields to *)
(* put its element in, and no union is looked up.                          *)
SigOK(c, w) ==
    IF w.t \in {"set", "omap", "union"} THEN Clean(w, {"union"}) ELSE ShapeOK(c, w)

-----------------------------------------------------------------------------
(* What exprRecordName, exprElemType, exprElemRecordName,                  *)
(* exprInnerElemType, exprKeyType, exprValueType, exprListValueElemType,   *)
(* exprMapElemKeyType, exprMapElemValueType and exprSetElemType read off a *)
(* node, as one stamp: "" where a node kind is not in the helper's switch. *)
Fields(n, fs) == [f \in DOMAIN Zero |->
    IF f = "t" THEN n.t ELSE IF f \in fs THEN n.st[f] ELSE Zero[f]]
Elem(n, e, i) == [Zero EXCEPT !.t = n.t, !.elem = e, !.inner = i]

(* exprElemType and exprInnerElemType: a list by its own fields, by those  *)
(* of the map it comes from, or by what its kind always yields.            *)
ListKinds == {"ListLit", "AppendExpr", "ListSortAscExpr", "ListSliceExpr"}
MapListKinds == {"MapGetExpr", "MapKeysExpr", "MapValuesExpr"}
StringListKinds == {"StrSplitExpr", "LinesExpr", "DatalogQueryExpr", "LoadCSVExpr", "RawCExpr"}
MapListShown(n) ==
    CASE n.k = "MapGetExpr" -> Elem(n, IF n.st.val = "list" THEN n.st.lval ELSE "", "")
      [] n.k = "MapKeysExpr" -> Elem(n, n.st.key, "")
      [] n.k = "MapValuesExpr" -> Elem(n, n.st.val, n.st.lval)
StringListShown(n) ==
    CASE n.k = "LoadCSVExpr" -> Elem(n, "list", "string")
      [] n.k = "RawCExpr" -> Elem(n, IF n.t = "list" THEN "string" ELSE "", "")
      [] OTHER -> Elem(n, "string", "")

(* exprKeyType, exprValueType and exprListValueElemType.                   *)
MapKinds == {"JsonDecodeExpr", "MapLit", "OMapLiteralExpr", "OMapSetExpr"}
MapShown(n) ==
    CASE n.k = "JsonDecodeExpr" -> MapOf("map", "string", "string")
      [] n.k = "MapLit" -> Fields(n, {"key", "val", "lval"})
      [] OTHER -> Fields(n, {"key", "val"})

Shown(n) ==
    CASE n.k \in {"VarRef", "CallExpr"} -> [n.st EXCEPT !.t = n.t]
      [] n.k = "RecordLit" -> Fields(n, {"rec"})
      [] n.k = "IndexExpr" -> [ElementOf(n.st) EXCEPT !.inner = n.st.inner]
      [] n.k \in ListKinds -> Fields(n, {"elem", "erec", "inner", "mk", "mv"})
      [] n.k \in MapListKinds -> MapListShown(n)
      [] n.k \in StringListKinds -> StringListShown(n)
      [] n.k \in MapKinds -> MapShown(n)
      [] n.k \in {"ListMapExpr", "ListFilterExpr", "SetToListExpr",
                  "SetLiteralExpr", "SetAddExpr"} -> Elem(n, n.st.elem, "")
      [] OTHER -> Only(n.t)

(* Operators and their operand and result types.                           *)
binOpSignature(op) ==
    CASE op \in {"AddI64", "SubI64", "MulI64", "DivI64", "ModI64"} -> <<"int", "int">>
      [] op \in {"AddF64", "SubF64", "MulF64", "DivF64"} -> <<"float", "float">>
      [] op \in {"EqI64", "NeI64", "LtI64", "LeI64", "GtI64", "GeI64"} -> <<"int", "bool">>
      [] op \in {"EqF64", "NeF64", "LtF64", "LeF64", "GtF64", "GeF64"} -> <<"float", "bool">>
      [] op \in {"EqBool", "NeBool", "AndBool", "OrBool"} -> <<"bool", "bool">>
      [] op \in {"EqStr", "NeStr"} -> <<"string", "bool">>
      [] op = "StrCat" -> <<"string", "string">>
      [] op \in {"EqRec", "NeRec"} -> <<"record", "bool">>
      [] op \in {"EqList", "NeList"} -> <<"list", "bool">>
      [] op \in {"EqMap", "NeMap"} -> <<"map", "bool">>
unOpSignature(op) ==
    CASE op = "NegI64" -> "int" [] op = "NegF64" -> "float" [] op = "NotBool" -> "bool"

(* The kinds whose whole check is the heads of their operands.             *)
StringHeads == [StrLenExpr |-> <<{"string"}>>, StrIndexExpr |-> <<{"string"}, {"int"}>>,
    StrContainsExpr |-> <<{"string"}, {"string"}>>,
    StrSubstringExpr |-> <<{"string"}, {"int"}, {"int"}>>,
    StrReverseExpr |-> <<{"string"}>>, StrUpperExpr |-> <<{"string"}>>,
    StrLowerExpr |-> <<{"string"}>>, StrSplitExpr |-> <<{"string"}, {"string"}>>,
    StrJoinExpr |-> <<{"list"}, {"string"}>>, StrConvertExpr |-> <<Scalars>>,
    NumCastExpr |-> <<{"float"}>>]
ListHeads == [ListMinExpr |-> <<{"list"}>>, ListMaxExpr |-> <<{"list"}>>,
    ListSumExpr |-> <<{"list"}>>]
SortSliceHeads == [ListSortAscExpr |-> <<{"list"}>>, ListSliceExpr |-> <<{"list"}, {"int"}, {"int"}>>]
ServiceHeads == [ReadFileExpr |-> <<{"string"}>>, LinesExpr |-> <<{"string"}>>,
    HttpGetExpr |-> <<{"string"}>>, LoadCSVExpr |-> <<{"string"}>>,
    LLMGenerateExpr |-> <<{"string"}, {"string"}>>]
CarrierHeads == [ChanMakeExpr |-> <<{"int"}>>, StreamMakeExpr |-> <<{"int"}>>,
    ChanRecvExpr |-> <<{"chan"}>>, SubRecvExpr |-> <<{"sub"}>>, SubMakeExpr |-> <<{"stream"}>>,
    SubMakeLimitExpr |-> <<{"stream"}, {"int"}>>, AwaitExpr |-> <<{"future"}>>]
OtherHeads == [JsonDecodeExpr |-> <<{"string"}>>, SetToListExpr |-> <<{"set"}>>,
    SetLenExpr |-> <<{"set"}>>, OMapLenExpr |-> <<{"omap"}>>,
    VariantFieldAccess |-> <<{"union"}>>]
OperandHeads(n) ==
    CASE n.k \in DOMAIN StringHeads -> StringHeads[n.k]
      [] n.k \in DOMAIN ListHeads -> ListHeads[n.k]
      [] n.k \in DOMAIN SortSliceHeads -> SortSliceHeads[n.k]
      [] n.k \in DOMAIN ServiceHeads -> ServiceHeads[n.k]
      [] n.k \in DOMAIN CarrierHeads -> CarrierHeads[n.k]
      [] n.k \in DOMAIN OtherHeads -> OtherHeads[n.k]
      [] OTHER -> [i \in DOMAIN n.a |-> {n.a[i].t}]

(* What else the type fields of such a node must say.                      *)
StampOK(n) ==
    CASE n.k \in {"ListMinExpr", "ListMaxExpr"} -> n.st.elem \in Scalars
      [] n.k = "ListSumExpr" -> n.st.elem \in {"int", "float"}
      [] n.k \in DOMAIN CarrierHeads \cup {"AsyncExpr"} -> n.st.msg # ""
      [] OTHER -> TRUE

(* MathCallExpr, by function.                                              *)
MathOK(n) == /\ n.t = n.a[1].t
             /\ n.t = (IF n.s = "abs_i64" THEN "int" ELSE "float")

(* A variable: the reference carries what the scope says.                  *)
VarRefOK(c, n) ==
    /\ n.s \in Visible(c.scope)
    /\ Agree({"rec", "agent", "elem", "erec", "mk", "mv", "key", "val", "lval", "msg"} \ 
                (IF n.t \in {"set", "omap"} THEN {"elem", "key", "val"} ELSE {}),
             n.st, Found(c.scope, n.s).st)
UnionVarRefOK(c, n) == /\ n.s \in Visible(c.scope)
                       /\ Agree({"union"}, n.st, Found(c.scope, n.s).st)

(* The receiver of a list operation has the list type the node carries,    *)
(* the receiver of a map operation the map type.                           *)
ListReceiverOK(c, n) == /\ Agree({"elem", "erec", "inner"}, Shown(n.a[1]), n.st)
                        /\ ShapeOK(c, n.st)
MapReceiverOK(n) == /\ Agree({"key", "val"}, Shown(n.a[1]), n.st)
                    /\ n.st.key \in Keys /\ n.st.val \in MapValues
ElementOK(n, e) == Agree({"rec", "elem", "key", "val"}, Shown(e), ElementOf(n.st))

(* Lists.                                                                  *)
ListLitOK(c, n) == ShapeOK(c, n.st) /\ \A i \in DOMAIN n.a : ElementOK(n, n.a[i])
IndexOK(c, n) == ListReceiverOK(c, n) /\ n.a[2].t = "int"
AppendOK(c, n) == ListReceiverOK(c, n) /\ ElementOK(n, n.a[2])
ContainsOK(n) == n.a[1].t = "list" /\ n.st.elem \in Scalars /\ n.a[2].t = n.st.elem

RecordLitOK(c, n) ==
    /\ n.st.rec \in DOMAIN c.records
    /\ LET fs == c.records[n.st.rec]
       IN  /\ Len(n.a) = Len(fs)
           /\ \A i \in DOMAIN fs : n.s[i] = fs[i].n /\ n.a[i].t = fs[i].t

FieldAccessOK(c, n) ==
    /\ Agree({"rec"}, Shown(n.a[1]), n.st)
    /\ n.st.rec \in DOMAIN c.records
    /\ \E i \in DOMAIN c.records[n.st.rec] : c.records[n.st.rec][i] = [n |-> n.s, t |-> n.t]

(* Maps, sets and ordered maps; the pairs of a literal are flattened.      *)
PairsOK(n) == \A i \in DOMAIN n.a :
    IF i % 2 = 1 THEN n.a[i].t = n.st.key
    ELSE /\ n.a[i].t = n.st.val
         /\ n.k = "MapLit" /\ n.st.val = "list" => Shown(n.a[i]).elem = n.st.lval
MapLitOK(c, n) == ShapeOK(c, n.st) /\ PairsOK(n)
MapHasOK(n) == MapReceiverOK(n) /\ n.a[2].t = n.st.key
MapListOK(c, n) == ShapeOK(c, n.st) /\ Agree({"lval"}, Shown(n.a[1]), n.st)
MapGetOK(c, n) == MapHasOK(n) /\ MapListOK(c, n)
MapValuesOK(c, n) == MapReceiverOK(n) /\ MapListOK(c, n)
SetLiteralOK(n) == n.st.elem \in Scalars /\ \A i \in DOMAIN n.a : n.a[i].t = n.st.elem
SetMemberOK(n) == n.a[1].t = "set" /\ n.a[2].t = n.st.elem
OMapLiteralOK(c, n) == ShapeOK(c, n.st) /\ PairsOK(n)
OMapKeyOK(n) == n.a[1].t = "omap" /\ n.a[2].t = n.st.key
OMapSetOK(n) == OMapKeyOK(n) /\ n.a[3].t = n.st.val

(* Operators.                                                              *)
BinaryOK(c, n) ==
    /\ <<n.a[1].t, n.t>> = binOpSignature(n.s) /\ n.a[2].t = n.a[1].t
    /\ n.a[1].t = "record" => /\ Shown(n.a[1]).rec \in DOMAIN c.records
                              /\ Shown(n.a[2]).rec = Shown(n.a[1]).rec
UnaryOK(n) == n.a[1].t = n.t /\ n.t = unOpSignature(n.s)

(* Calls: the arguments by head for an external function, a statement or   *)
(* an intent; by head and every type field for a function of the program.  *)
HeadsMatch(as, ps) == /\ Len(as) = Len(ps)
                      /\ \A i \in DOMAIN ps : as[i].t = ps[i]
Identity == {"rec", "elem", "erec", "inner", "mk", "mv", "key", "val", "lval"}
CallExprOK(c, n) ==
    \/ n.s = "__await_all__" /\ Len(n.a) = 1
    \/ /\ n.s # "__await_all__" /\ n.s \in DOMAIN c.externs
       /\ n.t = c.externs[n.s].ret /\ n.t # "unit"
       /\ HeadsMatch(n.a, c.externs[n.s].ps)
    \/ /\ n.s \in DOMAIN c.fns \ DOMAIN c.externs
       /\ n.t # "unit"
       /\ Agree(Identity, n.st, c.fns[n.s].ret)
       /\ Len(n.a) = Len(c.fns[n.s].ps)
       /\ \A i \in DOMAIN n.a : Agree(Identity, Shown(n.a[i]), c.fns[n.s].ps[i])
IntentOK(c, n) ==
    /\ n.a[1].t = "agent"
    /\ n.st.agent \in DOMAIN c.agents
    /\ n.s \in DOMAIN c.agents[n.st.agent].intents
    /\ LET it == c.agents[n.st.agent].intents[n.s]
       IN  /\ HeadsMatch(Tail(n.a), it.ps)
           /\ n.k = "AgentIntentCallExpr" => n.t = it.ret

(* The parameters of whatever a call statement calls.                      *)
Builtins == [mochi_print_str |-> <<"string">>, mochi_print_i64 |-> <<"int">>,
             mochi_print_f64 |-> <<"float">>, mochi_print_bool |-> <<"bool">>]
resolveCallSig(c, f) ==
    CASE f \in DOMAIN Builtins -> <<Builtins[f]>>
      [] f \in DOMAIN c.fns -> <<[i \in DOMAIN c.fns[f].ps |-> c.fns[f].ps[i].t]>>
      [] f \in DOMAIN c.externs -> <<c.externs[f].ps>>
      [] OTHER -> <<>>

(* verifyExprCtx, less the operands themselves.                            *)
CollectionOK(c, n) ==
    CASE n.k = "ListLit" -> ListLitOK(c, n)
      [] n.k = "IndexExpr" -> IndexOK(c, n)
      [] n.k = "LenExpr" -> ListReceiverOK(c, n)
      [] n.k = "AppendExpr" -> AppendOK(c, n)
      [] n.k = "ListContainsExpr" -> ContainsOK(n)
      [] n.k = "MapLit" -> MapLitOK(c, n)
      [] n.k = "MapGetExpr" -> MapGetOK(c, n)
      [] n.k = "MapHasExpr" -> MapHasOK(n)
      [] n.k \in {"MapLenExpr", "MapKeysExpr"} -> MapReceiverOK(n)
      [] n.k = "MapValuesExpr" -> MapValuesOK(c, n)
      [] n.k = "SetLiteralExpr" -> SetLiteralOK(n)
      [] n.k \in {"SetAddExpr", "SetHasExpr"} -> SetMemberOK(n)
      [] n.k = "OMapLiteralExpr" -> OMapLiteralOK(c, n)
      [] n.k \in {"OMapGetExpr", "OMapHasExpr"} -> OMapKeyOK(n)
      [] n.k = "OMapSetExpr" -> OMapSetOK(n)
      [] OTHER -> StampOK(n)
NodeOK(c, n) ==
    CASE n.k = "VarRef" -> VarRefOK(c, n)
      [] n.k = "UnionVarRef" -> UnionVarRefOK(c, n)
      [] n.k \in {"AgentSpawnExpr", "AgentLit"} -> n.st.agent \in DOMAIN c.agents
      [] n.k = "AgentIntentCallExpr" -> IntentOK(c, n)
      [] n.k = "RecordLit" -> RecordLitOK(c, n)
      [] n.k = "FieldAccess" -> FieldAccessOK(c, n)
      [] n.k = "MathCallExpr" -> MathOK(n)
      [] n.k = "VariantLit" -> n.st.union \in DOMAIN c.unions
      [] n.k = "FunLit" -> n.st.sig # <<>>
      [] n.k = "FunCallExpr" -> n.a[1].t = "fun"
      [] n.k = "CallExpr" -> CallExprOK(c, n)
      [] n.k = "BinaryExpr" -> BinaryOK(c, n)
      [] n.k = "UnaryExpr" -> UnaryOK(n)
      [] OTHER -> CollectionOK(c, n)

(* A FunLit names a lifted function, which Verify visits like any other:   *)
(* its body is judged in a scope of its parameters and captures.           *)
RECURSIVE verifyExpr(_, _)
verifyExpr(c, n) ==
    LET own == IF n.k = "FunLit" THEN [c EXCEPT !.scope = <<n.s.frame>>] ELSE c
    IN  /\ \A i \in DOMAIN n.a :
            IF n.a[i].k = "CallStmt"
            THEN /\ HeadsMatch(n.a[i].a, resolveCallSig(c, n.a[i].s)[1])
                 /\ \A j \in DOMAIN n.a[i].a : verifyExpr(own, n.a[i].a[j])
            ELSE /\ verifyExpr(own, n.a[i])
                 /\ n.a[i].t \in OperandHeads(n)[i]
        /\ NodeOK(c, n)

-----------------------------------------------------------------------------
(* Beside a head other than list, a let may carry these four fields.       *)
Inapplicable(w) == [w EXCEPT !.erec = "", !.inner = "", !.mk = "", !.mv = ""]

(* Statements.  A let without an initialiser has init = <<>>.              *)
verifyLet(c, n, b, init) ==
    LET w == b.st
    IN  /\ n \notin DOMAIN Last(c.scope)
        /\ init = <<>> => b.mut
        /\ \A i \in DOMAIN init : verifyExpr(c, init[i]) /\ init[i].t = w.t
        /\ IF w.t = "fun" THEN w.sig # <<>>
           ELSE /\ IF init = <<>> /\ w.t = "map"
                   THEN Clean(w, {"key", "val"}) /\ w.key \in Keys /\ w.val \in MapValues
                   ELSE ShapeOK(c, IF w.t = "list" THEN w ELSE Inapplicable(w))
                /\ \A i \in DOMAIN init :
                    Agree({"rec", "elem", "erec", "key", "val", "lval"}, Shown(init[i]), w)

(* Assignment to a mutable variable, or to a place inside it.              *)
Mutable(c, n, ts) == /\ n \in Visible(c.scope)
                     /\ Found(c.scope, n).mut
                     /\ Found(c.scope, n).st.t \in ts
verifyAssign(c, n, e) ==
    /\ n \in Visible(c.scope) /\ Found(c.scope, n).mut
    /\ verifyExpr(c, e)
    /\ Agree({"rec", "elem", "erec", "key", "val"}, Shown(e), Found(c.scope, n).st)
verifyListSet(c, n, i, e) ==
    /\ Mutable(c, n, {"list"})
    /\ verifyExpr(c, i) /\ i.t = "int"
    /\ verifyExpr(c, e) /\ e.t = Found(c.scope, n).st.elem
verifyPut(c, t, n, i, e) ==
    /\ Mutable(c, n, {t})
    /\ verifyExpr(c, i) /\ i.t = Found(c.scope, n).st.key
    /\ verifyExpr(c, e) /\ e.t = Found(c.scope, n).st.val

verifyCond(c, e) == verifyExpr(c, e) /\ e.t = "bool"
verifyForRange(c, lo, hi) ==
    verifyExpr(c, lo) /\ lo.t = "int" /\ verifyExpr(c, hi) /\ hi.t = "int"
verifyForEach(c, w, e) ==
    /\ verifyExpr(c, e) /\ e.t = "list"
    /\ Agree({"elem", "erec"}, Shown(e), w)
    /\ ShapeOK(c, w)
(* The induction variable of a foreach over a list with stamp w.           *)
ForEachVar(w) == Binding([ElementOf(w) EXCEPT !.elem = IF w.elem = "list" THEN w.inner ELSE ""],
                         FALSE)

verifyReturn(c, vs) ==
    IF vs = <<>> THEN c.ret.t = "unit"
    ELSE /\ verifyExpr(c, vs[1])
         /\ Agree({"rec", "elem", "erec", "inner", "key", "val", "lval"} \ 
                    (IF c.ret.t \in {"set", "omap"} THEN {"elem", "key", "val"} ELSE {}),
                  Shown(vs[1]), c.ret)

verifyMatch(c, e, u, arms) ==
    /\ verifyExpr(c, e) /\ e.t = "union" /\ u \in DOMAIN c.unions
    /\ \A v \in arms : v \in DOMAIN c.unions[u]
ArmVars(bs) == [v \in DOMAIN bs |-> Binding(Only(bs[v]), FALSE)]

(* Statements that are one call.                                           *)
verifyCall(c, f, as) ==
    /\ resolveCallSig(c, f) # <<>>
    /\ \A i \in DOMAIN as : verifyExpr(c, as[i])
    /\ HeadsMatch(as, resolveCallSig(c, f)[1])

(* Panic, files, channels and streams: the operands by head; s.st is the   *)
(* element type a send or an emit carries.                                 *)
EffectHeads(s) ==
    CASE s.k = "PanicStmt" -> <<"int", "string">>
      [] s.k \in {"WriteFileStmt", "AppendFileStmt"} -> <<"string", "string">>
      [] s.k = "SaveCSVStmt" -> <<"string", "list">>
      [] s.k = "ChanSendStmt" -> <<"chan", s.st.msg>>
      [] s.k = "StreamEmitStmt" -> <<"stream", s.st.msg>>
verifyEffect(c, s) ==
    /\ \A i \in DOMAIN s.a : verifyExpr(c, s.a[i])
    /\ IF s.k = "AgentIntentCallStmt" THEN IntentOK(c, s) ELSE HeadsMatch(s.a, EffectHeads(s))

(* verifyStmt, for a statement record [k, s, st, mut, a]; the statements   *)
(* of its blocks come after it, each in the scope Inside opens.  MatchArm  *)
(* is an arm that only assigns to the result; st is its frame.             *)
Stmt(k, s, st, mut, a) == [k |-> k, s |-> s, st |-> st, mut |-> mut, a |-> a]
verifyStmt(c, s) ==
    CASE s.k = "LetStmt" -> verifyLet(c, s.s, Binding(s.st, s.mut), s.a)
      [] s.k = "AssignStmt" -> verifyAssign(c, s.s, s.a[1])
      [] s.k = "ListSetStmt" -> verifyListSet(c, s.s, s.a[1], s.a[2])
      [] s.k = "MapPutStmt" -> verifyPut(c, "map", s.s, s.a[1], s.a[2])
      [] s.k = "OMapPutStmt" -> verifyPut(c, "omap", s.s, s.a[1], s.a[2])
      [] s.k \in {"IfStmt", "WhileStmt"} -> verifyCond(c, s.a[1])
      [] s.k = "ForRangeStmt" -> verifyForRange(c, s.a[1], s.a[2])
      [] s.k = "ForEachStmt" -> verifyForEach(c, s.st, s.a[1])
      [] s.k \in {"BreakStmt", "ContinueStmt"} -> c.loops > 0
      [] s.k = "ReturnStmt" -> verifyReturn(c, s.a)
      [] s.k = "MatchStmt" -> verifyMatch(c, s.a[1], s.st.union, s.s)
      [] s.k = "MatchArm" -> verifyAssign([c EXCEPT !.scope = Append(@, s.st)], s.s, s.a[1])
      [] s.k = "CallStmt" -> verifyCall(c, s.s, s.a)
      [] s.k = "TryCatchStmt" -> TRUE
      [] OTHER -> verifyEffect(c, s)
Bound(c, s) ==
    IF s.k = "LetStmt" THEN [c EXCEPT !.scope = Declare(@, s.s, Binding(s.st, s.mut))] ELSE c
Inside(c, frame, loop) == [c EXCEPT !.scope = Append(@, frame), !.loops = @ + loop]
One(n, b) == [m \in {n} |-> b]
BodyOf(c, s) ==
    CASE s.k = "ForRangeStmt" -> Inside(c, One(s.s, Binding(Only("int"), FALSE)), 1)
      [] s.k = "ForEachStmt" -> Inside(c, One(s.s, ForEachVar(s.st)), 1)
      [] s.k = "WhileStmt" -> Inside(c, NoFrame, 1)
      [] OTHER -> Inside(c, NoFrame, 0)

(* Declarations.  records, unions: the names in the order of declaration   *)
(* with their fields; fields and results by head.                          *)
verifyRecords(rs) == \A r \in DOMAIN rs :
    /\ \A i \in DOMAIN rs[r] : rs[r][i].t \in Scalars
    /\ \A i, j \in DOMAIN rs[r] : rs[r][i].n = rs[r][j].n => i = j
verifySignatures(c, main) ==
    /\ \A f \in DOMAIN c.fns :
        SigOK(c, c.fns[f].ret) /\ \A i \in DOMAIN c.fns[f].ps : SigOK(c, c.fns[f].ps[i])
    /\ c.fns[main] = [ps |-> <<>>, ret |-> Only("unit")]

(* The binding of a parameter: aotir.Param has no field for what a         *)
(* channel, stream or subscription carries, for an agent's name or for the *)
(* element of a list<list>.                                                *)
ParamVar(w) == Binding([w EXCEPT !.inner = "", !.msg = "", !.agent = ""], FALSE)
=============================================================================
