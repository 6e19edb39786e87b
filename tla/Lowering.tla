------------------------------ MODULE Lowering ------------------------------
(***************************************************************************)
(* The lowering of control flow and of the core expressions from the typed *)
(* IR to Core Erlang: src/transpiler/lower/lower.go.  Mochi has mutable    *)
(* variables and loops, Core Erlang has neither.  lowerBlock therefore     *)
(* works backwards: what follows a statement is lowered first and becomes  *)
(* the continuation cont that is put inside every branch of the statement, *)
(* so that a branch's rebinding of V_x is what the rest sees; a loop turns *)
(* into a recursive helper function whose parameters are the outer         *)
(* variables the loop uses (loopParams); break, continue and return are    *)
(* throws that carry the values of those variables.                        *)
(*                                                                         *)
(* The lowerer's mutable state is threaded through the operators:          *)
(*   scope  l.scope, the names declared so far in the function             *)
(*   n      l.loopNum                                                      *)
(*   defs   l.mod.Defs, the helpers emitted so far                         *)
(* An operator that lowers statements gives [c, st], the code and the      *)
(* state after it.  The top of l.loopStack is a parameter, since the code  *)
(* pops what it pushes.  The prefix V_ and the fresh names of exception    *)
(* and pattern variables are left out.                                     *)
(***************************************************************************)
EXTENDS MochiIR, CoreErlang, FiniteSets

LOCAL INSTANCE SequencesExt

CONSTANT Programs   \* the programs lowered, in the form of MochiIR

VARIABLES
    prog,           \* the program being compiled
    phase,          \* "ir", "lowered", "refused" (by erlc) or "ran"
    code,           \* the Core Erlang module
    observed        \* what running it showed

vars == <<prog, phase, code, observed>>

-----------------------------------------------------------------------------
(* Which variables a loop body uses: collectExprVarRefs,                   *)
(* collectStmtVarRefs and collectAssignedVars.  List literals and variants *)
(* are not looked into, nor are indexed assignments, panics, tries and     *)
(* matches; assignments are not collected from nested loops.               *)
RECURSIVE ExprVarRefs(_)
ExprVarRefs(e) ==
    CASE e.k = "var" -> {e.n}
      [] e.k = "bin" -> ExprVarRefs(e.l) \cup ExprVarRefs(e.r)
      [] e.k = "call" -> UNION {ExprVarRefs(e.as[i]) : i \in DOMAIN e.as}
      [] e.k = "append" -> ExprVarRefs(e.r) \cup ExprVarRefs(e.v)
      [] e.k = "idx" -> ExprVarRefs(e.r) \cup ExprVarRefs(e.i)
      [] e.k = "mapget" -> ExprVarRefs(e.r) \cup ExprVarRefs(e.key)
      [] e.k \in {"lit", "list", "variant"} -> {}

RECURSIVE StmtVarRefs(_)
StmtVarRefs(ss) ==
    LET Refs(s) ==
            CASE s.k \in {"let", "assign", "print", "return"} -> ExprVarRefs(s.e)
              [] s.k = "mapput" -> {s.n} \cup ExprVarRefs(s.i) \cup ExprVarRefs(s.e)
              [] s.k = "if" ->
                    ExprVarRefs(s.c) \cup StmtVarRefs(s.th) \cup StmtVarRefs(s.el)
              [] s.k = "while" -> ExprVarRefs(s.c) \cup StmtVarRefs(s.b)
              [] s.k = "range" ->
                    ExprVarRefs(s.lo) \cup ExprVarRefs(s.hi) \cup StmtVarRefs(s.b)
              [] s.k = "each" -> ExprVarRefs(s.l) \cup StmtVarRefs(s.b)
              [] OTHER -> {}
    IN  UNION {Refs(ss[i]) : i \in DOMAIN ss}

RECURSIVE AssignedVars(_)
AssignedVars(ss) ==
    LET Assigned(s) ==
            CASE s.k \in {"assign", "mapput"} -> {s.n}
              [] s.k = "if" -> AssignedVars(s.th) \cup AssignedVars(s.el)
              [] OTHER -> {}
    IN  UNION {Assigned(ss[i]) : i \in DOMAIN ss}

(* Mutant: variables the body only assigns are not passed on.              *)
LoopParamsReadOnly(st, refs, body) == SetToSeq(st.scope \cap (refs \cup StmtVarRefs(body)))

(* The variables a loop is parameterised by, in a fixed order.             *)
LoopParams(st, refs, body) ==
    SetToSeq(st.scope \cap (refs \cup StmtVarRefs(body) \cup AssignedVars(body)))

Vars(ns) == [i \in DOMAIN ns |-> CVar(ns[i])]

(* loopParamTupleOrOk: how a helper returns the final values.              *)
Packed(ns) == IF ns = <<>> THEN COk
              ELSE IF Len(ns) = 1 THEN CVar(ns[1]) ELSE CTuple(Vars(ns))

(* bindLoopResultWithCont: the continuation sees the loop's final values.  *)
BindLoopResult(ns, call, cont) ==
    IF ns = <<>> THEN CSeq(call, cont)
    ELSE IF Len(ns) = 1 THEN CLet(ns[1], call, cont)
    ELSE CUntuple(ns, call, cont)

-----------------------------------------------------------------------------
(* lowerExpr and the functions it dispatches to, on lowered operands.      *)
ErlangOp == [o \in {"+", "-", "<", "=="} |-> IF o = "==" THEN "=:=" ELSE o]

(* lowerIntDiv, wrapArithErr: a division by zero becomes a panic.          *)
DivCode(l, r) ==
    LET panic == CRaise("error", "mochi_panic", 0, <<CLit(DivZero)>>)
    IN  CTry(CCall("div", <<l, r>>),
             <<Clause("badarith", 0, <<>>, CTrue, panic)>>, "raise")

(* lowerBinaryExpr                                                         *)
BinaryCode(op, l, r) ==
    CASE op \in DOMAIN ErlangOp -> CCall(ErlangOp[op], <<l, r>>)
      [] op = "/" -> DivCode(l, r)
      [] op = "and" -> CIf(l, r, CLit(FALSE))
      [] op = "or" -> CIf(l, CLit(TRUE), r)

(* lowerIndexExpr, lowerMapGetExpr, lowerAppendExpr                        *)
IndexCode(r, i) == CCall("nth", <<CCall("+", <<i, CLit(1)>>), r>>)
MapGetCode(r, key) == CCall("map_get", <<key, r>>)
AppendCode(r, v) == CCall("++", <<r, CTuple(<<v>>)>>)

RECURSIVE LowerExpr(_)
LowerExpr(e) ==
    LET All(es) == [i \in DOMAIN es |-> LowerExpr(es[i])]
    IN  CASE e.k = "lit" -> CLit(e.v)
          [] e.k = "var" -> CVar(e.n)
          [] e.k = "bin" -> BinaryCode(e.op, LowerExpr(e.l), LowerExpr(e.r))
          [] e.k = "call" -> CApply(e.f, All(e.as))
          [] e.k = "list" -> CTuple(All(e.es))
          [] e.k = "idx" -> IndexCode(LowerExpr(e.r), LowerExpr(e.i))
          [] e.k = "append" -> AppendCode(LowerExpr(e.r), LowerExpr(e.v))
          [] e.k = "mapget" -> MapGetCode(LowerExpr(e.r), LowerExpr(e.key))
          [] e.k = "variant" -> CTagged(e.tag, All(e.es))

-----------------------------------------------------------------------------
Declare(st, n) == [st EXCEPT !.scope = @ \cup {n}]
Forget(st, ns) == [st EXCEPT !.scope = @ \ ns]
Lowered(c, st) == [c |-> c, st |-> st]

NoCont == [k |-> "nocont"]      \* a nil continuation
NoLoop == [num |-> 0, params |-> <<>>]

(* return is a throw, panic an error.                                      *)
ReturnCode(s) == CRaise("throw", "mochi_return", 0, <<LowerExpr(s.e)>>)
PanicCode(s) == CRaise("error", "mochi_panic", 0, <<CLit(s.c)>>)

(* break and continue throw the loop's number and its current state.       *)
LoopThrow(tag, loop) == CRaise("throw", tag, loop.num, Vars(loop.params))

(* Mutant: the handler knows break only.                                   *)
LoopTryBreakOnly(body, n, state, again, result) ==
    CTry(body, <<Clause("mochi_break", n, state, CTrue, result)>>, "raise")

(* The try around a loop body: what a continue does, and what a break      *)
(* makes the helper return.                                                *)
LoopTry(body, n, state, again, result) ==
    CTry(body, <<Clause("mochi_continue", n, state, CTrue, again),
                 Clause("mochi_break", n, state, CTrue, result)>>, "raise")

Helper(st, name, ns, body) ==
    [st EXCEPT !.defs = (name :> [vars |-> ns, body |-> body]) @@ @]

RECURSIVE LowerBlock(_, _, _, _)

(* Mutant: the rest follows the conditional instead of being put in it.    *)
LowerIfThenRest(st, loop, s, cont) ==
    LET th == LowerBlock(st, loop, s.th, NoCont)
        el == LowerBlock(th.st, loop, s.el, NoCont)
    IN  Lowered(CSeq(CIf(LowerExpr(s.c), th.c, el.c), cont), el.st)

(* lowerIfStmtWithCont: the rest is put in both branches, where it sees    *)
(* the variables the branch rebinds.                                       *)
LowerIf(st, loop, s, cont) ==
    LET th == LowerBlock(st, loop, s.th, cont)
        el == LowerBlock(th.st, loop, s.el, cont)
    IN  Lowered(CIf(LowerExpr(s.c), th.c, el.c), el.st)

(* lowerWhileStmt                                                          *)
LowerWhile(st, s, cont) ==
    LET n == st.n + 1
        ps == LoopParams(st, ExprVarRefs(s.c), s.b)
        name == "__while_" \o ToString(n)
        again == CApply(name, Vars(ps))
        b == LowerBlock([st EXCEPT !.n = n], [num |-> n, params |-> ps], s.b, again)
        body == CIf(LowerExpr(s.c),
                    LoopTry(b.c, n, ps, again, Packed(ps)), Packed(ps))
    IN  Lowered(BindLoopResult(ps, again, cont), Helper(b.st, name, ps, body))

(* lowerForRangeStmt: the helper takes the induction variable and the end  *)
(* of the range besides the loop's parameters.                             *)
LowerForRange(st, s, cont) ==
    LET n == st.n + 1
        ps == Remove(LoopParams(st, {}, s.b), s.n)
        name == "__for_range_" \o ToString(n)
        end == "__end_" \o ToString(n)
        again == CApply(name, <<CCall("+", <<CVar(s.n), CLit(1)>>), CVar(end)>>
                                 \o Vars(ps))
        b == LowerBlock(Declare([st EXCEPT !.n = n], s.n),
                        [num |-> n, params |-> <<s.n>> \o ps], s.b, again)
        body == CIf(CCall(">=", <<CVar(s.n), CVar(end)>>), Packed(ps),
                    LoopTry(b.c, n, <<s.n>> \o ps, again, Packed(ps)))
        call == CApply(name, <<LowerExpr(s.lo), LowerExpr(s.hi)>> \o Vars(ps))
    IN  Lowered(BindLoopResult(ps, call, cont),
                Helper(Forget(b.st, {s.n}), name, <<s.n, end>> \o ps, body))

(* lowerForEachStmt: the helper recurses on the rest of the list.          *)
LowerForEach(st, s, cont) ==
    LET n == st.n + 1
        ps == Remove(LoopParams(st, {}, s.b), s.n)
        name == "__for_each_" \o ToString(n)
        list == "__list_" \o ToString(n)
        rest == "__rest_" \o ToString(n)
        again == CApply(name, <<CVar(rest)>> \o Vars(ps))
        b == LowerBlock(Declare([st EXCEPT !.n = n], s.n),
                        [num |-> n, params |-> <<s.n>> \o ps], s.b, again)
        body == CUncons(CVar(list), Packed(ps), s.n, rest,
                        LoopTry(b.c, n, <<s.n>> \o ps, again, Packed(ps)))
        call == CApply(name, <<LowerExpr(s.l)>> \o Vars(ps))
    IN  Lowered(BindLoopResult(ps, call, cont),
                Helper(Forget(b.st, {s.n}), name, <<list>> \o ps, body))

(* lowerMatchArmAsExpr: the value the arm assigns last is its value.       *)
LowerArmAsExpr(st, loop, b) ==
    IF b # <<>> /\ Last(b).k = "assign"
    THEN LowerBlock(st, loop, Front(b), LowerExpr(Last(b).e))
    ELSE LowerBlock(st, loop, b, NoCont)

(* lowerMatchArm, arm after arm, each declaring its bindings while its     *)
(* body is lowered.                                                        *)
RECURSIVE LowerArms(_, _, _, _, _)
LowerArms(st, loop, arms, res, cont) ==
    IF arms = <<>> THEN Lowered(<<>>, st)
    ELSE LET a == Head(arms)
             bound == Range(a.vars)
             st1 == [st EXCEPT !.scope = @ \cup bound]
             b == IF res # "" THEN LowerArmAsExpr(st1, loop, a.b)
                              ELSE LowerBlock(st1, loop, a.b, cont)
             rest == LowerArms(Forget(b.st, bound), loop, Tail(arms), res, cont)
         IN  Lowered(<<Clause(a.tag, 0, a.vars, LowerExpr(a.guard), b.c)>>
                        \o rest.c, rest.st)

(* lowerMatchStmt: the continuation goes into the arms of a statement, and *)
(* after the value of an expression.                                       *)
LowerMatch(st, loop, s, cont) ==
    LET arms == LowerArms(st, loop, s.arms, s.res, cont)
        c == CCase(LowerExpr(s.e), arms.c)
    IN  Lowered(IF s.res # "" THEN CLet(s.res, c, cont) ELSE c, arms.st)

(* The TryCatchStmt case of lowerBlock: what follows the statement is part *)
(* of the try expression as well as of the handler.                        *)
LowerTry(st, loop, s, cont) ==
    LET b == LowerBlock(st, loop, s.b, cont)
        h == LowerBlock(Declare(b.st, s.n), loop, s.h, cont)
    IN  Lowered(CTry(b.c, <<Clause("mochi_panic", 0, <<s.n>>, CTrue, h.c)>>, "throw"),
                Forget(h.st, {s.n}))

(* The codes of xs[i] = v and m[k] = v, which rebind the variable.         *)
ListSetCode(s) == CCall("list_set", <<CVar(s.n), LowerExpr(s.i), LowerExpr(s.e)>>)
MapPutCode(s) == CCall("map_put", <<CVar(s.n), LowerExpr(s.i), LowerExpr(s.e)>>)

(* Every assignment is a let around what follows.                          *)
Rebind(st, loop, n, c, tail, cont) ==
    LET rest == LowerBlock(st, loop, tail, cont)
    IN  Lowered(CLet(n, c, rest.c), rest.st)

(* The CallStmt case: the value of a last call is the value of the block.  *)
LowerPrint(st, loop, s, tail, cont) ==
    LET c == CCall("put_chars", <<LowerExpr(s.e)>>)
        rest == LowerBlock(st, loop, tail, cont)
    IN  IF tail = <<>> /\ cont.k = "nocont" THEN Lowered(c, st)
        ELSE Lowered(CSeq(c, rest.c), rest.st)

LowerBlock(st, loop, ss, cont) ==
    IF ss = <<>> THEN Lowered(IF cont.k = "nocont" THEN COk ELSE cont, st)
    ELSE
    LET s == Head(ss)
        tail == Tail(ss)
        rest == LowerBlock(st, loop, tail, cont)
    IN  CASE s.k = "let" ->
                Rebind(Declare(st, s.n), loop, s.n, LowerExpr(s.e), tail, cont)
          [] s.k = "decl" -> LowerBlock(Declare(st, s.n), loop, tail, cont)
          [] s.k = "assign" -> Rebind(st, loop, s.n, LowerExpr(s.e), tail, cont)
          [] s.k = "listset" -> Rebind(st, loop, s.n, ListSetCode(s), tail, cont)
          [] s.k = "mapput" -> Rebind(st, loop, s.n, MapPutCode(s), tail, cont)
          [] s.k = "print" -> LowerPrint(st, loop, s, tail, cont)
          [] s.k = "return" -> Lowered(ReturnCode(s), st)
          [] s.k = "panic" -> Lowered(PanicCode(s), st)
          [] s.k = "break" -> Lowered(LoopThrow("mochi_break", loop), st)
          [] s.k = "continue" -> Lowered(LoopThrow("mochi_continue", loop), st)
          [] s.k = "if" -> LowerIf(rest.st, loop, s, rest.c)
          [] s.k = "while" -> LowerWhile(rest.st, s, rest.c)
          [] s.k = "range" -> LowerForRange(rest.st, s, rest.c)
          [] s.k = "each" -> LowerForEach(rest.st, s, rest.c)
          [] s.k = "try" -> LowerTry(rest.st, loop, s, rest.c)
          [] s.k = "match" -> LowerMatch(rest.st, loop, s, rest.c)

(* lowerFunctionBody: the try that turns a thrown return into the value.   *)
LowerFunctionBody(st, ss) ==
    LET b == LowerBlock(st, NoLoop, ss, NoCont)
    IN  Lowered(CTry(b.c, <<Clause("mochi_return", 0, <<"__retval">>, CTrue,
                                   CVar("__retval"))>>, "raise"), b.st)

(* lowerFunction, with a scope of its own; Lower does main last.  The      *)
(* other functions are lowered one after the other.                        *)
LowerFunction(st, f, fn) ==
    LET b == LowerFunctionBody([st EXCEPT !.scope = Range(fn.params)], fn.body)
    IN  Helper(b.st, f, fn.params, b.c)

RECURSIVE LowerAll(_, _, _)
LowerAll(st, p, fs) ==
    IF fs = <<>> THEN st.defs
    ELSE LowerAll(LowerFunction(st, Head(fs), p[Head(fs)]), p, Tail(fs))

LowerProgram(p) ==
    LowerAll([scope |-> {}, n |-> 0, defs |-> NoBindings], p,
             SetToSeq(DOMAIN p \ {"main"}) \o <<"main">>)

-----------------------------------------------------------------------------
Init == /\ prog \in Programs
        /\ phase = "ir"
        /\ code = NoBindings
        /\ observed = NoBindings

Lower == /\ phase = "ir"
         /\ code' = LowerProgram(prog)
         /\ phase' = "lowered"
         /\ UNCHANGED <<prog, observed>>

(* erlc takes only modules without unbound variables.                      *)
Refuse == /\ phase = "lowered"
          /\ ~Lints(code)
          /\ phase' = "refused"
          /\ UNCHANGED <<prog, code, observed>>

Execute == /\ phase = "lowered"
           /\ Lints(code)
           /\ observed' = RunMain(code)
           /\ phase' = "ran"
           /\ UNCHANGED <<prog, code>>

Next == Lower \/ Refuse \/ Execute

Spec == Init /\ [][Next]_vars

-----------------------------------------------------------------------------
(* The fragment of the language the lowering is right for.                 *)
Blocks(s) == CASE s.k = "if" -> <<s.th, s.el>>
               [] s.k \in {"while", "range", "each"} -> <<s.b>>
               [] s.k = "try" -> <<s.b, s.h>>
               [] s.k = "match" -> [i \in DOMAIN s.arms |-> s.arms[i].b]
               [] OTHER -> <<>>

(* A statement list with everything nested in it.                          *)
RECURSIVE Flat(_)
Flat(ss) == IF ss = <<>> THEN <<>>
            ELSE <<Head(ss)>> \o Flat(FlattenSeq(Blocks(Head(ss)))) \o Flat(Tail(ss))

Declares(s) == CASE s.k \in {"let", "decl", "range", "each", "try"} -> <<s.n>>
                 [] s.k = "match" ->
                        FlattenSeq([i \in DOMAIN s.arms |-> s.arms[i].vars])
                 [] OTHER -> <<>>

Declared(ss) == LET f == Flat(ss)
                IN  FlattenSeq([i \in DOMAIN f |-> Declares(f[i])])

(* No name is declared twice in a function, not even in separate blocks.   *)
NamesOnce(p) == \A f \in DOMAIN p : IsInjective(p[f].params \o Declared(p[f].body))

RECURSIVE Uses(_)
Uses(e) == CASE e.k = "var" -> {e.n}
             [] e.k = "bin" -> Uses(e.l) \cup Uses(e.r)
             [] e.k = "call" -> UNION {Uses(e.as[i]) : i \in DOMAIN e.as}
             [] e.k = "append" -> Uses(e.r) \cup Uses(e.v)
             [] e.k = "idx" -> Uses(e.r) \cup Uses(e.i)
             [] e.k = "mapget" -> Uses(e.r) \cup Uses(e.key)
             [] e.k \in {"list", "variant"} ->
                    UNION {Uses(e.es[i]) : i \in DOMAIN e.es}
             [] e.k = "lit" -> {}

UsedBy(s) == CASE s.k \in {"let", "print", "return"} -> Uses(s.e)
               [] s.k = "assign" -> {s.n} \cup Uses(s.e)
               [] s.k \in {"listset", "mapput"} -> {s.n} \cup Uses(s.i) \cup Uses(s.e)
               [] s.k \in {"if", "while"} -> Uses(s.c)
               [] s.k = "range" -> Uses(s.lo) \cup Uses(s.hi)
               [] s.k = "each" -> Uses(s.l)
               [] s.k = "match" ->
                    Uses(s.e) \cup UNION {Uses(s.arms[i].guard) : i \in DOMAIN s.arms}
               [] OTHER -> {}

(* The outer variables a loop uses or assigns, wherever in its body.       *)
OuterVars(s) == LET f == Flat(s.b)
                IN  UNION {UsedBy(f[i]) : i \in DOMAIN f}
                        \ (Range(Declared(s.b)) \cup Range(Declares(s)))

Collected(s) == StmtVarRefs(s.b) \cup AssignedVars(s.b)
                    \cup IF s.k = "while" THEN ExprVarRefs(s.c) ELSE {}

(* loopParams finds every outer variable the loop uses.                    *)
LoopsCollected(p) ==
    \A f \in DOMAIN p : LET b == Flat(p[f].body)
                        IN  \A i \in DOMAIN b : b[i].k \in {"while", "range", "each"}
                                => OuterVars(b[i]) \subseteq Collected(b[i])

RECURSIVE Divides(_)
Divides(e) == \/ e.k = "bin" /\ (e.op = "/" \/ Divides(e.l) \/ Divides(e.r))
              \/ e.k = "call" \* what it calls may panic
MayPanic(s) == LET f == Flat(<<s>>)
               IN  \E i \in DOMAIN f :
                    \/ f[i].k = "panic"
                    \/ f[i].k \in {"let", "assign", "print", "return"} /\ Divides(f[i].e)
Assigns(s) == LET f == Flat(<<s>>)
              IN  \E i \in DOMAIN f : f[i].k \in {"assign", "listset", "mapput"}

(* A try body that assigns and then panics: the assignment is not seen by  *)
(* the catch body on the BEAM.                                             *)
Clean(ss) == \A i, j \in DOMAIN ss :
    i <= j /\ Assigns(ss[i]) /\ MayPanic(ss[j]) => i = j /\ Blocks(ss[i]) = <<>>

(* Statements outside every try body of a statement list.                  *)
RECURSIVE Outside(_)
Outside(ss) ==
    IF ss = <<>> THEN <<>>
    ELSE LET s == Head(ss)
             inner == IF s.k = "try" THEN s.h ELSE FlattenSeq(Blocks(s))
         IN  (IF Blocks(s) = <<>> THEN <<s>> ELSE <<>>)
                \o Outside(inner) \o Outside(Tail(ss))

(* In a function with a try: every try body is clean, and nothing outside  *)
(* the try bodies panics.                                                  *)
TriesIsolated(p) ==
    \A f \in DOMAIN p :
        LET b == Flat(p[f].body)
            tries == {i \in DOMAIN b : b[i].k = "try"}
            o == Outside(p[f].body)
        IN  tries # {} => /\ \A i \in tries : Clean(b[i].b)
                          /\ \A i \in DOMAIN o : ~MayPanic(o[i])

-----------------------------------------------------------------------------
Shown == [out |-> observed.out,
          exit |-> IF observed.t = "val" THEN 0
                   ELSE IF observed.tag = "mochi_panic" THEN observed.vs[1] ELSE -1]

(* erlc accepts what the lowering makes of a program that declares no name *)
(* twice and whose loops use no variable that loopParams overlooks: every  *)
(* helper receives all the variables its body, the continuations put in it *)
(* and the throws of break and continue mention (lowerBlock, loopParams).  *)
AcceptedByErlc == phase = "refused" => ~(NamesOnce(prog) /\ LoopsCollected(prog))

(* On that fragment, with isolated tries, the code prints what the program *)
(* means and ends with the same panic code: assignments made in branches,  *)
(* in loop bodies and before a break, a continue or a return reach exactly *)
(* the code that follows (the continuation passing of lowerBlock).         *)
SameMeaning ==
    phase = "ran" /\ NamesOnce(prog) /\ LoopsCollected(prog) /\ TriesIsolated(prog)
        => Shown = Meaning(prog)

(* For every program erlc accepts: the throws that stand for break,        *)
(* continue and return are all caught by the loop or the function they     *)
(* belong to, whatever loops, tries and calls lie between; only panics     *)
(* end main abnormally.                                                    *)
NoControlEscapes ==
    phase = "ran" => observed.t = "val" \/ observed.tag = "mochi_panic"

(* SameMeaning without LoopsCollected: the comment of loopParams says that *)
(* it finds every outer variable referenced or assigned in the loop, so    *)
(* that what a loop assigns is there after the loop.                       *)
LoopAssignmentsReach ==
    phase = "ran" /\ NamesOnce(prog) /\ TriesIsolated(prog) => Shown = Meaning(prog)

(* SameMeaning without NamesOnce: a let declares a fresh binding           *)
(* (aotir.LetStmt), and the verifier accepts one in a nested block that    *)
(* reuses the name of an outer variable (test shadow_in_nested_scope_ok);  *)
(* the outer variable keeps its value.                                     *)
ShadowingKeepsMeaning ==
    phase = "ran" /\ LoopsCollected(prog) /\ TriesIsolated(prog)
        => Shown = Meaning(prog)
=============================================================================
