------------------------------ MODULE MochiIR ------------------------------
(***************************************************************************)
(* The typed intermediate representation of src/internal/aotir, the input  *)
(* of the BEAM backend, and what it means.  A program maps the name of     *)
(* each function to its parameters and its body, a sequence of statements; *)
(* expressions and statements are records whose field k names the aotir    *)
(* node.  Types, names of record fields and the C backend's annotations    *)
(* are left out: the programs of this module are the ones the verifier     *)
(* accepts.                                                                *)
(*                                                                         *)
(* Exec is the meaning the node comments of aotir/program.go give: a block *)
(* opens a scope, an assignment updates the innermost binding of its name, *)
(* break and continue belong to the nearest loop, a panic goes to the      *)
(* nearest enclosing catch.                                                *)
(***************************************************************************)
EXTENDS Integers, Sequences, TLC

LOCAL INSTANCE SequencesExt

(* Expressions.                                                            *)
Literal(v) == [k |-> "lit", v |-> v]      \* IntLit, BoolLit
VarRef(n) == [k |-> "var", n |-> n]
Binary(op, l, r) == [k |-> "bin", op |-> op, l |-> l, r |-> r]
CallExpr(f, as) == [k |-> "call", f |-> f, as |-> as]
ListLit(es) == [k |-> "list", es |-> es]
IndexExpr(r, i) == [k |-> "idx", r |-> r, i |-> i]
AppendExpr(r, v) == [k |-> "append", r |-> r, v |-> v]
MapGetExpr(r, key) == [k |-> "mapget", r |-> r, key |-> key]
VariantLit(tag, es) == [k |-> "variant", tag |-> tag, es |-> es]

(* Statements.  A nil else branch is the empty block.  A match arm is a    *)
(* record [tag, vars, guard, b], tag "_" for the default arm; res is ""    *)
(* for a match used as a statement, else the variable DeclStmt declared    *)
(* for its value (a LetStmt without Init), which every arm assigns last.   *)
LetStmt(n, e) == [k |-> "let", n |-> n, e |-> e]
DeclStmt(n) == [k |-> "decl", n |-> n]
AssignStmt(n, e) == [k |-> "assign", n |-> n, e |-> e]
ListSetStmt(n, i, e) == [k |-> "listset", n |-> n, i |-> i, e |-> e]
MapPutStmt(n, i, e) == [k |-> "mapput", n |-> n, i |-> i, e |-> e]
PrintStmt(e) == [k |-> "print", e |-> e]
IfStmt(c, th, el) == [k |-> "if", c |-> c, th |-> th, el |-> el]
WhileStmt(c, b) == [k |-> "while", c |-> c, b |-> b]
ForRangeStmt(n, lo, hi, b) ==
    [k |-> "range", n |-> n, lo |-> lo, hi |-> hi, b |-> b]
ForEachStmt(n, l, b) == [k |-> "each", n |-> n, l |-> l, b |-> b]
BreakStmt == [k |-> "break"]
ContinueStmt == [k |-> "continue"]
ReturnStmt(e) == [k |-> "return", e |-> e]
PanicStmt(c) == [k |-> "panic", c |-> c]
TryCatchStmt(b, n, h) == [k |-> "try", b |-> b, n |-> n, h |-> h]
MatchStmt(e, arms, res) == [k |-> "match", e |-> e, arms |-> arms, res |-> res]
MatchArm(tag, vars, guard, b) ==
    [tag |-> tag, vars |-> vars, guard |-> guard, b |-> b]

DivZero == 5    \* MOCHI_ERR_DIVZERO

-----------------------------------------------------------------------------
(* Environments: the scopes that are open, innermost last.                 *)
NoVars == [n \in {} |-> 0]

Depth(env, n) == CHOOSE d \in 1..Len(env) :
    /\ n \in DOMAIN env[d]
    /\ \A c \in (d + 1)..Len(env) : n \notin DOMAIN env[c]

Lookup(env, n) == env[Depth(env, n)][n]
Update(env, n, v) == [env EXCEPT ![Depth(env, n)][n] = v]
Bind(env, n, v) == [env EXCEPT ![Len(env)] = (n :> v) @@ @]
BindAll(ns, vs) == [n \in Range(ns) |-> vs[CHOOSE i \in DOMAIN ns : ns[i] = n]]

(* What an expression gives: a value or a panic, and the output so far.    *)
Value(v, out) == [t |-> "val", v |-> v, out |-> out]
Panicked(c, out) == [t |-> "panic", v |-> c, out |-> out]

(* How a statement ends: "next", "break", "continue", "return" or "panic". *)
Done(t, v, env, out) == [t |-> t, v |-> v, env |-> env, out |-> out]

(* Division truncates; the programs divide no negative numbers.            *)
Operate(op, a, b, out) ==
    CASE op = "+" -> Value(a + b, out)
      [] op = "-" -> Value(a - b, out)
      [] op = "<" -> Value(a < b, out)
      [] op = "==" -> Value(a = b, out)
      [] op = "/" -> IF b = 0 THEN Panicked(DivZero, out)
                              ELSE Value(a \div b, out)

(* What comes after an expression, in an expression and in a statement,    *)
(* and after a statement, in a block and in a loop.                        *)
Then(r, Op(_, _)) == IF r.t = "panic" THEN r ELSE Op(r.v, r.out)
With(env, r, Op(_, _)) ==
    IF r.t = "panic" THEN Done("panic", r.v, env, r.out) ELSE Op(r.v, r.out)
Proceed(r, Op(_, _)) == IF r.t = "next" THEN Op(r.env, r.out) ELSE r
Iterate(r, Op(_, _)) ==
    CASE r.t \in {"next", "continue"} -> Op(r.env, r.out)
      [] r.t = "break" -> Done("next", 0, r.env, r.out)
      [] r.t \in {"return", "panic"} -> r

RECURSIVE Eval(_, _, _, _)
RECURSIVE EvalAll(_, _, _, _)
RECURSIVE Exec(_, _, _, _)
RECURSIVE ExecWhile(_, _, _, _)
RECURSIVE ExecFor(_, _, _, _, _)

(* The values of a sequence of expressions, left to right.                 *)
EvalAll(p, es, env, out) ==
    IF es = <<>> THEN Value(<<>>, out)
    ELSE Then(Eval(p, Head(es), env, out), LAMBDA v, o :
            Then(EvalAll(p, Tail(es), env, o), LAMBDA vs, o2 :
                Value(<<v>> \o vs, o2)))

(* A call runs the body in a scope that holds the parameters only.         *)
Called(r) == IF r.t = "panic" THEN Panicked(r.v, r.out)
             ELSE Value(IF r.t = "return" THEN r.v ELSE 0, r.out)
Invoke(p, f, vs, out) ==
    Called(Exec(p, p[f].body, <<BindAll(p[f].params, vs)>>, out))

Eval(p, e, env, out) ==
    LET Apply(es, Op(_, _)) == Then(EvalAll(p, es, env, out), Op)
    IN  CASE e.k = "lit" -> Value(e.v, out)
          [] e.k = "var" -> Value(Lookup(env, e.n), out)
          [] e.k = "list" -> EvalAll(p, e.es, env, out)
          [] e.k = "bin" /\ e.op \in {"and", "or"} ->  \* short-circuit
                Then(Eval(p, e.l, env, out), LAMBDA v, o :
                    IF v = (e.op = "or") THEN Value(v, o) ELSE Eval(p, e.r, env, o))
          [] e.k = "bin" /\ e.op \notin {"and", "or"} ->
                Apply(<<e.l, e.r>>, LAMBDA v, o : Operate(e.op, v[1], v[2], o))
          [] e.k = "call" -> Apply(e.as, LAMBDA v, o : Invoke(p, e.f, v, o))
          [] e.k = "idx" ->
                Apply(<<e.r, e.i>>, LAMBDA v, o : Value(v[1][v[2] + 1], o))
          [] e.k = "mapget" ->
                Apply(<<e.r, e.key>>, LAMBDA v, o : Value(v[1][v[2]], o))
          [] e.k = "append" ->
                Apply(<<e.r, e.v>>, LAMBDA v, o : Value(v[1] \o <<v[2]>>, o))
          [] e.k = "variant" ->
                Apply(e.es, LAMBDA v, o : Value([tag |-> e.tag, fs |-> v], o))

(* A nested block, with the variables vars bound in its scope.             *)
ExecBlock(p, ss, vars, env, out) ==
    [Exec(p, ss, Append(env, vars), out) EXCEPT !.env = Front(@)]

ExecWhile(p, s, env, out) ==
    With(env, Eval(p, s.c, env, out), LAMBDA v, o :
        IF ~v THEN Done("next", 0, env, o)
        ELSE Iterate(ExecBlock(p, s.b, NoVars, env, o), LAMBDA env2, o2 :
                ExecWhile(p, s, env2, o2)))

(* Both for loops: the body once for each of the values vs.                *)
ExecFor(p, s, vs, env, out) ==
    IF vs = <<>> THEN Done("next", 0, env, out)
    ELSE Iterate(ExecBlock(p, s.b, s.n :> Head(vs), env, out), LAMBDA env2, o :
            ExecFor(p, s, Tail(vs), env2, o))

(* The first arm whose variant is the target's and whose guard holds.      *)
ExecMatch(p, s, v, env, out) ==
    LET Scope(a) == IF a.tag = "_" THEN NoVars ELSE BindAll(a.vars, v.fs)
        Takes(a) == /\ a.tag \in {"_", v.tag}
                    /\ Eval(p, a.guard, Append(env, Scope(a)), out).v
        Arm(a) == ExecBlock(p, a.b, Scope(a), env, out)
    IN  Arm(s.arms[SelectInSeq(s.arms, Takes)])

(* The catch body runs with the panic code in its variable, and sees the   *)
(* assignments the try body made before it panicked.                       *)
ExecCatch(p, s, r) ==
    IF r.t # "panic" THEN r
    ELSE ExecBlock(p, s.h, s.n :> r.v, r.env, r.out)
ExecTry(p, s, env, out) == ExecCatch(p, s, ExecBlock(p, s.b, NoVars, env, out))

ExecOne(p, s, env, out) ==
    LET Using(e, Op(_, _)) == With(env, Eval(p, e, env, out), Op)
        Set(v, o) == Done("next", 0, Update(env, s.n, v), o)
    IN  CASE s.k = "let" ->
                Using(s.e, LAMBDA v, o : Done("next", 0, Bind(env, s.n, v), o))
          [] s.k = "decl" -> Done("next", 0, Bind(env, s.n, 0), out)
          [] s.k = "assign" -> Using(s.e, Set)
          [] s.k = "listset" ->
                Using(ListLit(<<s.i, s.e>>), LAMBDA v, o :
                    Set([Lookup(env, s.n) EXCEPT ![v[1] + 1] = v[2]], o))
          [] s.k = "mapput" ->
                Using(ListLit(<<s.i, s.e>>), LAMBDA v, o :
                    Set((v[1] :> v[2]) @@ Lookup(env, s.n), o))
          [] s.k = "print" ->
                Using(s.e, LAMBDA v, o : Done("next", 0, env, Append(o, v)))
          [] s.k = "if" ->
                Using(s.c, LAMBDA v, o :
                    ExecBlock(p, IF v THEN s.th ELSE s.el, NoVars, env, o))
          [] s.k = "while" -> ExecWhile(p, s, env, out)
          [] s.k = "range" ->
                Using(ListLit(<<s.lo, s.hi>>), LAMBDA v, o :
                    ExecFor(p, s, [i \in 1..(v[2] - v[1]) |-> v[1] + i - 1], env, o))
          [] s.k = "each" -> Using(s.l, LAMBDA v, o : ExecFor(p, s, v, env, o))
          [] s.k \in {"break", "continue"} -> Done(s.k, 0, env, out)
          [] s.k = "return" -> Using(s.e, LAMBDA v, o : Done("return", v, env, o))
          [] s.k = "panic" -> Done("panic", s.c, env, out)
          [] s.k = "try" -> ExecTry(p, s, env, out)
          [] s.k = "match" -> Using(s.e, LAMBDA v, o : ExecMatch(p, s, v, env, o))

Exec(p, ss, env, out) ==
    IF ss = <<>> THEN Done("next", 0, env, out)
    ELSE Proceed(ExecOne(p, Head(ss), env, out), LAMBDA env2, o :
            Exec(p, Tail(ss), env2, o))

(* What a user sees of a run: the lines printed, and the code of the panic *)
(* that ended it, 0 for none.                                              *)
Seen(r) == [out |-> r.out, exit |-> IF r.t = "panic" THEN r.v ELSE 0]
Meaning(p) == Seen(Invoke(p, "main", <<>>, <<>>))
=============================================================================
