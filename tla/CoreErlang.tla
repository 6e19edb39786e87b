----------------------------- MODULE CoreErlang -----------------------------
(***************************************************************************)
(* The part of Core Erlang the BEAM backend emits, built by the            *)
(* constructors of src/transpiler/cerl, and how the Erlang machine runs    *)
(* it.  A module maps function names to their variables and their body; a  *)
(* node is a record whose field k names the cerl constructor.              *)
(*                                                                         *)
(* Three shapes that lower.go builds from several constructors are nodes   *)
(* here: a c_case on a boolean ("if"), a c_case on [] and [H|T] ("uncons") *)
(* and a c_try whose handler is a c_case over the reason ("try").  Such a  *)
(* handler is a sequence of clauses [tag, num, vars, body], and other says *)
(* what its last clause does with a reason no clause matches:              *)
(* erlang:raise keeps the class, erlang:throw makes it a throw.            *)
(***************************************************************************)
EXTENDS Integers, Sequences, TLC

LOCAL INSTANCE SequencesExt

CVar(n) == [k |-> "var", n |-> n]
CLit(v) == [k |-> "lit", v |-> v]
CLet(n, e, b) == [k |-> "let", n |-> n, e |-> e, b |-> b]
CSeq(e, b) == [k |-> "seq", e |-> e, b |-> b]
CUntuple(ns, e, b) == [k |-> "untuple", ns |-> ns, e |-> e, b |-> b]
CTuple(es) == [k |-> "tuple", es |-> es]
CTagged(tag, es) == [k |-> "tagged", tag |-> tag, es |-> es]
CIf(c, th, el) == [k |-> "if", c |-> c, th |-> th, el |-> el]
CUncons(e, nil, h, t, b) ==
    [k |-> "uncons", e |-> e, nil |-> nil, h |-> h, t |-> t, b |-> b]
CCase(e, cls) == [k |-> "case", e |-> e, cls |-> cls]
CCall(op, es) == [k |-> "call", op |-> op, es |-> es]
CApply(f, es) == [k |-> "apply", f |-> f, es |-> es]
CRaise(cls, tag, num, es) ==
    [k |-> "raise", cls |-> cls, tag |-> tag, num |-> num, es |-> es]
CTry(e, cls, other) == [k |-> "try", e |-> e, cls |-> cls, other |-> other]
Clause(tag, num, vars, guard, b) ==
    [tag |-> tag, num |-> num, vars |-> vars, guard |-> guard, b |-> b]

COk == CLit(0)          \* the atom ok, where no value is looked at
CTrue == CLit(TRUE)

-----------------------------------------------------------------------------
(* The variables that occur free: erlc's lint pass refuses a module in     *)
(* which a function body has one that is not a parameter.                  *)
RECURSIVE Free(_)
FreeIn(es) == UNION {Free(es[i]) : i \in DOMAIN es}
FreeClauses(cls) ==
    UNION {(Free(cls[i].guard) \cup Free(cls[i].b)) \ Range(cls[i].vars)
              : i \in DOMAIN cls}

Free(e) ==
    CASE e.k = "var" -> {e.n}
      [] e.k = "lit" -> {}
      [] e.k = "let" -> Free(e.e) \cup (Free(e.b) \ {e.n})
      [] e.k = "seq" -> Free(e.e) \cup Free(e.b)
      [] e.k = "untuple" -> Free(e.e) \cup (Free(e.b) \ Range(e.ns))
      [] e.k \in {"tuple", "tagged", "call", "apply", "raise"} -> FreeIn(e.es)
      [] e.k = "if" -> Free(e.c) \cup Free(e.th) \cup Free(e.el)
      [] e.k = "uncons" ->
            Free(e.e) \cup Free(e.nil) \cup (Free(e.b) \ {e.h, e.t})
      [] e.k \in {"case", "try"} -> Free(e.e) \cup FreeClauses(e.cls)

Lints(m) == \A f \in DOMAIN m : Free(m[f].body) \subseteq Range(m[f].vars)

-----------------------------------------------------------------------------
(* Evaluation: a value, or an exception with its class and its reason, a   *)
(* tag, a number and values; and the output so far.                        *)
Returned(v, out) == [t |-> "val", v |-> v, out |-> out]
Exception(cls, tag, num, vs, out) ==
    [t |-> "exc", cls |-> cls, tag |-> tag, num |-> num, vs |-> vs, out |-> out]

NoBindings == [n \in {} |-> 0]
BindVars(ns, vs) == [n \in Range(ns) |-> vs[CHOOSE i \in DOMAIN ns : ns[i] = n]]

(* The Erlang functions and the mochi runtime functions the code calls.    *)
Builtin(op, v, out) ==
    CASE op = "+" -> Returned(v[1] + v[2], out)
      [] op = "-" -> Returned(v[1] - v[2], out)
      [] op = "<" -> Returned(v[1] < v[2], out)
      [] op = ">=" -> Returned(v[1] >= v[2], out)
      [] op = "=:=" -> Returned(v[1] = v[2], out)
      [] op = "div" -> IF v[2] = 0
                       THEN Exception("error", "badarith", 0, <<>>, out)
                       ELSE Returned(v[1] \div v[2], out)
      [] op = "nth" -> IF v[1] \in DOMAIN v[2] THEN Returned(v[2][v[1]], out)
                       ELSE Exception("error", "function_clause", 0, <<>>, out)
      [] op = "++" -> Returned(v[1] \o v[2], out)
      [] op = "list_set" -> Returned([v[1] EXCEPT ![v[2] + 1] = v[3]], out)
      [] op = "map_put" -> Returned((v[2] :> v[3]) @@ v[1], out)
      [] op = "map_get" -> IF v[1] \in DOMAIN v[2] THEN Returned(v[2][v[1]], out)
                           ELSE Exception("error", "badkey", 0, <<>>, out)
      [] op = "put_chars" -> Returned(0, Append(out, v[1]))

RECURSIVE Run(_, _, _, _)
RECURSIVE RunAll(_, _, _, _)

RunAll(m, es, env, out) ==
    IF es = <<>> THEN Returned(<<>>, out)
    ELSE LET r == Run(m, Head(es), env, out)
             rs == RunAll(m, Tail(es), env, r.out)
         IN  IF r.t = "exc" THEN r
             ELSE IF rs.t = "exc" THEN rs
             ELSE Returned(<<r.v>> \o rs.v, rs.out)

(* The first clause that takes the variant v.                              *)
Matching(m, cls, v, env, out) ==
    LET Vars(c) == IF c.tag = "_" THEN NoBindings ELSE BindVars(c.vars, v.fs)
        Takes(c) == /\ c.tag \in {"_", v.tag}
                    /\ Run(m, c.guard, Vars(c) @@ env, out).v
        i == CHOOSE i \in DOMAIN cls :
                Takes(cls[i]) /\ \A j \in 1..(i - 1) : ~Takes(cls[j])
    IN  Run(m, cls[i].b, Vars(cls[i]) @@ env, out)

(* A handler sees the exception x in the environment of the try.  What no  *)
(* clause matches goes to erlang:raise(Cls, Rsn, Stk) with the raw trace   *)
(* that the try bound to Stk; that the VM takes it and raises x again is   *)
(* assumed, and confirmed by nothing in the repository.                    *)
Handle(m, e, x, env) ==
    LET hit == {i \in DOMAIN e.cls : e.cls[i].tag = x.tag /\ e.cls[i].num = x.num}
        c == e.cls[CHOOSE i \in hit : TRUE]
    IN  IF hit # {} THEN Run(m, c.b, BindVars(c.vars, x.vs) @@ env, x.out)
        ELSE IF e.other = "raise" THEN x
        ELSE [x EXCEPT !.cls = "throw"]

Run(m, e, env, out) ==
    LET Then(es, Op(_, _)) ==
            LET r == RunAll(m, es, env, out)
            IN  IF r.t = "exc" THEN r ELSE Op(r.v, r.out)
    IN  CASE e.k = "var" -> Returned(env[e.n], out)
          [] e.k = "lit" -> Returned(e.v, out)
          [] e.k = "let" ->
                Then(<<e.e>>, LAMBDA v, o : Run(m, e.b, (e.n :> v[1]) @@ env, o))
          [] e.k = "seq" -> Then(<<e.e>>, LAMBDA v, o : Run(m, e.b, env, o))
          [] e.k = "untuple" ->
                Then(<<e.e>>, LAMBDA v, o :
                    Run(m, e.b, BindVars(e.ns, v[1]) @@ env, o))
          [] e.k = "tuple" -> RunAll(m, e.es, env, out)
          [] e.k = "tagged" ->
                Then(e.es, LAMBDA v, o : Returned([tag |-> e.tag, fs |-> v], o))
          [] e.k = "if" ->
                Then(<<e.c>>, LAMBDA v, o :
                    Run(m, IF v[1] THEN e.th ELSE e.el, env, o))
          [] e.k = "uncons" ->
                Then(<<e.e>>, LAMBDA v, o :
                    IF v[1] = <<>> THEN Run(m, e.nil, env, o)
                    ELSE Run(m, e.b, (e.h :> Head(v[1])) @@ (e.t :> Tail(v[1])) @@ env, o))
          [] e.k = "case" ->
                Then(<<e.e>>, LAMBDA v, o : Matching(m, e.cls, v[1], env, o))
          [] e.k = "call" -> Then(e.es, LAMBDA v, o : Builtin(e.op, v, o))
          [] e.k = "apply" ->
                Then(e.es, LAMBDA v, o :
                    Run(m, m[e.f].body, BindVars(m[e.f].vars, v), o))
          [] e.k = "raise" ->
                Then(e.es, LAMBDA v, o : Exception(e.cls, e.tag, e.num, v, o))
          [] e.k = "try" ->
                LET r == Run(m, e.e, env, out)
                IN  IF r.t = "val" THEN r ELSE Handle(m, e, r, env)

(* What a user sees of a run of main.                                      *)
RunMain(m) == Run(m, m["main"].body, NoBindings, <<>>)
=============================================================================
